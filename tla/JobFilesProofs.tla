-------------------------- MODULE JobFilesProofs --------------------------
(***************************************************************************)
(* Proofs about the two modules of background jobs and the files they      *)
(* leave: TariffJobs, for any number of jobs and pages, and BatchReview,   *)
(* for any clusters, choices and handler threads.                          *)
(***************************************************************************)
EXTENDS TariffJobs, BatchReview, TLAPS

-----------------------------------------------------------------------------
(* TariffJobs: the tree is whole *)

\* What makes half a tree unreachable: a job that has finished its first file is not
\* new, the nodes are the first file of a full job, and only the manifest that is
\* written after them can call the hierarchy complete.
NotNew       == \A j \in Jobs : job[j].status = "new" => job[j].done = 0
NodesFirst   == \A j \in Jobs : job[j].mode = "full" /\ job[j].done >= 1 => output[j].nodes = "whole"
CompleteHas  == \A j \in Jobs : output[j].complete => output[j].nodes = "whole"
ResolvedHas  == resolved # 0 => output[resolved].nodes = "whole"

TariffInv == /\ TariffTypeOK /\ NotNew /\ NodesFirst /\ CompleteHas /\ ResolvedHas
             /\ TreeIsWhole

-----------------------------------------------------------------------------
LEMMA TariffInitially == TariffInit => TariffInv
  BY JobsAssumption, SMT DEF TariffInit, TariffInv, TariffTypeOK, NotNew, NodesFirst, CompleteHas,
     ResolvedHas, TreeIsWhole, Jobs, Job, Output, Statuses, Parts, Modes

\* A step of a job that touches no file puts a record in its place that has finished
\* as many files in the same mode, or none.
LEMMA ChangedJob ==
  ASSUME TariffInv, NEW j \in Jobs, NEW r \in Job, job' = [job EXCEPT ![j] = r],
         UNCHANGED <<output, resolved, tree>>, r.status # "new",
         r.done = 0 \/ (r.done = job[j].done /\ r.mode = job[j].mode)
  PROVE  TariffInv'
<1>1. job \in [Jobs -> Job]
  BY DEF TariffInv, TariffTypeOK
<1>2. TariffTypeOK'
  BY <1>1, Zenon DEF TariffInv, TariffTypeOK
<1>3. \A i \in Jobs : job'[i] = IF i = j THEN r ELSE job[i]
  BY <1>1
<1>4. r.done \in 0..2
  BY DEF Job
<1>5. NotNew'
  BY <1>3 DEF TariffInv, NotNew
<1>6. NodesFirst'
  BY <1>3, <1>4, SMT DEF TariffInv, NodesFirst
<1>7. CompleteHas' /\ ResolvedHas' /\ TreeIsWhole'
  BY DEF TariffInv, CompleteHas, ResolvedHas, TreeIsWhole
<1> QED BY <1>2, <1>5, <1>6, <1>7 DEF TariffInv

LEMMA JobKeeps ==
  ASSUME TariffInv, NEW j \in Jobs,
         \/ \E mode \in Modes : StartJob(j, mode)
         \/ CancelJob(j) \/ RunJob(j) \/ ReadPage(j) \/ CompleteJob(j) \/ FailJob(j)
  PROVE  TariffInv'
<1> USE JobsAssumption
<1>1. PICK c : c = job[j]
  OBVIOUS
<1>2. /\ c \in Job /\ job \in [Jobs -> Job]
      /\ c.status = "new" => c.done = 0
  BY <1>1 DEF TariffInv, TariffTypeOK, NotNew
<1>3. ASSUME NEW mode \in Modes, StartJob(j, mode) PROVE TariffInv'
  <2>1. PICK r : r = [c EXCEPT !.status = "queued", !.mode = mode]
    OBVIOUS
  <2>5. PICK q : q = [c EXCEPT !.status = "queued"]
    OBVIOUS
  <2>6. q \in Job /\ q.status = "queued" /\ q.done = c.done
    BY <1>2, <2>5, SMT DEF Job, Statuses
  <2>7. r = [q EXCEPT !.mode = mode]
    BY <2>1, <2>5, Zenon
  <2>2. r \in Job /\ r.status # "new" /\ r.done = c.done
    BY <1>3, <2>6, <2>7, SMT DEF Job, Modes
  <2>3. job' = [job EXCEPT ![j] = r]
    BY <1>1, <2>1, <1>3, Zenon DEF StartJob
  <2>4. c.status = "new" /\ UNCHANGED <<output, resolved, tree>>
    BY <1>1, <1>3 DEF StartJob
  <2> QED BY <1>1, <1>2, <2>2, <2>3, <2>4, ChangedJob
<1>4. ASSUME NEW r \in Job, job' = [job EXCEPT ![j] = r], r.done = c.done, r.mode = c.mode,
             r.status # "new", UNCHANGED <<output, resolved, tree>>
      PROVE  TariffInv'
  BY <1>1, <1>4, ChangedJob
<1>5. CASE CancelJob(j)
  <2>0. PICK b \in BOOLEAN : b = TRUE
    OBVIOUS
  <2>1. PICK r : r = [c EXCEPT !.cancelled = b]
    OBVIOUS
  <2>2. r \in Job /\ r.status = c.status /\ r.done = c.done /\ r.mode = c.mode
    BY <1>2, <2>1, SMT DEF Job
  <2>3. /\ job' = [job EXCEPT ![j] = r] /\ UNCHANGED <<output, resolved, tree>>
        /\ c.status # "new"
    BY <1>1, <2>0, <2>1, <1>5, Zenon DEF CancelJob, Active
  <2> QED BY <2>2, <2>3, <1>4
<1>6. ASSUME NEW status \in Statuses \ {"new"},
             job' = [job EXCEPT ![j].status = status], UNCHANGED <<output, resolved, tree>>
      PROVE  TariffInv'
  <2>1. PICK r : r = [c EXCEPT !.status = status]
    OBVIOUS
  <2>2. r \in Job /\ r.status # "new" /\ r.done = c.done /\ r.mode = c.mode
    BY <1>2, <2>1, SMT DEF Job
  <2>3. job' = [job EXCEPT ![j] = r]
    BY <1>1, <2>1, <1>6, Zenon
  <2> QED BY <2>2, <2>3, <1>4, <1>6
<1>7. CASE RunJob(j)
  BY <1>6, <1>7 DEF RunJob, Statuses
<1>8. CASE CompleteJob(j)
  BY <1>6, <1>8 DEF CompleteJob, Statuses
<1>9. CASE FailJob(j)
  BY <1>6, <1>9 DEF FailJob, Statuses
<1>10. CASE ReadPage(j) /\ c.cancelled
  BY <1>1, <1>6, <1>10 DEF ReadPage, Statuses
<1>11. CASE ReadPage(j) /\ ~c.cancelled
  <2>1. PICK r : r = [c EXCEPT !.page = c.page + 1]
    OBVIOUS
  <2>2. c.page < MaxPages /\ c.status = "running"
    BY <1>1, <1>11 DEF ReadPage
  <2>3. r \in Job /\ r.status = c.status /\ r.done = c.done /\ r.mode = c.mode
    BY <1>2, <2>1, <2>2, SMT DEF Job
  <2>4. job' = [job EXCEPT ![j] = r] /\ UNCHANGED <<output, resolved, tree>>
    BY <1>1, <2>1, <1>11, Zenon DEF ReadPage
  <2> QED BY <2>2, <2>3, <2>4, <1>4
<1> QED BY <1>3, <1>5, <1>7, <1>8, <1>9, <1>10, <1>11

\* Opening a file leaves the ones that are whole alone.
LEMMA OpenKeeps ==
  ASSUME TariffInv, NEW j \in Jobs, OpenOutput(j)
  PROVE  TariffInv'
<1> USE JobsAssumption
<1>1. File(j) \in {"nodes", "manifest"}
  BY SMT DEF TariffInv, TariffTypeOK, OpenOutput, File, Outputs, Job, Jobs, Modes
<1>2. TariffTypeOK'
  <2>1. PICK o : o = [output[j] EXCEPT ![File(j)] = "part"]
    OBVIOUS
  <2>2. output \in [Jobs -> Output] /\ output[j] \in Output
    BY DEF TariffInv, TariffTypeOK
  <2>3. o \in Output
    BY <1>1, <2>1, <2>2, SMT DEF Output, Parts
  <2>4. output' = [output EXCEPT ![j] = o]
    BY <2>1, Zenon DEF OpenOutput
  <2> QED BY <2>2, <2>3, <2>4 DEF TariffInv, TariffTypeOK, OpenOutput
<1>3. \A i \in Jobs : /\ output[i].nodes = "whole" => output'[i].nodes = "whole"
                      /\ output'[i].complete = output[i].complete
  BY <1>1, SMT DEF TariffInv, TariffTypeOK, OpenOutput, Output, Jobs, Parts
<1>4. UNCHANGED <<job, resolved, tree>>
  BY DEF OpenOutput
<1>5. resolved \in 0..MaxJobs
  BY DEF TariffInv, TariffTypeOK
<1> QED BY <1>2, <1>3, <1>4, <1>5, SMT DEF TariffInv, NotNew, NodesFirst, CompleteHas,
        ResolvedHas, TreeIsWhole, Jobs

\* Closing the manifest of a full job finds its nodes whole.
LEMMA CloseKeeps ==
  ASSUME TariffInv, NEW j \in Jobs, NEW complete \in BOOLEAN, CloseOutput(j, complete)
  PROVE  TariffInv'
<1> USE JobsAssumption
<1>1. /\ job[j].mode = "demo" => job[j].done = 0 /\ File(j) = "manifest"
      /\ job[j].mode = "full" /\ job[j].done = 0 => File(j) = "nodes"
      /\ job[j].mode = "full" /\ job[j].done # 0 => job[j].done = 1 /\ File(j) = "manifest"
      /\ job[j].mode \in {"demo", "full"} /\ job[j].done \in 0..1
      /\ job[j].status = "running"
  BY SMT DEF TariffInv, TariffTypeOK, CloseOutput, File, Outputs, Job, Jobs, Modes, Writing
<1>2. TariffTypeOK'
  <2>1. PICK o : o = [output[j] EXCEPT ![File(j)] = "whole",
                                       !.complete = output[j].complete \/ complete]
    OBVIOUS
  <2>2. PICK c : c = [job[j] EXCEPT !.done = job[j].done + 1]
    OBVIOUS
  <2>3. output \in [Jobs -> Output] /\ output[j] \in Output /\ job[j] \in Job
    BY DEF TariffInv, TariffTypeOK
  <2>4. output[j].complete \/ complete \in BOOLEAN
    BY <2>3 DEF Output
  <2>5. o \in Output
    <3>1. PICK b \in BOOLEAN : b = (output[j].complete \/ complete)
      BY <2>4, Zenon
    <3>2. PICK p : p = [output[j] EXCEPT ![File(j)] = "whole"]
      OBVIOUS
    <3>3. p \in Output
      BY <1>1, <2>3, <3>2, SMT DEF Output, Parts
    <3>4. o = [p EXCEPT !.complete = b]
      BY <2>1, <3>1, <3>2, Zenon
    <3> QED BY <3>3, <3>4, SMT DEF Output
  <2>6. c \in Job
    BY <1>1, <2>2, <2>3, SMT DEF Job
  <2>7. output' = [output EXCEPT ![j] = o] /\ job' = [job EXCEPT ![j] = c]
    BY <2>1, <2>2, Zenon DEF CloseOutput
  <2>8. job \in [Jobs -> Job] /\ UNCHANGED <<resolved, tree>>
    BY DEF TariffInv, TariffTypeOK, CloseOutput
  <2>9. output' \in [Jobs -> Output] /\ job' \in [Jobs -> Job]
    BY <2>3, <2>5, <2>6, <2>7, <2>8
  <2> QED BY <2>8, <2>9 DEF TariffInv, TariffTypeOK
<1>3. NotNew'
  BY <1>1, SMT DEF TariffInv, TariffTypeOK, CloseOutput, Job, Jobs, NotNew
<1>4. NodesFirst'
  BY <1>1, SMT DEF TariffInv, TariffTypeOK, CloseOutput, Output, Job, Jobs, NodesFirst
<1>5. CompleteHas'
  BY <1>1, SMT DEF TariffInv, TariffTypeOK, CloseOutput, Output, Job, Jobs, NodesFirst, CompleteHas
<1>6. ResolvedHas' /\ TreeIsWhole'
  BY <1>1, SMT DEF TariffInv, TariffTypeOK, CloseOutput, Output, Jobs, ResolvedHas, TreeIsWhole
<1> QED BY <1>2, <1>3, <1>4, <1>5, <1>6 DEF TariffInv

\* The restart and the reader.
LEMMA ReaderKeeps ==
  ASSUME TariffInv, RestartManager \/ ResolveSource \/ LoadTree
  PROVE  TariffInv'
<1> USE JobsAssumption
<1>1. CASE RestartManager
  <2>1. \A j \in Jobs : /\ job'[j] \in Job
                        /\ job'[j].done = job[j].done /\ job'[j].mode = job[j].mode
                        /\ job'[j].status = "new" => job[j].status = "new"
    <3> SUFFICES ASSUME NEW j \in Jobs
                 PROVE  /\ job'[j] \in Job
                        /\ job'[j].done = job[j].done /\ job'[j].mode = job[j].mode
                        /\ job'[j].status = "new" => job[j].status = "new"
      OBVIOUS
    <3>1. PICK c : c = job[j]
      OBVIOUS
    <3>2. c \in Job
      BY <3>1 DEF TariffInv, TariffTypeOK
    <3>3. \/ job'[j] = c /\ c.status = "new"
          \/ job'[j] = [c EXCEPT !.status = "forgotten"]
      BY <1>1, <3>1 DEF RestartManager
    <3> QED BY <3>1, <3>2, <3>3, SMT DEF Job, Statuses
  <2>2. /\ job' = [j \in Jobs |-> job'[j]]
        /\ resolved' = 0 /\ UNCHANGED <<output, tree>>
    BY <1>1, Zenon DEF RestartManager
  <2>3. TariffTypeOK'
    BY <2>1, <2>2 DEF TariffInv, TariffTypeOK
  <2>4. NotNew' /\ NodesFirst' /\ CompleteHas' /\ ResolvedHas' /\ TreeIsWhole'
    BY <2>1, <2>2 DEF TariffInv, NotNew, NodesFirst, CompleteHas, ResolvedHas, TreeIsWhole
  <2> QED BY <2>3, <2>4 DEF TariffInv
<1>2. CASE ResolveSource
  BY <1>2, SMT DEF TariffInv, TariffTypeOK, ResolveSource, Candidates, NotNew, NodesFirst,
     CompleteHas, ResolvedHas, TreeIsWhole, Jobs
<1>3. CASE LoadTree
  BY <1>3, SMT DEF TariffInv, TariffTypeOK, LoadTree, NotNew, NodesFirst,
     CompleteHas, ResolvedHas, TreeIsWhole, Output, Jobs
<1> QED BY <1>1, <1>2, <1>3

LEMMA TariffInductive == TariffInv /\ [TariffNext]_tariffVars => TariffInv'
<1> SUFFICES ASSUME TariffInv, [TariffNext]_tariffVars PROVE TariffInv'
  OBVIOUS
<1>1. CASE UNCHANGED tariffVars
  BY <1>1 DEF TariffInv, TariffTypeOK, NotNew, NodesFirst, CompleteHas, ResolvedHas,
     TreeIsWhole, tariffVars
<1>2. CASE TariffNext
  BY <1>2, JobKeeps, OpenKeeps, CloseKeeps, ReaderKeeps DEF TariffNext
<1> QED BY <1>1, <1>2

\* Every variable of the tariff jobs keeps its type.
THEOREM TariffTypeCorrect == TariffSpec => []TariffTypeOK
<1>1. TariffInv => TariffTypeOK
  BY DEF TariffInv
<1> QED BY TariffInitially, TariffInductive, <1>1, PTL DEF TariffSpec

\* resolve_tariff_taxonomy_source and the page never see half a tree, for any number
\* of jobs, cancelled, failed or cut off by a restart anywhere.
THEOREM TreeAlwaysWhole == TariffSpec => []TreeIsWhole
<1>1. TariffInv => TreeIsWhole
  BY DEF TariffInv
<1> QED BY TariffInitially, TariffInductive, <1>1, PTL DEF TariffSpec

-----------------------------------------------------------------------------
(* BatchReview: a decision saved alone is kept *)

\* A text says of a cluster nothing, or what a release may say of it.
Permitted(text) == text \in Rows => \A c \in Clusters : text[c] \in live[c] \cup {Undecided}

\* A save that is alone has its decision in its rows, then in the temporary file,
\* then in the file, and no release comes before it has answered.
SavesAlone(h) ==
    LET me == desk[h] IN
    /\ disk["release"] = Missing
    /\ me.pc # "read" => me.rows[me.cluster] = me.choice
    /\ me.pc = "write" => me.into = "scratch" /\ scratch["reviews"] = Blank
    /\ me.pc = "replace" => scratch["reviews"] = me.rows
    /\ me.pc = "answer" => disk["reviews"] = me.rows

\* What is open while a handler writes is a file that exists.
Opened(h) ==
    LET me == desk[h] IN
    /\ me.into = "scratch" => scratch[me.file] # Missing
    /\ me.into = "disk" => disk[me.file] # Missing
    /\ me.into # "none" => me.pc = "write"

\* A temporary file counts only once a handler has truncated it.
HandlerInv(h) ==
    desk[h] # Away =>
        /\ Opened(h)
        /\ desk[h].file = "reviews" =>
               desk[h].cluster \in Clusters /\ desk[h].choice \in live[desk[h].cluster]
        /\ Permitted(desk[h].rows)
        /\ desk[h].pc \in {"write", "replace"} => Permitted(scratch[desk[h].file])
        /\ desk[h].alone => \A o \in Handlers \ {h} : desk[o] = Away
        /\ desk[h].alone /\ desk[h].file = "reviews" => SavesAlone(h)

ReviewInv ==
    /\ ReviewTypeOK
    /\ \A f \in JobFiles : Permitted(disk[f])
    /\ \A h \in Handlers : HandlerInv(h)

LEMMA ReviewInitially == ReviewInit => ReviewInv
<1> SUFFICES ASSUME ReviewInit PROVE ReviewInv
  OBVIOUS
<1>1. ReviewTypeOK
  BY DEF ReviewInit, ReviewTypeOK
<1>2. \A f \in JobFiles : disk[f] \notin Rows
  BY ReviewAssumption DEF ReviewInit
<1> QED  BY <1>1, <1>2 DEF ReviewInit, ReviewInv, Permitted, HandlerInv

LEMMA AtDesk ==
    ASSUME ReviewInv, NEW h \in Handlers
    PROVE  desk[h] # Away <=> desk[h] \in Handler
<1>1. Away \notin Handler
  BY DEF Away, Handler, Steps
<1> QED  BY <1>1 DEF ReviewInv, ReviewTypeOK

\* What a release may say only grows, but for the answer of a save that was alone.
LEMMA PermittedGrows ==
    ASSUME \A c \in Clusters : live[c] \subseteq live'[c]
    PROVE  \A text : Permitted(text) => Permitted(text)'
<1> QED  BY DEF Permitted, Rows

LEMMA BlankIsPermitted == Blank \in Rows /\ Permitted(Blank) /\ Permitted(Missing)
<1> QED  BY ReviewAssumption DEF Blank, Rows, Permitted

\* A handler at another desk that may write elsewhere from now on, and nothing else.
Unmoved(o) ==
    IF desk[o] = Away THEN desk'[o] = Away
    ELSE /\ desk'[o] \in Handler
         /\ desk'[o].pc = desk[o].pc /\ desk'[o].file = desk[o].file
         /\ desk'[o].cluster = desk[o].cluster /\ desk'[o].choice = desk[o].choice
         /\ desk'[o].rows = desk[o].rows /\ desk'[o].alone = desk[o].alone

\* A handler takes a step: the files it changes say what is permitted, and so do its
\* rows and its temporary file.
LEMMA WorkKeeps ==
    ASSUME ReviewInv, NEW h \in Handlers, desk[h] # Away, live' = live,
           NEW r \in Handler, desk'[h] = r, desk' \in [Handlers -> Handler \cup {Away}],
           \A o \in Handlers \ {h} : Unmoved(o),
           disk' \in [JobFiles -> Rows \cup {Missing, Unreadable}],
           scratch' \in [JobFiles -> Rows \cup {Missing, Unreadable}],
           \A f \in JobFiles : Permitted(disk'[f]),
           \A f \in JobFiles : scratch'[f] = scratch[f] \/ Permitted(scratch'[f]),
           r.file = desk[h].file, r.cluster = desk[h].cluster,
           r.choice = desk[h].choice, r.alone = desk[h].alone,
           Permitted(r.rows),
           r.pc \in {"write", "replace"} => Permitted(scratch'[r.file]),
           r.alone /\ r.file = "reviews" => SavesAlone(h)',
           \A o \in Handlers : desk'[o] # Away => Opened(o)'
    PROVE  ReviewInv'
<1>1. \A text : Permitted(text)' = Permitted(text)
  BY DEF Permitted, Rows
<1>2. ReviewTypeOK' /\ \A f \in JobFiles : Permitted(disk[f])'
  BY <1>1 DEF ReviewInv, ReviewTypeOK
<1>3. HandlerInv(h)
  BY DEF ReviewInv
<1>4. HandlerInv(h)'
  <2>1. r.alone => \A o \in Handlers \ {h} : desk'[o] = Away
    BY <1>3 DEF HandlerInv, Unmoved
  <2>2. desk[h].file = "reviews" => r.cluster \in Clusters /\ r.choice \in live'[r.cluster]
    BY <1>3 DEF HandlerInv
  <2> QED  BY <1>1, <2>1, <2>2 DEF HandlerInv
<1>5. ASSUME NEW o \in Handlers \ {h}, desk'[o] # Away PROVE HandlerInv(o)'
  <2>1. desk[o] # Away /\ HandlerInv(o)
    BY <1>5 DEF Unmoved, ReviewInv
  <2>2. ~desk[o].alone
    BY <2>1 DEF HandlerInv
  <2>3. /\ desk'[o].pc = desk[o].pc /\ desk'[o].file = desk[o].file
        /\ desk'[o].cluster = desk[o].cluster /\ desk'[o].choice = desk[o].choice
        /\ desk'[o].rows = desk[o].rows /\ desk'[o].alone = desk[o].alone
        /\ desk[o].file \in JobFiles
    BY <2>1, AtDesk DEF Unmoved, Handler
  <2> QED  BY <1>1, <2>1, <2>2, <2>3 DEF HandlerInv
<1> QED  BY <1>2, <1>4, <1>5 DEF ReviewInv, HandlerInv

\* A step that removes no file takes none from under a handler it does not touch.
LEMMA StaysOpened ==
    ASSUME ReviewInv, NEW o \in Handlers, desk'[o] = desk[o], desk[o] # Away,
           \A f \in JobFiles : /\ disk[f] # Missing => disk'[f] # Missing
                               /\ scratch[f] # Missing => scratch'[f] # Missing
    PROVE  Opened(o)'
<1>1. HandlerInv(o) /\ desk[o].file \in JobFiles
  BY AtDesk DEF ReviewInv, Handler
<1> QED  BY <1>1 DEF HandlerInv, Opened

\* Handlers that leave, one or all, take what they had with them.
LEMMA LeavingKeeps ==
    ASSUME ReviewInv, UNCHANGED <<disk, scratch, live>>,
           desk' \in [Handlers -> Handler \cup {Away}],
           \A o \in Handlers : desk'[o] = desk[o] \/ desk'[o] = Away
    PROVE  ReviewInv'
<1>1. \A text : Permitted(text)' = Permitted(text)
  BY DEF Permitted, Rows
<1>2. ASSUME NEW o \in Handlers, desk'[o] # Away PROVE HandlerInv(o)'
  <2>1. desk'[o] = desk[o] /\ HandlerInv(o)
    BY <1>2 DEF ReviewInv
  <2>2. (SavesAlone(o) => SavesAlone(o)') /\ (Opened(o) => Opened(o)')
    BY <2>1 DEF SavesAlone, Opened
  <2> QED  BY <1>1, <2>1, <2>2 DEF HandlerInv
<1> QED  BY <1>1, <1>2 DEF ReviewInv, ReviewTypeOK, HandlerInv

\* Whoever enters is alone or makes the others not alone; it has nothing yet.
LEMMA EnterKeeps ==
    ASSUME ReviewInv, NEW h \in Handlers, NEW file \in JobFiles,
           NEW c \in Clusters \cup {Undecided}, NEW d \in Choices \cup {Undecided},
           Enter(h, file, c, d), disk["release"] = Missing, UNCHANGED <<disk, scratch>>,
           live' \in [Clusters -> SUBSET Choices], \A k \in Clusters : live[k] \subseteq live'[k],
           file = "reviews" => c \in Clusters /\ d \in live'[c]
    PROVE  ReviewInv'
<1> DEFINE busy == {o \in Handlers \ {h} : desk[o] # Away}
           mine == [pc |-> "read", file |-> file, cluster |-> c, choice |-> d,
                    rows |-> Blank, into |-> "none", alone |-> busy = {}]
<1>1. /\ desk[h] = Away /\ desk'[h] = mine
      /\ \A o \in busy : desk'[o] = [desk[o] EXCEPT !.alone = FALSE]
      /\ \A o \in Handlers \ {h} : o \notin busy => desk'[o] = Away
      /\ desk' = [o \in Handlers |-> desk'[o]]
  BY DEF Enter
<1>2. mine \in Handler
  BY BlankIsPermitted DEF Handler, Steps
<1>3. \A o \in busy : desk[o] \in Handler
  BY AtDesk
<1>4. \A o \in busy : /\ desk'[o] \in Handler /\ desk'[o].alone = FALSE
                      /\ desk'[o].pc = desk[o].pc /\ desk'[o].file = desk[o].file
                      /\ desk'[o].cluster = desk[o].cluster /\ desk'[o].choice = desk[o].choice
                      /\ desk'[o].rows = desk[o].rows /\ desk'[o].into = desk[o].into
  <2> SUFFICES ASSUME NEW o \in busy, NEW x \in Handler, x = desk[o],
                      desk'[o] = [x EXCEPT !.alone = FALSE]
               PROVE  /\ desk'[o] \in Handler /\ desk'[o].alone = FALSE
                      /\ desk'[o].pc = x.pc /\ desk'[o].file = x.file
                      /\ desk'[o].cluster = x.cluster /\ desk'[o].choice = x.choice
                      /\ desk'[o].rows = x.rows /\ desk'[o].into = x.into
    BY <1>1, <1>3
  <2> HIDE DEF busy, mine
  <2> QED  BY DEF Handler
<1>5. \A text : Permitted(text) => Permitted(text)'
  BY PermittedGrows
<1>6. ReviewTypeOK'
  BY <1>1, <1>2, <1>4 DEF ReviewInv, ReviewTypeOK
<1>7. HandlerInv(h)'
  <2>1. Permitted(Blank)'
    BY <1>5, BlankIsPermitted
  <2>2. mine.alone => \A o \in Handlers \ {h} : desk'[o] = Away
    BY <1>1
  <2>3. SavesAlone(h)'
    BY <1>1 DEF SavesAlone
  <2>4. Opened(h)'
    BY <1>1 DEF Opened
  <2> QED  BY <1>1, <2>1, <2>2, <2>3, <2>4 DEF HandlerInv
<1>8. ASSUME NEW o \in busy PROVE HandlerInv(o)'
  <2>1. desk[o] # Away /\ HandlerInv(o)
    BY DEF ReviewInv
  <2>2. Opened(o)'
    BY <1>4, <2>1 DEF HandlerInv, Opened
  <2> QED  BY <1>4, <1>5, <2>1, <2>2 DEF HandlerInv
<1> QED  BY <1>1, <1>5, <1>6, <1>7, <1>8 DEF ReviewInv, HandlerInv

LEMMA EntersKeep ==
    ASSUME ReviewInv, NEW h \in Handlers,
           Freeze(h) \/ \E c \in Clusters, d \in Choices : Save(h, c, d)
    PROVE  ReviewInv'
<1>1. CASE Freeze(h)
  BY <1>1, EnterKeeps DEF Freeze, JobFiles, ReviewInv, ReviewTypeOK
<1>2. ASSUME NEW c \in Clusters, NEW d \in Choices, Save(h, c, d) PROVE ReviewInv'
  <2>1. live \in [Clusters -> SUBSET Choices]
    BY DEF ReviewInv, ReviewTypeOK
  <2>2. /\ live' \in [Clusters -> SUBSET Choices] /\ d \in live'[c]
        /\ \A k \in Clusters : live[k] \subseteq live'[k]
    BY <1>2, <2>1 DEF Save
  <2> QED  BY <1>2, <2>2, EnterKeeps DEF Save, JobFiles
<1> QED  BY <1>1, <1>2

\* A handler reads the reviews: its rows are the permitted ones, with its own decision.
LEMMA ReadKeeps ==
    ASSUME ReviewInv, NEW h \in Handlers, ReadReviews(h) \/ ReadComplete(h)
    PROVE  ReviewInv'
<1>1. PICK me : me = desk[h]
  OBVIOUS
<1>2. me \in Handler /\ HandlerInv(h) /\ desk[h] # Away /\ me.pc = "read"
  BY <1>1, AtDesk DEF ReadReviews, ReadComplete, ReviewInv
<1>3. Reviewed # Unreadable => Reviewed \in Rows
  BY BlankIsPermitted DEF Reviewed, ReviewInv, ReviewTypeOK, JobFiles
<1>4. Permitted(Reviewed)
  BY BlankIsPermitted DEF Reviewed, ReviewInv, JobFiles
<1>5. Reviewed \in Complete => Reviewed \in Rows
  BY DEF Complete, Rows
<1>6. ASSUME NEW rows \in Rows, Permitted(rows), UNCHANGED <<disk, scratch, live>>,
             desk' = [desk EXCEPT ![h].pc = "open", ![h].rows = rows],
             me.file = "reviews" => rows[me.cluster] = me.choice
      PROVE  ReviewInv'
  <2>1. PICK r : r = [me EXCEPT !.pc = "open", !.rows = rows]
    OBVIOUS
  <2>2. /\ r \in Handler /\ r.pc = "open" /\ r.rows = rows /\ r.file = me.file
        /\ r.cluster = me.cluster /\ r.choice = me.choice /\ r.alone = me.alone
    BY <1>2, <2>1 DEF Handler, Steps
  <2>3. desk \in [Handlers -> Handler \cup {Away}]
    BY DEF ReviewInv, ReviewTypeOK
  <2>4. desk' = [desk EXCEPT ![h] = r]
    BY <1>1, <1>6, <2>1, <2>3
  <2>5. /\ desk'[h] = r /\ desk' \in [Handlers -> Handler \cup {Away}]
        /\ \A o \in Handlers \ {h} : desk'[o] = desk[o]
    BY <2>2, <2>3, <2>4
  <2>6. \A o \in Handlers \ {h} : Unmoved(o)
    BY <2>3, <2>5 DEF Unmoved
  <2>7. r.alone /\ r.file = "reviews" => SavesAlone(h)'
    BY <1>1, <1>2, <1>6, <2>2, <2>5 DEF HandlerInv, SavesAlone
  <2>8. Opened(h)'
    BY <1>1, <1>2, <1>6, <2>1, <2>2, <2>5 DEF HandlerInv, Opened, Handler
  <2>9. \A o \in Handlers : desk'[o] # Away => Opened(o)'
    BY <1>6, <2>5, <2>8, StaysOpened
  <2> QED  BY <1>1, <1>2, <1>6, <2>2, <2>5, <2>6, <2>7, <2>9, WorkKeeps
           DEF ReviewInv, ReviewTypeOK
<1>7. CASE ReadReviews(h)
  <2>1. PICK rows : rows = [Reviewed EXCEPT ![me.cluster] = me.choice]
    OBVIOUS
  <2>2. /\ me.file = "reviews" /\ me.cluster \in Clusters /\ me.choice \in live[me.cluster]
        /\ Reviewed \in Rows
    BY <1>1, <1>2, <1>3, <1>7 DEF ReadReviews, HandlerInv
  <2>3. rows \in Rows /\ rows[me.cluster] = me.choice
    BY <2>1, <2>2 DEF Rows, ReviewInv, ReviewTypeOK
  <2>4. Permitted(rows)
    BY <1>4, <2>1, <2>2 DEF Permitted, Rows
  <2> QED  BY <1>1, <1>6, <1>7, <2>1, <2>3, <2>4 DEF ReadReviews
<1>8. CASE ReadComplete(h)
  <2>1. me.file = "release" /\ Reviewed \in Rows
    BY <1>1, <1>5, <1>8 DEF ReadComplete
  <2> QED  BY <1>4, <1>6, <1>8, <2>1 DEF ReadComplete
<1> QED  BY <1>7, <1>8

LEMMA OpenScratchKeeps ==
    ASSUME ReviewInv, NEW h \in Handlers, OpenScratch(h)
    PROVE  ReviewInv'
<1>1. PICK me : me = desk[h]
  OBVIOUS
<1>2. me \in Handler /\ HandlerInv(h) /\ desk[h] # Away /\ me.pc = "open"
  BY <1>1, AtDesk DEF OpenScratch, ReviewInv
<1>3. PICK r : r = [me EXCEPT !.pc = "write", !.into = "scratch"]
  OBVIOUS
<1>4. /\ r \in Handler /\ r.pc = "write" /\ r.into = "scratch" /\ r.rows = me.rows
      /\ r.file = me.file /\ r.cluster = me.cluster /\ r.choice = me.choice
      /\ r.alone = me.alone /\ r.file \in JobFiles
  BY <1>2, <1>3 DEF Handler, Steps
<1>5. desk \in [Handlers -> Handler \cup {Away}]
  BY DEF ReviewInv, ReviewTypeOK
<1>6. desk' = [desk EXCEPT ![h] = r]
  BY <1>1, <1>3, <1>5 DEF OpenScratch
<1>7. /\ desk'[h] = r /\ desk' \in [Handlers -> Handler \cup {Away}]
      /\ \A o \in Handlers \ {h} : desk'[o] = desk[o]
  BY <1>4, <1>5, <1>6
<1>8. \A o \in Handlers \ {h} : Unmoved(o)
  BY <1>5, <1>7 DEF Unmoved
<1>9. /\ scratch' \in [JobFiles -> Rows \cup {Missing, Unreadable}]
      /\ scratch'[r.file] = Blank
      /\ \A f \in JobFiles : scratch'[f] = scratch[f] \/ scratch'[f] = Blank
  BY <1>1, <1>4, BlankIsPermitted DEF OpenScratch, ReviewInv, ReviewTypeOK
<1>10. r.alone /\ r.file = "reviews" => SavesAlone(h)'
  BY <1>1, <1>2, <1>4, <1>7, <1>9 DEF OpenScratch, HandlerInv, SavesAlone
<1>11. UNCHANGED <<disk, live>>
  BY DEF OpenScratch
<1>12. /\ disk \in [JobFiles -> Rows \cup {Missing, Unreadable}]
       /\ \A f \in JobFiles : Permitted(disk[f])
       /\ Permitted(me.rows)
  BY <1>1, <1>2 DEF ReviewInv, ReviewTypeOK, HandlerInv
<1>13. Opened(h)'
  BY <1>4, <1>7, <1>9, BlankIsPermitted, ReviewAssumption DEF Opened
<1>14. \A o \in Handlers : desk'[o] # Away => Opened(o)'
  BY <1>7, <1>9, <1>11, <1>13, StaysOpened, BlankIsPermitted, ReviewAssumption
<1> QED  BY <1>1, <1>2, <1>4, <1>7, <1>8, <1>9, <1>10, <1>11, <1>12, <1>14, BlankIsPermitted,
            WorkKeeps

\* What comes of rows written over other rows says of a cluster what one of the two says.
LEMMA OverMixes ==
    ASSUME NEW file \in JobFiles, NEW old \in Rows \cup {Unreadable}, NEW new \in Rows,
           NEW text \in Over(file, old, new)
    PROVE  /\ text \in Rows \cup {Unreadable}
           /\ Permitted(old) /\ Permitted(new) => Permitted(text)
           /\ old = Blank => text = new
<1>0. Blank \in Rows /\ Unreadable \notin Rows
  BY BlankIsPermitted, ReviewAssumption
<1>1. CASE old = Blank
  BY <1>0, <1>1 DEF Over
<1>2. CASE old = Unreadable
  BY <1>0, <1>2 DEF Over, Permitted
<1>3. CASE old \in Rows /\ old # Blank
  <2>1. \/ text = new \/ text = Unreadable
        \/ \E S \in SUBSET Clusters : text = [c \in Clusters |->
             IF c \in S /\ old[c] # Undecided THEN old[c] ELSE new[c]]
    BY <1>0, <1>3 DEF Over
  <2>2. ASSUME NEW S \in SUBSET Clusters,
               text = [c \in Clusters |->
                         IF c \in S /\ old[c] # Undecided THEN old[c] ELSE new[c]]
        PROVE  /\ text \in Rows
               /\ Permitted(old) /\ Permitted(new) => Permitted(text)
    <3>1. text \in Rows
      BY <1>3, <2>2 DEF Rows
    <3>2. \A c \in Clusters : text[c] = old[c] \/ text[c] = new[c]
      BY <2>2
    <3> QED  BY <1>3, <3>1, <3>2 DEF Permitted
  <2> QED  BY <1>0, <1>3, <2>1, <2>2 DEF Permitted
<1> QED  BY <1>1, <1>2, <1>3

LEMMA WriteKeeps ==
    ASSUME ReviewInv, NEW h \in Handlers, WriteRows(h)
    PROVE  ReviewInv'
<1>1. PICK me : me = desk[h]
  OBVIOUS
<1>2. /\ me \in Handler /\ HandlerInv(h) /\ desk[h] # Away /\ me.pc = "write"
      /\ me.file \in JobFiles /\ me.rows \in Rows
  BY <1>1, AtDesk DEF WriteRows, ReviewInv, Handler
<1>3. PICK r : r = [me EXCEPT !.pc = "replace", !.into = "none"]
  OBVIOUS
<1>4. /\ r \in Handler /\ r.pc = "replace" /\ r.into = "none" /\ r.rows = me.rows
      /\ r.file = me.file /\ r.cluster = me.cluster /\ r.choice = me.choice
      /\ r.alone = me.alone
  BY <1>2, <1>3 DEF Handler, Steps
<1>5. /\ desk \in [Handlers -> Handler \cup {Away}]
      /\ disk \in [JobFiles -> Rows \cup {Missing, Unreadable}]
      /\ scratch \in [JobFiles -> Rows \cup {Missing, Unreadable}]
      /\ \A f \in JobFiles : Permitted(disk[f])
  BY DEF ReviewInv, ReviewTypeOK
<1>6. desk' = [desk EXCEPT ![h] = r] /\ live' = live
  BY <1>1, <1>3, <1>5 DEF WriteRows
<1>7. /\ desk'[h] = r /\ desk' \in [Handlers -> Handler \cup {Away}]
      /\ \A o \in Handlers \ {h} : desk'[o] = desk[o]
  BY <1>4, <1>5, <1>6
<1>8. \A o \in Handlers \ {h} : Unmoved(o)
  BY <1>5, <1>7 DEF Unmoved
<1>9. Opened(h)'
  BY <1>4, <1>7 DEF Opened
<1>10. Permitted(me.rows) /\ Permitted(scratch[me.file]) /\ Permitted(disk[me.file])
  BY <1>1, <1>2, <1>5 DEF HandlerInv
<1>11. CASE me.into = "scratch"
  <2>1. PICK new \in Over(me.file, scratch[me.file], me.rows) :
          scratch' = [scratch EXCEPT ![me.file] = new] /\ disk' = disk
    BY <1>1, <1>11 DEF WriteRows
  <2>2. scratch[me.file] \in Rows \cup {Unreadable}
    BY <1>1, <1>2, <1>5, <1>11 DEF HandlerInv, Opened
  <2>3. /\ new \in Rows \cup {Unreadable} /\ Permitted(new)
        /\ scratch[me.file] = Blank => new = me.rows
    BY <1>2, <1>10, <2>2, OverMixes
  <2>4. /\ scratch' \in [JobFiles -> Rows \cup {Missing, Unreadable}]
        /\ scratch'[me.file] = new /\ new # Missing
        /\ \A f \in JobFiles : scratch'[f] = scratch[f] \/ scratch'[f] = new
    BY <1>2, <1>5, <2>1, <2>3, ReviewAssumption
  <2>5. r.alone /\ r.file = "reviews" => SavesAlone(h)'
    BY <1>1, <1>2, <1>4, <1>7, <2>1, <2>3, <2>4 DEF HandlerInv, SavesAlone
  <2>6. \A o \in Handlers : desk'[o] # Away => Opened(o)'
    BY <1>7, <1>9, <2>1, <2>4, StaysOpened
  <2> QED  BY <1>1, <1>2, <1>4, <1>5, <1>6, <1>7, <1>8, <1>10, <2>1, <2>3, <2>4, <2>5, <2>6,
              WorkKeeps
<1>12. CASE me.into = "disk"
  <2>1. PICK new \in Over(me.file, disk[me.file], me.rows) :
          disk' = [disk EXCEPT ![me.file] = new] /\ scratch' = scratch
    BY <1>1, <1>12 DEF WriteRows
  <2>2. disk[me.file] \in Rows \cup {Unreadable}
    BY <1>1, <1>2, <1>5, <1>12 DEF HandlerInv, Opened
  <2>3. new \in Rows \cup {Unreadable} /\ Permitted(new)
    BY <1>2, <1>10, <2>2, OverMixes
  <2>4. /\ disk' \in [JobFiles -> Rows \cup {Missing, Unreadable}] /\ new # Missing
        /\ \A f \in JobFiles : disk'[f] = disk[f] \/ disk'[f] = new
    BY <1>2, <1>5, <2>1, <2>3, ReviewAssumption
  <2>5. ~(r.alone /\ r.file = "reviews")
    BY <1>1, <1>2, <1>4, <1>12 DEF HandlerInv, SavesAlone
  <2>6. \A o \in Handlers : desk'[o] # Away => Opened(o)'
    BY <1>7, <1>9, <2>1, <2>4, StaysOpened
  <2>7. \A f \in JobFiles : Permitted(disk'[f])
    BY <1>5, <2>3, <2>4
  <2> QED  BY <1>1, <1>2, <1>4, <1>5, <1>6, <1>7, <1>8, <1>10, <2>1, <2>4, <2>5, <2>6, <2>7,
              WorkKeeps
<1>13. CASE me.into = "none"
  <2>1. UNCHANGED <<disk, scratch>>
    BY <1>1, <1>13 DEF WriteRows
  <2>2. ~(r.alone /\ r.file = "reviews")
    BY <1>1, <1>2, <1>4, <1>13 DEF HandlerInv, SavesAlone
  <2>3. \A o \in Handlers : desk'[o] # Away => Opened(o)'
    BY <1>7, <1>9, <2>1, StaysOpened
  <2> QED  BY <1>1, <1>2, <1>4, <1>5, <1>6, <1>7, <1>8, <1>10, <2>1, <2>2, <2>3, WorkKeeps
<1> QED  BY <1>2, <1>11, <1>12, <1>13 DEF Handler

\* What was open as the temporary file is the file itself from now on.
LEMMA ReplaceKeeps ==
    ASSUME ReviewInv, NEW h \in Handlers, Replace(h)
    PROVE  ReviewInv'
<1>1. PICK me : me = desk[h]
  OBVIOUS
<1>2. /\ me \in Handler /\ HandlerInv(h) /\ desk[h] # Away /\ me.pc = "replace"
      /\ me.file \in JobFiles /\ scratch[me.file] # Missing
  BY <1>1, AtDesk DEF Replace, ReviewInv, Handler
<1>3. PICK r : r = [me EXCEPT !.pc = "answer"]
  OBVIOUS
<1>4. /\ r \in Handler /\ r.pc = "answer" /\ r.into = me.into /\ r.rows = me.rows
      /\ r.file = me.file /\ r.cluster = me.cluster /\ r.choice = me.choice
      /\ r.alone = me.alone
  BY <1>2, <1>3 DEF Handler, Steps
<1>5. /\ desk \in [Handlers -> Handler \cup {Away}]
      /\ disk \in [JobFiles -> Rows \cup {Missing, Unreadable}]
      /\ scratch \in [JobFiles -> Rows \cup {Missing, Unreadable}]
      /\ \A f \in JobFiles : Permitted(disk[f])
      /\ Permitted(me.rows) /\ Permitted(scratch[me.file])
  BY <1>1, <1>2 DEF ReviewInv, ReviewTypeOK, HandlerInv
<1>6. /\ disk' = [disk EXCEPT ![me.file] = scratch[me.file]]
      /\ scratch' = [scratch EXCEPT ![me.file] = Missing] /\ live' = live
      /\ DOMAIN desk' = Handlers /\ desk' = [o \in Handlers |-> desk'[o]] /\ desk'[h] = r
  BY <1>1, <1>3 DEF Replace
<1>7. ASSUME NEW o \in Handlers \ {h}
      PROVE  desk'[o] \in Handler \cup {Away} /\ Unmoved(o) /\ (desk'[o] # Away => Opened(o)')
  <2>1. CASE desk[o] # Away /\ desk[o].file = me.file
    <3>1. PICK x \in Handler : x = desk[o]
      BY <2>1, AtDesk
    <3>2. desk'[o] = [x EXCEPT !.into = Moved(@)]
      BY <1>1, <2>1, <3>1 DEF Replace
    <3>3. /\ desk'[o] \in Handler /\ desk'[o].into = Moved(x.into)
          /\ desk'[o].pc = x.pc /\ desk'[o].file = x.file /\ desk'[o].cluster = x.cluster
          /\ desk'[o].choice = x.choice /\ desk'[o].rows = x.rows /\ desk'[o].alone = x.alone
      BY <3>2 DEF Handler, Moved
    <3>4. HandlerInv(o)
      BY DEF ReviewInv
    <3>5. Opened(o)'
      BY <1>2, <1>5, <1>6, <2>1, <3>1, <3>3, <3>4 DEF HandlerInv, Opened, Moved
    <3> QED  BY <2>1, <3>1, <3>3, <3>5 DEF Unmoved
  <2>2. CASE desk[o] = Away
    BY <1>1, <2>2 DEF Replace, Unmoved
  <2>3. CASE desk[o] # Away /\ desk[o].file # me.file
    <3>1. desk'[o] = desk[o] /\ desk[o] \in Handler /\ HandlerInv(o)
      BY <1>1, <2>3, AtDesk DEF Replace, ReviewInv
    <3>2. Opened(o)'
      BY <1>5, <1>6, <2>3, <3>1 DEF HandlerInv, Opened, Handler
    <3> QED  BY <3>1, <3>2, <2>3 DEF Unmoved
  <2> QED  BY <2>1, <2>2, <2>3
<1>8. desk' \in [Handlers -> Handler \cup {Away}]
  BY <1>4, <1>6, <1>7
<1>9. /\ disk' \in [JobFiles -> Rows \cup {Missing, Unreadable}]
      /\ disk'[me.file] = scratch[me.file]
      /\ scratch' \in [JobFiles -> Rows \cup {Missing, Unreadable}]
      /\ \A f \in JobFiles : Permitted(disk'[f])
      /\ \A f \in JobFiles : scratch'[f] = scratch[f] \/ scratch'[f] = Missing
      /\ me.file = "reviews" => disk'["release"] = disk["release"]
  BY <1>2, <1>5, <1>6 DEF JobFiles
<1>10. Opened(h)'
  BY <1>1, <1>2, <1>4, <1>6 DEF HandlerInv, Opened
<1>11. r.alone /\ r.file = "reviews" => SavesAlone(h)'
  BY <1>1, <1>2, <1>4, <1>6, <1>9 DEF HandlerInv, SavesAlone
<1> QED  BY <1>1, <1>2, <1>4, <1>5, <1>6, <1>7, <1>8, <1>9, <1>10, <1>11, BlankIsPermitted,
            WorkKeeps

\* A save that was alone is answered: the files say its decision, and nobody is left.
LEMMA AnswerKeeps ==
    ASSUME ReviewInv, NEW h \in Handlers, AnswerSave(h)
    PROVE  ReviewInv'
<1>1. PICK me : me = desk[h]
  OBVIOUS
<1>2. /\ me \in Handler /\ HandlerInv(h) /\ desk[h] # Away /\ me.pc = "answer"
      /\ me.file = "reviews" /\ me.rows \in Rows /\ UNCHANGED <<disk, scratch>>
  BY <1>1, AtDesk DEF AnswerSave, ReviewInv, Handler
<1>3. /\ desk \in [Handlers -> Handler \cup {Away}] /\ live \in [Clusters -> SUBSET Choices]
      /\ desk' = [desk EXCEPT ![h] = Away]
  BY DEF ReviewInv, ReviewTypeOK, AnswerSave, GoAway
<1>4. /\ desk' \in [Handlers -> Handler \cup {Away}] /\ desk'[h] = Away
      /\ \A o \in Handlers : desk'[o] = desk[o] \/ desk'[o] = Away
  BY <1>3
<1>5. CASE ~me.alone
  BY <1>1, <1>2, <1>4, <1>5, LeavingKeeps DEF AnswerSave
<1>6. CASE me.alone
  <2>1. /\ live' = [live EXCEPT ![me.cluster] = {me.choice}]
        /\ me.cluster \in Clusters /\ me.choice \in live[me.cluster]
        /\ \A o \in Handlers \ {h} : desk[o] = Away
        /\ disk["release"] = Missing /\ disk["reviews"] = me.rows
        /\ me.rows[me.cluster] = me.choice
    BY <1>1, <1>2, <1>6 DEF AnswerSave, HandlerInv, SavesAlone
  <2>2. \A o \in Handlers : desk'[o] = Away
    BY <1>4, <2>1
  <2>3. live' \in [Clusters -> SUBSET Choices]
    BY <1>3, <2>1
  <2>4. Permitted(me.rows)'
    <3>1. Permitted(me.rows)
      BY <1>1, <1>2 DEF HandlerInv
    <3>2. \A c \in Clusters : c # me.cluster => live'[c] = live[c]
      BY <1>3, <2>1
    <3>3. live'[me.cluster] = {me.choice}
      BY <1>3, <2>1
    <3> QED  BY <1>2, <2>1, <3>1, <3>2, <3>3 DEF Permitted
  <2>5. Permitted(Missing)'
    BY ReviewAssumption DEF Permitted, Rows
  <2>6. \A f \in JobFiles : Permitted(disk[f])'
    BY <1>2, <2>1, <2>4, <2>5 DEF JobFiles
  <2>7. ReviewTypeOK'
    BY <1>2, <1>4, <2>3 DEF ReviewInv, ReviewTypeOK
  <2> QED  BY <2>2, <2>6, <2>7 DEF ReviewInv, HandlerInv
<1> QED  BY <1>5, <1>6

LEMMA ReviewNextKeeps == ReviewInv /\ [ReviewNext]_reviewVars => ReviewInv'
<1> SUFFICES ASSUME ReviewInv, [ReviewNext]_reviewVars PROVE ReviewInv'
  OBVIOUS
<1>0. desk \in [Handlers -> Handler \cup {Away}]
  BY DEF ReviewInv, ReviewTypeOK
<1>1. CASE UNCHANGED reviewVars
  BY <1>0, <1>1, LeavingKeeps DEF reviewVars
<1>2. CASE Die
  BY <1>2, LeavingKeeps DEF Die
<1>3. ASSUME NEW h \in Handlers, AnswerFreeze(h) \/ Raise(h) PROVE ReviewInv'
  <2>1. desk' = [desk EXCEPT ![h] = Away] /\ UNCHANGED <<disk, scratch, live>>
    BY <1>3 DEF AnswerFreeze, Raise, GoAway
  <2> QED  BY <1>0, <2>1, LeavingKeeps
<1> QED  BY <1>1, <1>2, <1>3, EntersKeep, ReadKeeps, OpenScratchKeeps, WriteKeeps, ReplaceKeeps,
            AnswerKeeps DEF ReviewNext

\* What the reviews, the release and every handler at work say of a cluster is what the
\* release may say of it, for any clusters, choices and handler threads.
THEOREM ReviewInductive == ReviewSpec => []ReviewInv
<1> QED  BY ReviewInitially, ReviewNextKeeps, PTL DEF ReviewSpec

\* A release never loses a decision that was saved while no other handler was at work,
\* nor turns it back into an older one, whatever saves, freezes and crashes come after.
THEOREM SavedAloneKept == ReviewSpec => []SavedAloneIsKept
<1>1. ReviewInv => SavedAloneIsKept
  <2> SUFFICES ASSUME ReviewInv, disk["release"] \in Complete, NEW c \in Clusters
               PROVE  disk["release"][c] \in live[c]
    BY DEF SavedAloneIsKept
  <2>1. disk["release"] \in Rows /\ disk["release"][c] # Undecided
    BY ReviewAssumption DEF Complete, Rows
  <2>2. Permitted(disk["release"])
    BY DEF ReviewInv, JobFiles
  <2> QED  BY <2>1, <2>2 DEF Permitted
<1> QED  BY <1>1, ReviewInductive, PTL
=============================================================================
