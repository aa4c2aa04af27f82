---------------------------- MODULE BatchReview ----------------------------
(***************************************************************************)
(* The review of one procurement batch: ProcurementBatchReviewStore, whose *)
(* save and freeze run on handler threads of the workbench over two files  *)
(* of the job, boundary-reviews.jsonl and boundary-review-release.json.    *)
(* Both are written to a temporary file of a fixed name that is then moved *)
(* into place, so that handlers that overlap write into one another's      *)
(* temporary file, or through it into the file itself.                     *)
(*                                                                         *)
(* The candidates of a completed job never change: their hashes always     *)
(* match, and the other checks of a payload refuse it before anything is   *)
(* read.  A choice stands for everything a reviewer decided.               *)
(***************************************************************************)
CONSTANTS
    Clusters,       \* boundary items of the job that need a review
    Choices,        \* what a reviewer can decide about one
    Handlers,       \* handler threads that save or freeze
    Undecided,      \* no review of a cluster
    Missing,        \* no such file
    Unreadable      \* a file no reader can parse

JobFiles == {"reviews", "release"}
Rows  == [Clusters -> Choices \cup {Undecided}]

ASSUME ReviewAssumption ==
    /\ Undecided \notin Choices
    /\ Missing \notin Rows /\ Unreadable \notin Rows /\ Missing # Unreadable

VARIABLES
    disk,       \* the two files
    scratch,    \* their temporary files
    desk,       \* the handler each thread is running
    live        \* what the release may say: the decision last saved with no other
                \* handler about, and the ones submitted since

reviewVars == <<disk, scratch, desk, live>>

Blank == [c \in Clusters |-> Undecided]
Away  == [pc |-> "away"]
Steps == {"read", "open", "write", "replace", "answer"}

\* into: the file a handler's open descriptor writes to.  It is its temporary file,
\* the file itself once another handler has moved it into place, or neither.
Handler == [pc : Steps, file : JobFiles, cluster : Clusters \cup {Undecided},
            choice : Choices \cup {Undecided}, rows : Rows,
            into : {"none", "scratch", "disk"}, alone : BOOLEAN]

ReviewTypeOK ==
    /\ disk \in [JobFiles -> Rows \cup {Missing, Unreadable}]
    /\ scratch \in [JobFiles -> Rows \cup {Missing, Unreadable}]
    /\ desk \in [Handlers -> Handler \cup {Away}]
    /\ live \in [Clusters -> SUBSET Choices]

ReviewInit ==
    /\ disk = [f \in JobFiles |-> Missing]
    /\ scratch = [f \in JobFiles |-> Missing]
    /\ desk = [h \in Handlers |-> Away]
    /\ live = [c \in Clusters |-> {}]

-----------------------------------------------------------------------------
GoAway(h)  == desk' = [desk EXCEPT ![h] = Away]
Step(h, s) == desk' = [desk EXCEPT ![h].pc = s]

\* Whoever enters while another handler is at work spoils it for both.
Enter(h, file, c, d) ==
    LET busy == {o \in Handlers \ {h} : desk[o] # Away} IN
    /\ desk[h] = Away
    /\ desk' = [o \in Handlers |->
                  IF o = h THEN [pc |-> "read", file |-> file, cluster |-> c, choice |-> d,
                                 rows |-> Blank, into |-> "none", alone |-> busy = {}]
                  ELSE IF o \in busy THEN [desk[o] EXCEPT !.alone = FALSE]
                  ELSE Away]

\* save, up to the end of its checks: a release that exists refuses it.
Save(h, c, d) ==
    /\ disk["release"] = Missing
    /\ Enter(h, "reviews", c, d)
    /\ live' = [live EXCEPT ![c] = @ \cup {d}]
    /\ UNCHANGED <<disk, scratch>>

\* freeze: a release that exists is answered as it is, which changes nothing.
Freeze(h) ==
    /\ disk["release"] = Missing
    /\ Enter(h, "release", Undecided, Undecided)
    /\ UNCHANGED <<disk, scratch, live>>

\* _review_index: a missing file holds no review; a torn one raises.
Reviewed == IF disk["reviews"] = Missing THEN Blank ELSE disk["reviews"]

\* save puts its decision among the reviews it reads.
ReadReviews(h) ==
    /\ desk[h] # Away /\ desk[h].pc = "read" /\ desk[h].file = "reviews"
    /\ Reviewed # Unreadable
    /\ desk' = [desk EXCEPT ![h].pc = "open",
                            ![h].rows = [Reviewed EXCEPT ![desk[h].cluster] = desk[h].choice]]
    /\ UNCHANGED <<disk, scratch, live>>

\* What a release can say; an empty one does not parse.
Complete == [Clusters -> Choices]

\* freeze takes the reviews as they are and refuses while one is missing.
ReadComplete(h) ==
    /\ desk[h] # Away /\ desk[h].pc = "read" /\ desk[h].file = "release"
    /\ Reviewed \in Complete
    /\ desk' = [desk EXCEPT ![h].pc = "open", ![h].rows = Reviewed]
    /\ UNCHANGED <<disk, scratch, live>>

\* Mutation: what a crash left in the temporary file is not truncated.
OpenScratchKept(h) ==
    /\ desk[h] # Away /\ desk[h].pc = "open"
    /\ scratch' = [scratch EXCEPT ![desk[h].file] = IF @ = Missing THEN Blank ELSE @]
    /\ desk' = [desk EXCEPT ![h].pc = "write", ![h].into = "scratch"]
    /\ UNCHANGED <<disk, live>>

\* The temporary file is created, or truncated under whoever else has it open.
OpenScratch(h) ==
    /\ desk[h] # Away /\ desk[h].pc = "open"
    /\ scratch' = [scratch EXCEPT ![desk[h].file] = Blank]
    /\ desk' = [desk EXCEPT ![h].pc = "write", ![h].into = "scratch"]
    /\ UNCHANGED <<disk, live>>

\* Rows written over those another handler has written to the same open file: the
\* shorter text leaves the end of the longer one, which may cut a line.  In the
\* reviews the last row of a cluster counts; a release is one JSON text.
Over(file, old, new) ==
    CASE old = Blank      -> {new}
      [] old = Unreadable -> {new, Unreadable}
      [] OTHER -> {new, Unreadable} \cup
           (IF file = "release" THEN {}
            ELSE {[c \in Clusters |-> IF c \in S /\ old[c] # Undecided THEN old[c] ELSE new[c]] :
                    S \in SUBSET Clusters})

\* The rows reach the file when it is closed.
WriteRows(h) ==
    LET me == desk[h] IN
    /\ me # Away /\ me.pc = "write"
    /\ \/ /\ me.into = "scratch"
          /\ \E new \in Over(me.file, scratch[me.file], me.rows) :
                scratch' = [scratch EXCEPT ![me.file] = new]
          /\ UNCHANGED disk
       \/ /\ me.into = "disk"
          /\ \E new \in Over(me.file, disk[me.file], me.rows) :
                disk' = [disk EXCEPT ![me.file] = new]
          /\ UNCHANGED scratch
       \/ /\ me.into = "none"
          /\ UNCHANGED <<disk, scratch>>
    /\ desk' = [desk EXCEPT ![h].pc = "replace", ![h].into = "none"]
    /\ UNCHANGED live

\* What an open descriptor writes to once the temporary file is moved into place.
Moved(into) == IF into = "scratch" THEN "disk" ELSE "none"

\* temporary.replace: it moves whatever is at the name, and raises if nothing is.
Replace(h) ==
    LET f == desk[h].file IN
    /\ desk[h] # Away /\ desk[h].pc = "replace"
    /\ scratch[f] # Missing
    /\ disk' = [disk EXCEPT ![f] = scratch[f]]
    /\ scratch' = [scratch EXCEPT ![f] = Missing]
    /\ desk' = [o \in Handlers |->
                  IF o = h THEN [desk[h] EXCEPT !.pc = "answer"]
                  ELSE IF desk[o] # Away /\ desk[o].file = f
                       THEN [desk[o] EXCEPT !.into = Moved(@)]
                       ELSE desk[o]]
    /\ UNCHANGED live

\* save answers with the decision and the status, which reads both files again.
AnswerSave(h) ==
    LET me == desk[h] IN
    /\ me # Away /\ me.pc = "answer" /\ me.file = "reviews"
    /\ disk["reviews"] # Unreadable /\ disk["release"] \in Complete \cup {Missing}
    /\ live' = IF me.alone THEN [live EXCEPT ![me.cluster] = {me.choice}] ELSE live
    /\ GoAway(h)
    /\ UNCHANGED <<disk, scratch>>

AnswerFreeze(h) ==
    /\ desk[h] # Away /\ desk[h].pc = "answer" /\ desk[h].file = "release"
    /\ GoAway(h)
    /\ UNCHANGED <<disk, scratch, live>>

\* A torn file, a missing review, a temporary file another handler has moved away.
Raise(h) ==
    /\ desk[h] # Away
    /\ \/ desk[h].file = "reviews" /\ desk[h].pc \in {"read", "answer"} /\ Reviewed = Unreadable
       \/ desk[h].file = "reviews" /\ desk[h].pc = "answer"
          /\ disk["release"] \notin Complete \cup {Missing}
       \/ desk[h].pc = "read" /\ desk[h].file = "release" /\ Reviewed \notin Complete
       \/ desk[h].pc = "replace" /\ scratch[desk[h].file] = Missing
    /\ GoAway(h)
    /\ UNCHANGED <<disk, scratch, live>>

\* The workbench dies: rows that have not reached a file are lost, the files stay.
Die ==
    /\ desk' = [h \in Handlers |-> Away]
    /\ UNCHANGED <<disk, scratch, live>>

ReviewNext ==
    \/ \E h \in Handlers :
        \/ \E c \in Clusters, d \in Choices : Save(h, c, d)
        \/ Freeze(h) \/ ReadReviews(h) \/ ReadComplete(h)
        \/ OpenScratch(h) \/ WriteRows(h) \/ Replace(h)
        \/ AnswerSave(h) \/ AnswerFreeze(h) \/ Raise(h)
    \/ Die

ReviewSpec == ReviewInit /\ [][ReviewNext]_reviewVars

-----------------------------------------------------------------------------
\* docs/reference/procurement-boundary-review-v0.1.md: a frozen review is final.  A
\* decision that was saved while no other handler was at work is never lost, and
\* never turned back into an older one, whatever saves, freezes and crashes come
\* after it: the release says it, or what was submitted for that cluster since.
SavedAloneIsKept ==
    disk["release"] \in Complete => \A c \in Clusters : disk["release"][c] \in live[c]
=============================================================================
