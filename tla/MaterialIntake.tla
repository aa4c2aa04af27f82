---------------------------- MODULE MaterialIntake ----------------------------
(***************************************************************************)
(* The drafts of one material intake analysis, from their compilation to   *)
(* the runtime catalog: prepare_, revise_ and confirm_material_intake_     *)
(* drafts run by the handler threads of the workbench, the batch they hold *)
(* in memory, the session file with the remembered results, ERPNext, and   *)
(* the append-only file of runtime publications.                           *)
(*                                                                         *)
(* All drafts are of one standard type, so that their item codes share one *)
(* prefix and a code is its number.  A content stands for the fields an    *)
(* Item is compared by.  A frozen_hash is the draft without its status.    *)
(***************************************************************************)
EXTENDS Integers, FiniteSets

CONSTANTS
    MaxLine,        \* bound on the lines of the analysis that become drafts
    Contents,       \* what an Item can say
    First,          \* content of a line as the analysis found it
    Threads,        \* handler threads
    MaxCode,        \* bound on item codes
    MaxRevision,    \* bound on the revisions of a draft
    MaxDrafts,      \* bound on drafts compiled, all compilations together
    MaxConfirms,    \* bound on confirmations that pass their checks
    Foreign,        \* what the Items of others say
    MaxFaults,      \* bound on Items of others and restarts of the workbench
    Free            \* no content: no Item, no publication, no result

Codes == 1..MaxCode

\* request_id values, numbered in the order they are first used.
Requests == 1..MaxConfirms

ASSUME IntakeBoundsAssumption ==
    /\ MaxLine \in Nat \ {0} /\ MaxCode \in Nat \ {0}
    /\ MaxRevision \in Nat /\ MaxDrafts \in Nat /\ MaxConfirms \in Nat
    /\ MaxFaults \in Nat
    /\ Foreign \subseteq Contents
    /\ First \in [1..MaxLine -> Contents]
    /\ Free \notin Contents

VARIABLES
    lines,      \* lines of the analysis that become drafts
    batch,      \* _material_draft_batches of the analysis; Free if there is none
    thread,     \* the handler each thread is running
    items,      \* Items of the prefix in ERPNext, by code
    late,       \* creations whose request gave up and ERPNext may still apply
    published,  \* the runtime publications file, latest row by code
    results,    \* remembered results in the session file, by request_id
    confirmed,  \* frozen drafts whose hash a confirmation matched
    written,    \* codes of the Items the intake sent to ERPNext
    produced,   \* frozen drafts a confirmation published
    overlap,    \* a confirmation was under way at once with another handler
    again,      \* a draft that was done was confirmed again
    counted,    \* the first codes of the compilations under way
    compiled,   \* drafts compiled so far
    confirms,   \* confirmations so far
    faults      \* Items of others and restarts so far

erpVars  == <<items, late>>
fileVars == <<published, results>>
pastVars == <<confirmed, written, produced, overlap, again>>
boundVars == <<lines, counted, compiled, confirms, faults>>
vars == <<batch, thread, erpVars, fileVars, pastVars, boundVars>>

-----------------------------------------------------------------------------
Hash  == [id : 1..MaxDrafts, line : 1..MaxLine, code : Codes, content : Contents,
          revision : Nat]
Draft == [id : 1..MaxDrafts, line : 1..MaxLine, code : Codes, content : Contents,
          revision : Nat, done : BOOLEAN]
Lines == 1..lines
Batch == [Lines -> Draft]

\* A draft is done in the states created and verified_existing; whether it is new
\* or failed makes no difference to what may follow.  _draft_hash: all but that.
HashOf(d) == [id |-> d.id, line |-> d.line, code |-> d.code, content |-> d.content,
              revision |-> d.revision]

\* A result names the drafts of its request that are created or verified.
Result == SUBSET Hash

Idle      == [pc |-> "idle"]
Revising  == [pc : {"put"}, batch : Batch, line : Lines, content : Contents]
Confirming == {"exists", "create", "publish", "store"}
Working ==
    [pc : Confirming, request : Requests,
     held : [Requests -> Result \cup {Free}], batch : Batch,
     asked : SUBSET Lines, todo : SUBSET Lines]
Publishing == {w \in Working : w.pc = "store" <=> w.todo = {}}

TypeOK ==
    /\ counted \subseteq 1..(MaxCode + 1)
    /\ batch \in Batch \cup {Free}
    /\ thread \in [Threads -> {Idle} \cup Revising \cup Publishing]
    /\ items \in [Codes -> Contents \cup {Free}]
    /\ late \subseteq [code : Codes, content : Contents]
    /\ published \in [Codes -> Contents \cup {Free}]
    /\ results \in [Requests -> Result \cup {Free}]
    /\ confirmed \subseteq Hash
    /\ written \subseteq Codes
    /\ produced \subseteq Hash
    /\ lines \in 1..MaxLine
    /\ compiled \in 0..MaxDrafts
    /\ confirms \in 0..MaxConfirms
    /\ overlap \in BOOLEAN /\ again \in BOOLEAN
    /\ faults \in 0..MaxFaults

Init ==
    /\ counted = {}
    /\ batch = Free
    /\ thread = [t \in Threads |-> Idle]
    /\ items = [c \in Codes |-> Free]
    /\ late = {}
    /\ published = [c \in Codes |-> Free]
    /\ results = [q \in Requests |-> Free]
    /\ confirmed = {}
    /\ written = {}
    /\ produced = {}
    /\ lines \in 1..MaxLine
    /\ compiled = 0
    /\ confirms = 0
    /\ overlap = FALSE /\ again = FALSE
    /\ faults = 0

-----------------------------------------------------------------------------
Existing(store) == {c \in Codes : store[c] # Free}

\* generate_next_item_code: one more than the largest number in use.
NextCode(used) == CHOOSE n \in 1..(MaxCode + 1) :
    n - 1 \in used \cup {0} /\ \A m \in used : m < n

Goto(t, pc) == thread' = [thread EXCEPT ![t].pc = pc]
Return(t)   == thread' = [thread EXCEPT ![t] = Idle]

\* prepare: the live codes and those of the release rows (which the publications
\* join) are in use, or only the latter if ERPNext cannot be read.
CountCodes ==
    /\ compiled + lines * (Cardinality(counted) + 1) <= MaxDrafts
    /\ \E live \in {Existing(items), {}} :
        counted' = counted \cup {NextCode(live \cup Existing(published))}
    /\ UNCHANGED <<batch, thread, erpVars, fileVars, pastVars, lines, compiled, confirms, faults>>

\* Every draft takes the next code and adds it.  The new batch replaces an older one.
Prepare(from) ==
    /\ from \in counted
    /\ counted' = counted \ {from}
    /\ compiled + lines <= MaxDrafts
    /\ compiled' = compiled + lines
    /\ from + lines - 1 <= MaxCode
    /\ batch' = [l \in Lines |-> [id |-> compiled + 1, line |-> l,
           code |-> from + l - 1, content |-> First[l], revision |-> 0, done |-> FALSE]]
    /\ UNCHANGED <<thread, erpVars, fileVars, pastVars, lines, confirms, faults>>

-----------------------------------------------------------------------------
(* revise: the batch is read, ERPNext is asked for its codes, the draft is   *)
(* recompiled and the revised copy stored over whatever the batch is then.   *)
\* Mutation: a published draft may be revised.
ReviseDone(t, l, content) ==
    /\ thread[t].pc = "idle"
    /\ batch # Free
    /\ batch[l].revision < MaxRevision
    /\ content # batch[l].content
    /\ thread' = [thread EXCEPT ![t] =
           [pc |-> "put", batch |-> batch, line |-> l, content |-> content]]
    /\ overlap' = (overlap \/ \E u \in Threads : thread[u].pc \notin {"idle", "put"})
    /\ UNCHANGED <<batch, erpVars, fileVars, confirmed, written, produced, again, boundVars>>

\* Only a draft that is not done; an edit that changes nothing is left out.
Revise(t, l, content) ==
    /\ thread[t].pc = "idle"
    /\ batch # Free
    /\ ~batch[l].done
    /\ batch[l].revision < MaxRevision
    /\ content # batch[l].content
    /\ thread' = [thread EXCEPT ![t] =
           [pc |-> "put", batch |-> batch, line |-> l, content |-> content]]
    /\ overlap' = (overlap \/ \E u \in Threads : thread[u].pc \notin {"idle", "put"})
    /\ UNCHANGED <<batch, erpVars, fileVars, confirmed, written, produced, again, boundVars>>

\* The batch's own codes do not count as live; the release rows and the codes
\* of the lines before this one are in use.
UsedCodes(b, l) ==
    (Existing(items) \ {b[k].code : k \in Lines})
        \cup Existing(published) \cup {b[k].code : k \in 1..(l - 1)}

Recompiled(b, l, n, content) ==
    [b EXCEPT ![l] = [id |-> b[l].id, line |-> l, code |-> n, content |-> content,
                      revision |-> b[l].revision + 1, done |-> FALSE]]

PutRevised(t) ==
    LET th == thread[t]
        n  == NextCode(UsedCodes(th.batch, th.line)) IN
    /\ th.pc = "put"
    /\ n \in Codes
    /\ batch' = Recompiled(th.batch, th.line, n, th.content)
    /\ Return(t)
    /\ UNCHANGED <<erpVars, fileVars, pastVars, boundVars>>

\* ERPNext cannot be read.
ReviseFails(t) ==
    /\ thread[t].pc = "put"
    /\ Return(t)
    /\ UNCHANGED <<batch, erpVars, fileVars, pastVars, boundVars>>

-----------------------------------------------------------------------------
(* confirm: a request names drafts by the frozen hashes its page shows.  A   *)
(* request that is remembered is answered with its result; one with a stale  *)
(* hash, an incomplete draft, no batch or another login is refused: neither  *)
(* changes anything.  The others work on a deep copy of the batch, and hold  *)
(* the session as it is now.                                                 *)
Confirm(t, q, asked) ==
    /\ thread[t].pc = "idle"
    /\ confirms < MaxConfirms
    /\ results[q] = Free
    /\ batch # Free
    /\ confirms' = confirms + 1
    /\ confirmed' = confirmed \cup {HashOf(batch[l]) : l \in asked}
    /\ overlap' = (overlap \/ \E u \in Threads : thread[u].pc # "idle")
    /\ again' = (again \/ \E l \in asked : batch[l].done)
    /\ thread' = [thread EXCEPT ![t] =
           [pc |-> "exists", request |-> q, held |-> results, batch |-> batch,
            asked |-> asked, todo |-> asked]]
    /\ UNCHANGED <<batch, erpVars, fileVars, written, produced, lines, counted, compiled, faults>>

\* The draft at hand: the first one still to do.
LineOf(t)  == CHOOSE l \in thread[t].todo : \A k \in thread[t].todo : l <= k
DraftOf(t) == thread[t].batch[LineOf(t)]

Marked(b, l, done) == [b EXCEPT ![l] = [b[l] EXCEPT !.done = done]]

\* Mutation: the loop does not notice its end.
FinishedGoesOn(t, done) ==
    LET th == thread[t] IN
    thread' = [thread EXCEPT ![t] =
        [th EXCEPT !.batch = Marked(th.batch, LineOf(t), done),
                   !.todo = th.todo \ {LineOf(t)},
                   !.pc = "exists"]]

\* The draft at hand ends done or failed, and the next one follows.
Finished(t, done) ==
    LET th   == thread[t]
        todo == th.todo \ {LineOf(t)} IN
    thread' = [thread EXCEPT ![t] =
        [th EXCEPT !.batch = Marked(th.batch, LineOf(t), done),
                   !.todo = todo,
                   !.pc = IF todo = {} THEN "store" ELSE "exists"]]

\* Mutation: an Item of that code is taken for the confirmed one.
CheckExistsOnly(t) ==
    LET d == DraftOf(t) IN
    /\ thread[t].pc = "exists"
    /\ \/ Finished(t, FALSE)
       \/ items[d.code] # Free /\ Goto(t, "publish")
       \/ items[d.code] = Free /\ Goto(t, "create")
    /\ UNCHANGED <<batch, erpVars, fileVars, pastVars, boundVars>>

\* document_exists and, if it does, the comparison of the Item with the draft: a
\* question ERPNext does not answer, and an Item that differs, are failures.
CheckExists(t) ==
    LET d == DraftOf(t) IN
    /\ thread[t].pc = "exists"
    /\ \/ Finished(t, FALSE)
       \/ items[d.code] = d.content /\ Goto(t, "publish")
       \/ items[d.code] = Free /\ Goto(t, "create")
    /\ UNCHANGED <<batch, erpVars, fileVars, pastVars, boundVars>>

\* ERPNext names an Item by its code: a second one is refused.
Written(c, content) == items[c] = Free /\ items' = [items EXCEPT ![c] = content]

\* Mutation: the draft is taken from the batch as it is by now.
CreateItemOfNow(t) ==
    LET d == batch[LineOf(t)] IN
    /\ thread[t].pc = "create"
    /\ batch # Free
    /\ Written(d.code, d.content)
    /\ written' = written \cup {d.code}
    /\ Goto(t, "publish")
    /\ UNCHANGED <<batch, late, fileVars, confirmed, produced, overlap, again, boundVars>>

\* The group and the unit exist, the gateway creates the Item, and the Item read
\* back equals the draft.
CreateItem(t) ==
    LET d == DraftOf(t) IN
    /\ thread[t].pc = "create"
    /\ Written(d.code, d.content)
    /\ written' = written \cup {d.code}
    /\ Goto(t, "publish")
    /\ UNCHANGED <<batch, late, fileVars, confirmed, produced, overlap, again, boundVars>>

\* A missing group or unit, a refusal, or an answer that does not come: the Item
\* is not written, or it is, or it will be.
CreateFails(t) ==
    LET d == DraftOf(t) IN
    /\ thread[t].pc = "create"
    /\ Finished(t, FALSE)
    /\ \/ UNCHANGED <<items, late, written>>
       \/ /\ late' = late \cup {[code |-> d.code, content |-> d.content]}
          /\ UNCHANGED <<items, written>>
    /\ UNCHANGED <<batch, fileVars, confirmed, produced, overlap, again, boundVars>>

\* The Item is written and cannot be read back, or differs from the draft.
ReadbackFails(t) ==
    LET d == DraftOf(t) IN
    /\ thread[t].pc = "create"
    /\ Written(d.code, d.content)
    /\ written' = written \cup {d.code}
    /\ Finished(t, FALSE)
    /\ UNCHANGED <<batch, late, fileVars, confirmed, produced, overlap, again, boundVars>>

\* record_verified under its lock, then the classifier learns the row: a code
\* published with other content is a failure.
Publish(t) ==
    LET d == DraftOf(t) IN
    /\ thread[t].pc = "publish"
    /\ published[d.code] \in {Free, d.content}
    /\ published' = [published EXCEPT ![d.code] = d.content]
    /\ produced' = produced \cup {HashOf(d)}
    /\ Finished(t, TRUE)
    /\ UNCHANGED <<batch, erpVars, results, confirmed, written, overlap, again, boundVars>>

\* The conflict, or a file that cannot be written.
PublishFails(t) ==
    /\ thread[t].pc = "publish"
    /\ Finished(t, FALSE)
    /\ UNCHANGED <<batch, erpVars, fileVars, pastVars, boundVars>>

Reported(th) == {HashOf(th.batch[l]) : l \in {k \in th.asked : th.batch[k].done}}

\* Mutation: the statuses go to the drafts the batch holds by now.
StoreStatuses(t) ==
    LET th == thread[t] IN
    /\ th.pc = "store"
    /\ batch' = IF batch = Free THEN th.batch
                ELSE [l \in Lines |-> [batch[l] EXCEPT !.done = th.batch[l].done]]
    /\ results' = [th.held EXCEPT ![th.request] = Reported(th)]
    /\ Return(t)
    /\ UNCHANGED <<erpVars, published, pastVars, boundVars>>

\* The copy with its statuses replaces whatever the batch is by now, and the
\* session as it was loaded before, with this result, replaces the file.
StoreOutcome(t) ==
    LET th == thread[t] IN
    /\ th.pc = "store"
    /\ batch' = th.batch
    /\ results' = [th.held EXCEPT ![th.request] = Reported(th)]
    /\ Return(t)
    /\ UNCHANGED <<erpVars, published, pastVars, boundVars>>

-----------------------------------------------------------------------------
\* ERPNext applies a creation nobody waits for any more, or refuses it.
ErpLate(m) ==
    /\ m \in late
    /\ late' = late \ {m}
    /\ items' = [items EXCEPT ![m.code] = IF @ = Free THEN m.content ELSE @]
    /\ written' = IF items[m.code] = Free THEN written \cup {m.code} ELSE written
    /\ UNCHANGED <<batch, thread, fileVars, confirmed, produced, overlap, again, boundVars>>

\* Somebody creates an Item in ERPNext.
OutsideItem(c, content) ==
    /\ faults < MaxFaults
    /\ faults' = faults + 1
    /\ Written(c, content)
    /\ UNCHANGED <<batch, thread, late, fileVars, pastVars, lines, counted, compiled, confirms>>

\* Analyses, batches and handlers are memory; the two files are not.
RestartWorkbench ==
    /\ faults < MaxFaults
    /\ faults' = faults + 1
    /\ batch' = Free /\ counted' = {}
    /\ UNCHANGED <<erpVars, fileVars, pastVars, lines, compiled, confirms>>
    /\ thread' = [t \in Threads |-> Idle]

-----------------------------------------------------------------------------
ReviseStep(t)  == PutRevised(t) \/ ReviseFails(t)
ConfirmStep(t) ==
    \/ CheckExists(t) \/ CreateItem(t) \/ CreateFails(t) \/ ReadbackFails(t)
    \/ Publish(t) \/ PublishFails(t) \/ StoreOutcome(t)

Next ==
    \/ CountCodes \/ \E from \in counted : Prepare(from)
    \/ \E t \in Threads :
        \/ \E l \in Lines, c \in Contents : Revise(t, l, c)
        \/ \E q \in 1..(confirms + 1), asked \in (SUBSET Lines) \ {{}} : Confirm(t, q, asked)
        \/ ReviseStep(t)
        \/ ConfirmStep(t)
    \/ \E m \in late : ErpLate(m)
    \/ \E c \in Codes, x \in Foreign : OutsideItem(c, x)
    \/ RestartWorkbench

Spec == Init /\ [][Next]_vars
-----------------------------------------------------------------------------
(* What the intake promises.                                                *)

\* docs/reference/material-intake-publish-v0.8.md: confirmation of a frozen_hash
\* is the only way to a write.  Every Item the intake wrote says what a confirmed
\* draft of that code said, whatever revisions and restarts came in between.
WrittenAsConfirmed ==
    \A c \in written : \E h \in confirmed : h.code = c /\ h.content = items[c]

\* Nothing enters the runtime catalog but what ERPNext holds: a published code
\* has its Item, with the published content.
PublishedIsReal ==
    \A c \in Codes : published[c] # Free => items[c] = published[c]

\* What was frozen is in ERPNext and published.
Real(h) == items[h.code] = h.content /\ published[h.code] = h.content

\* A draft the batch or a remembered result calls created or verified is in
\* ERPNext and published as it was frozen, however stale the batch it came from.
ReportedIsReal ==
    /\ batch # Free => \A l \in Lines : batch[l].done => Real(batch[l])
    /\ \A q \in Requests : results[q] # Free => \A h \in results[q] : Real(h)

\* revise_material_drafts refuses to change a draft that is published (its
\* message: 已完成发布的草稿不能再修改), so that one draft is published once and
\* stays what it was then.  The code keeps that as long as no confirmation of the
\* analysis has company and none takes a draft that is done: through failures,
\* answers that come late, restarts and new compilations.
PublishedAsOne ==
    ~overlap /\ ~again =>
        \A g, h \in produced : g.id = h.id /\ g.line = h.line => g = h

\* The message alone, whoever confirms what and when.  A draft confirmed again
\* whose Item cannot be looked up becomes "failed", may be revised, gets another
\* code, and is published a second time.
PublishedStaysPut ==
    \A g, h \in produced : g.id = h.id /\ g.line = h.line => g = h
=============================================================================
