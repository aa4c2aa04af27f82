------------------------- MODULE MaterialIntakeProofs -------------------------
(***************************************************************************)
(* Proofs about MaterialIntake for any analysis, contents, threads, codes  *)
(* and bounds.                                                             *)
(***************************************************************************)
EXTENDS MaterialIntake, FiniteSetTheorems, WellFoundedInduction, TLAPS

-----------------------------------------------------------------------------
(* Codes and lines.                                                         *)

\* Every set of natural numbers has a least element: the one with the fewest
\* numbers of the set below it.
LEMMA LeastOf ==
    ASSUME NEW S \in SUBSET Nat, S # {}
    PROVE  \E l \in S : \A k \in S : l <= k
<1> DEFINE Below(l) == {k \in S : k < l}
           T == {Below(l) : l \in S}
<1>1. \A l \in S : Below(l) \in FiniteSubsetsOf(S)
  <2> SUFFICES ASSUME NEW l \in S PROVE Below(l) \in FiniteSubsetsOf(S)
    OBVIOUS
  <2>1. Below(l) \in SUBSET Nat /\ l \in Nat
    OBVIOUS
  <2>2. \A s \in Below(l) : s <= l
    BY <2>1
  <2>3. IsFiniteSet(Below(l))
    BY <2>1, <2>2, FS_BoundedSetOfNaturals
  <2> QED  BY <2>3 DEF FiniteSubsetsOf
<1>2. PICK B \in T : \A C \in T : <<C, B>> \notin StrictSubsetOrdering(S)
  <2>1. T \subseteq FiniteSubsetsOf(S) /\ T # {}
    BY <1>1
  <2> HIDE DEF T
  <2> QED  BY <2>1, FS_StrictSubsetOrderingWellFounded, WFMin
<1>3. PICK l \in S : B = Below(l)
  OBVIOUS
<1>4. ASSUME NEW k \in S, k < l PROVE FALSE
  <2>1. k \in Nat /\ l \in Nat /\ \A x \in S : x \in Nat
    OBVIOUS
  <2>2. \A x \in S : x < k => x < l
    BY <1>4, <2>1
  <2>3. k \in Below(l) /\ k \notin Below(k)
    BY <1>4, <2>1
  <2>4. Below(k) \subseteq B /\ k \in B /\ k \notin Below(k)
    BY <1>3, <2>2, <2>3
  <2>5. <<Below(k), B>> \in StrictSubsetOrdering(S)
    BY <2>4, <1>3 DEF StrictSubsetOrdering
  <2> QED  BY <1>2, <2>5
<1> QED  BY <1>4

\* generate_next_item_code finds a number, and one beyond all that are in use.
LEMMA NextCodeIsNew ==
    ASSUME NEW used \in SUBSET Codes
    PROVE  NextCode(used) \in 1..(MaxCode + 1) /\ \A m \in used : m < NextCode(used)
<1>1. \E n \in 1..(MaxCode + 1) : n - 1 \in used \cup {0} /\ \A m \in used : m < n
  <2>0. MaxCode \in Nat
    BY IntakeBoundsAssumption
  <2>1. CASE used = {}
    BY <2>0, <2>1, 1 \in 1..(MaxCode + 1)
  <2>2. CASE used # {}
    <3> DEFINE S == {MaxCode - m : m \in used}
    <3>0. \A m \in used : m \in Nat /\ MaxCode - m \in Nat
      BY <2>0 DEF Codes
    <3>1. S \in SUBSET Nat /\ S # {}
      BY <2>2, <3>0
    <3>2. PICK l \in S : \A k \in S : l <= k
      BY <3>1, LeastOf
    <3>3. PICK m \in used : l = MaxCode - m
      BY <3>2
    <3>4. \A k \in used : k <= m
      <4> SUFFICES ASSUME NEW k \in used PROVE k <= m
        OBVIOUS
      <4>1. MaxCode - m <= MaxCode - k
        BY <3>2, <3>3
      <4> QED  BY <2>0, <3>0, <4>1
    <3>5. m + 1 \in 1..(MaxCode + 1) /\ (m + 1) - 1 \in used /\ \A k \in used : k < m + 1
      BY <2>0, <3>3, <3>4 DEF Codes
    <3> QED  BY <3>5
  <2> QED  BY <2>1, <2>2
<1> QED  BY <1>1 DEF NextCode

\* A handler that still has drafts to do has one at hand.
LEMMA LineAtHand ==
    ASSUME TypeOK, NEW t \in Threads, thread[t].pc \in Confirming \ {"store"}
    PROVE  LineOf(t) \in thread[t].todo /\ LineOf(t) \in Lines
<1>1. thread[t] \in Publishing
  BY DEF TypeOK, Idle, Revising, Confirming
<1>2. thread[t].todo \in SUBSET Lines /\ thread[t].todo # {}
  BY <1>1 DEF Publishing, Working
<1>3. Lines \subseteq Nat
  BY IntakeBoundsAssumption DEF Lines, TypeOK
<1>4. \E l \in thread[t].todo : \A k \in thread[t].todo : l <= k
  BY <1>2, <1>3, LeastOf
<1> QED  BY <1>2, <1>4 DEF LineOf

-----------------------------------------------------------------------------
(* Types.                                                                   *)

LEMMA InitTypes == Init => TypeOK
<1> SUFFICES ASSUME Init PROVE TypeOK
  OBVIOUS
<1>1. /\ thread \in [Threads -> {Idle} \cup Revising \cup Publishing]
      /\ items \in [Codes -> Contents \cup {Free}] /\ published \in [Codes -> Contents \cup {Free}]
      /\ results \in [Requests -> Result \cup {Free}]
  BY DEF Init
<1>2. compiled \in 0..MaxDrafts /\ confirms \in 0..MaxConfirms /\ faults \in 0..MaxFaults
  BY IntakeBoundsAssumption DEF Init
<1> QED  BY <1>1, <1>2 DEF Init, TypeOK

\* The handler of a thread, by where it is.
LEMMA ThreadShape ==
    ASSUME TypeOK, NEW t \in Threads
    PROVE  /\ thread[t].pc = "idle" => thread[t] = Idle
           /\ thread[t].pc = "put" => thread[t] \in Revising
           /\ thread[t].pc \in Confirming => thread[t] \in Publishing
           /\ thread[t].pc # "idle" => thread[t].batch \in Batch
<1> QED  BY DEF TypeOK, Idle, Revising, Publishing, Working, Confirming

\* Marking a draft changes its status alone: its frozen content stays.
LEMMA MarkedBatch ==
    ASSUME NEW b \in Batch, NEW l \in Lines, NEW done \in BOOLEAN
    PROVE  /\ Marked(b, l, done) \in Batch
           /\ \A k \in Lines :
                 /\ HashOf(Marked(b, l, done)[k]) = HashOf(b[k])
                 /\ Marked(b, l, done)[k].code = b[k].code
                 /\ Marked(b, l, done)[k].content = b[k].content
                 /\ Marked(b, l, done)[k].done = IF k = l THEN done ELSE b[k].done
<1> DEFINE d == b[l]
           e == [d EXCEPT !.done = done]
<1>1. d \in Draft
  BY DEF Batch
<1>2. /\ e \in Draft /\ HashOf(e) = HashOf(d) /\ e.done = done
      /\ e.code = d.code /\ e.content = d.content
  <2> HIDE DEF d
  <2> QED  BY <1>1 DEF Draft, HashOf
<1>3. Marked(b, l, done) = [b EXCEPT ![l] = e]
  BY Zenon DEF Marked
<1> HIDE DEF e
<1>4. /\ Marked(b, l, done) \in Batch
      /\ \A k \in Lines : Marked(b, l, done)[k] = IF k = l THEN e ELSE b[k]
  BY <1>2, <1>3 DEF Batch
<1> QED  BY <1>2, <1>4

\* The thread that finishes a draft goes on with its own copy.
LEMMA FinishedThread ==
    ASSUME TypeOK, NEW t \in Threads, thread[t].pc \in Confirming \ {"store"},
           NEW done \in BOOLEAN, Finished(t, done)
    PROVE  /\ thread' \in [Threads -> {Idle} \cup Revising \cup Publishing]
           /\ \A u \in Threads \ {t} : thread'[u] = thread[u]
           /\ thread'[t] \in Publishing
           /\ thread'[t].pc \in {"exists", "store"}
           /\ thread'[t].batch = Marked(thread[t].batch, LineOf(t), done)
           /\ thread'[t].todo = thread[t].todo \ {LineOf(t)}
           /\ thread'[t].asked = thread[t].asked
           /\ thread'[t].held = thread[t].held
           /\ thread'[t].request = thread[t].request
<1> DEFINE c == thread[t]
           l == LineOf(t)
           b == Marked(c.batch, l, done)
           todo == c.todo \ {l}
           pc == IF todo = {} THEN "store" ELSE "exists"
           d == [c EXCEPT !.batch = b, !.todo = todo, !.pc = pc]
<1>1. c \in Publishing /\ c.batch \in Batch
  BY ThreadShape DEF Confirming
<1>2. b \in Batch /\ l \in Lines
  BY <1>1, LineAtHand, MarkedBatch
<1>3. /\ d \in Publishing /\ d.pc \in {"exists", "store"} /\ d.batch = b
      /\ d.todo = c.todo \ {l} /\ d.asked = c.asked /\ d.held = c.held
      /\ d.request = c.request
  <2> HIDE DEF c, b, l
  <2> QED  BY <1>1, <1>2 DEF Publishing, Working, Confirming
<1>4. thread' = [thread EXCEPT ![t] = d]
  BY Zenon DEF Finished
<1> HIDE DEF d
<1> QED  BY <1>3, <1>4 DEF TypeOK, c, b, l

\* A thread that moves on keeps its copy.
LEMMA GotoThread ==
    ASSUME TypeOK, NEW t \in Threads, thread[t].pc \in Confirming \ {"store"},
           NEW pc \in Confirming \ {"store"}, Goto(t, pc)
    PROVE  /\ thread' \in [Threads -> {Idle} \cup Revising \cup Publishing]
           /\ \A u \in Threads \ {t} : thread'[u] = thread[u]
           /\ thread'[t] \in Publishing
           /\ thread'[t].pc = pc
           /\ thread'[t].batch = thread[t].batch
           /\ thread'[t].todo = thread[t].todo
           /\ thread'[t].asked = thread[t].asked
           /\ thread'[t].held = thread[t].held
<1> DEFINE c == thread[t]
           d == [c EXCEPT !.pc = pc]
<1>1. c \in Publishing /\ c.pc \in Confirming \ {"store"}
  BY ThreadShape DEF Confirming
<1>2. /\ d \in Publishing /\ d.pc = pc /\ d.batch = c.batch
      /\ d.todo = c.todo /\ d.asked = c.asked /\ d.held = c.held
  <2> HIDE DEF c
  <2> QED  BY <1>1 DEF Publishing, Working
<1>3. thread' = [thread EXCEPT ![t] = d]
  BY Zenon DEF Goto
<1> HIDE DEF d
<1> QED  BY <1>2, <1>3 DEF TypeOK, c

\* The analysis does not change, nor do the shapes of its batches.
LEMMA SameLines ==
    ASSUME lines' = lines
    PROVE  Lines' = Lines /\ Batch' = Batch /\ Revising' = Revising /\ Publishing' = Publishing
<1> QED  BY DEF Lines, Batch, Revising, Publishing, Working

LEMMA DraftAtHand ==
    ASSUME TypeOK, NEW t \in Threads, thread[t].pc \in Confirming \ {"store"}
    PROVE  /\ DraftOf(t) \in Draft /\ DraftOf(t).code \in Codes
           /\ DraftOf(t).content \in Contents /\ HashOf(DraftOf(t)) \in Hash
<1>1. DraftOf(t) \in Draft
  BY ThreadShape, LineAtHand DEF DraftOf, Batch, Confirming
<1> HIDE DEF DraftOf
<1> QED  BY <1>1 DEF Draft, Hash, HashOf

\* A compiled draft is a draft, and so is a revised one.
LEMMA CompiledTypes ==
    ASSUME TypeOK, NEW from \in counted, Prepare(from)
    PROVE  batch' \in Batch
<1>1. from \in 1..(MaxCode + 1) /\ from + lines - 1 <= MaxCode
  BY DEF Prepare, TypeOK
<1>2. compiled + 1 \in 1..MaxDrafts /\ lines \in 1..MaxLine
  BY IntakeBoundsAssumption DEF Prepare, TypeOK
<1>3. \A l \in Lines : l \in 1..MaxLine /\ from + l - 1 \in Codes /\ First[l] \in Contents
  BY <1>1, <1>2, IntakeBoundsAssumption DEF Lines, Codes
<1>4. batch' = [l \in Lines |-> [id |-> compiled + 1, line |-> l, code |-> from + l - 1,
                                 content |-> First[l], revision |-> 0, done |-> FALSE]]
  BY DEF Prepare
<1> QED  BY <1>2, <1>3, <1>4 DEF Batch, Draft

\* What a compilation counts is a code, or the one after the last.
LEMMA CountedTypes ==
    ASSUME TypeOK, CountCodes
    PROVE  counted' \subseteq 1..(MaxCode + 1)
<1>1. PICK live \in {Existing(items), {}} :
          counted' = counted \cup {NextCode(live \cup Existing(published))}
  BY DEF CountCodes
<1>2. live \cup Existing(published) \in SUBSET Codes
  BY DEF Existing
<1>3. NextCode(live \cup Existing(published)) \in 1..(MaxCode + 1)
  BY <1>2, NextCodeIsNew
<1> QED  BY <1>1, <1>3 DEF TypeOK

LEMMA RecompiledTypes ==
    ASSUME TypeOK, NEW t \in Threads, PutRevised(t)
    PROVE  /\ batch' \in Batch
           /\ \A l \in Lines : batch'[l].done =>
                 batch'[l] = thread[t].batch[l] /\ thread[t].batch[l].done
<1> DEFINE th == thread[t]
<1>1. th \in Revising
  BY ThreadShape DEF PutRevised
<1> HIDE DEF th
<1>2. th.batch \in Batch /\ th.line \in Lines /\ th.content \in Contents
  BY <1>1 DEF Revising
<1> DEFINE n == NextCode(UsedCodes(th.batch, th.line))
           old == th.batch[th.line]
           new == [id |-> old.id, line |-> th.line, code |-> n, content |-> th.content,
                   revision |-> old.revision + 1, done |-> FALSE]
<1>3. n \in Codes /\ batch' = [th.batch EXCEPT ![th.line] = new]
  BY DEF PutRevised, Recompiled, th
<1>4. th.line \in 1..MaxLine
  BY <1>2, IntakeBoundsAssumption DEF TypeOK, Lines
<1>5. old \in Draft
  BY <1>2 DEF Batch
<1> HIDE DEF n, old
<1>6. new \in Draft /\ new.done = FALSE
  BY <1>2, <1>3, <1>4, <1>5 DEF Draft
<1> HIDE DEF new
<1>7. /\ batch' \in Batch
      /\ \A l \in Lines : batch'[l] = IF l = th.line THEN new ELSE th.batch[l]
  BY <1>2, <1>3, <1>6 DEF Batch
<1> QED  BY <1>6, <1>7 DEF th

\* What a confirmation reports are frozen drafts.
LEMMA ReportedTypes ==
    ASSUME TypeOK, NEW th \in Publishing
    PROVE  Reported(th) \in Result
<1> SUFFICES ASSUME NEW l \in Lines PROVE HashOf(th.batch[l]) \in Hash
  BY DEF Reported, Result, Publishing, Working
<1>1. th.batch[l] \in Draft
  BY DEF Publishing, Working, Batch
<1> QED  BY <1>1 DEF Draft, Hash, HashOf

LEMMA DraftTypes ==
    ASSUME TypeOK, \/ CountCodes \/ \E from \in counted : Prepare(from)
                   \/ \E t \in Threads, l \in Lines, c \in Contents : Revise(t, l, c)
                   \/ \E t \in Threads : ReviseStep(t)
    PROVE  TypeOK'
<1>0. CASE CountCodes
  BY <1>0, CountedTypes, SameLines DEF CountCodes, TypeOK, erpVars, fileVars, pastVars
<1>1. ASSUME NEW from \in counted, Prepare(from) PROVE TypeOK'
  <2>1. lines' = lines /\ compiled' \in 0..MaxDrafts
    BY <1>1, IntakeBoundsAssumption DEF Prepare, TypeOK
  <2> QED  BY <1>1, <2>1, CompiledTypes, SameLines DEF Prepare, TypeOK, erpVars, fileVars, pastVars
<1>2. ASSUME NEW t \in Threads, NEW l \in Lines, NEW c \in Contents, Revise(t, l, c)
      PROVE  TypeOK'
  <2>1. lines' = lines
    BY <1>2 DEF Revise, boundVars
  <2>2. [pc |-> "put", batch |-> batch, line |-> l, content |-> c] \in Revising
    BY <1>2 DEF Revise, TypeOK, Revising
  <2>3. overlap' \in BOOLEAN
    BY <1>2 DEF Revise
  <2> QED  BY <1>2, <2>1, <2>2, <2>3, SameLines DEF Revise, TypeOK, erpVars, fileVars, boundVars
<1>3. ASSUME NEW t \in Threads, PutRevised(t) PROVE TypeOK'
  <2>1. lines' = lines
    BY <1>3 DEF PutRevised, boundVars
  <2> QED  BY <1>3, <2>1, RecompiledTypes, SameLines
           DEF PutRevised, Return, TypeOK, erpVars, fileVars, pastVars, boundVars
<1>4. ASSUME NEW t \in Threads, ReviseFails(t) PROVE TypeOK'
  <2>1. lines' = lines
    BY <1>4 DEF ReviseFails, boundVars
  <2> QED  BY <1>4, <2>1, SameLines
           DEF ReviseFails, Return, TypeOK, erpVars, fileVars, pastVars, boundVars
<1> QED  BY <1>0, <1>1, <1>2, <1>3, <1>4 DEF ReviseStep

LEMMA ConfirmTypes ==
    ASSUME TypeOK, NEW t \in Threads, NEW q \in 1..(confirms + 1),
           NEW asked \in (SUBSET Lines) \ {{}}, Confirm(t, q, asked)
    PROVE  TypeOK'
<1>1. lines' = lines
  BY DEF Confirm
<1>2. q \in Requests
  BY IntakeBoundsAssumption DEF Confirm, TypeOK, Requests
<1>3. \A l \in Lines : HashOf(batch[l]) \in Hash
  <2> SUFFICES ASSUME NEW l \in Lines PROVE HashOf(batch[l]) \in Hash
    OBVIOUS
  <2>1. batch[l] \in Draft
    BY DEF Confirm, TypeOK, Batch
  <2> QED  BY <2>1 DEF Draft, Hash, HashOf
<1>4. confirmed' \subseteq Hash
  BY <1>3 DEF Confirm, TypeOK
<1>5. [pc |-> "exists", request |-> q, held |-> results, batch |-> batch,
       asked |-> asked, todo |-> asked] \in Publishing
  <2>1. batch \in Batch /\ results \in [Requests -> Result \cup {Free}]
    BY DEF Confirm, TypeOK
  <2>2. asked \in SUBSET Lines /\ asked # {}
    OBVIOUS
  <2> QED  BY <1>2, <2>1, <2>2 DEF Publishing, Working, Confirming
<1>6. confirms' \in 0..MaxConfirms /\ overlap' \in BOOLEAN
  BY IntakeBoundsAssumption DEF Confirm, TypeOK
<1> QED  BY <1>1, <1>4, <1>5, <1>6, SameLines DEF Confirm, TypeOK, erpVars, fileVars

LEMMA ConfirmStepTypes ==
    ASSUME TypeOK, NEW t \in Threads, ConfirmStep(t)
    PROVE  TypeOK'
<1>0. lines' = lines
  BY DEF ConfirmStep, CheckExists, CreateItem, CreateFails, ReadbackFails, Publish,
         PublishFails, StoreOutcome, boundVars
<1>1. CASE CheckExists(t)
  <2>1. thread' \in [Threads -> {Idle} \cup Revising \cup Publishing]
    BY <1>1, FinishedThread, GotoThread DEF CheckExists, Confirming
  <2> QED  BY <1>0, <1>1, <2>1, SameLines DEF CheckExists, TypeOK, erpVars, fileVars, pastVars, boundVars
<1>2. CASE CreateItem(t)
  <2>1. thread' \in [Threads -> {Idle} \cup Revising \cup Publishing]
    BY <1>2, GotoThread DEF CreateItem, Confirming
  <2>2. DraftOf(t).code \in Codes /\ DraftOf(t).content \in Contents
    BY <1>2, DraftAtHand DEF CreateItem, Confirming
  <2> QED  BY <1>0, <1>2, <2>1, <2>2, SameLines DEF CreateItem, Written, TypeOK, fileVars, boundVars
<1>3. CASE CreateFails(t)
  <2>1. thread' \in [Threads -> {Idle} \cup Revising \cup Publishing]
    BY <1>3, FinishedThread DEF CreateFails, Confirming
  <2>2. DraftOf(t).code \in Codes /\ DraftOf(t).content \in Contents
    BY <1>3, DraftAtHand DEF CreateFails, Confirming
  <2>3. late' \subseteq [code : Codes, content : Contents] /\ UNCHANGED <<items, written>>
    BY <1>3, <2>2 DEF CreateFails, TypeOK
  <2> QED  BY <1>0, <1>3, <2>1, <2>3, SameLines DEF CreateFails, TypeOK, fileVars, boundVars
<1>4. CASE ReadbackFails(t)
  <2>1. thread' \in [Threads -> {Idle} \cup Revising \cup Publishing]
    BY <1>4, FinishedThread DEF ReadbackFails, Confirming
  <2>2. DraftOf(t).code \in Codes /\ DraftOf(t).content \in Contents
    BY <1>4, DraftAtHand DEF ReadbackFails, Confirming
  <2> QED  BY <1>0, <1>4, <2>1, <2>2, SameLines DEF ReadbackFails, Written, TypeOK, fileVars, boundVars
<1>5. CASE Publish(t)
  <2>1. thread' \in [Threads -> {Idle} \cup Revising \cup Publishing]
    BY <1>5, FinishedThread DEF Publish, Confirming
  <2>2. DraftOf(t).code \in Codes /\ DraftOf(t).content \in Contents /\ HashOf(DraftOf(t)) \in Hash
    BY <1>5, DraftAtHand DEF Publish, Confirming
  <2> QED  BY <1>0, <1>5, <2>1, <2>2, SameLines DEF Publish, TypeOK, erpVars, pastVars, boundVars
<1>6. CASE PublishFails(t)
  <2>1. thread' \in [Threads -> {Idle} \cup Revising \cup Publishing]
    BY <1>6, FinishedThread DEF PublishFails, Confirming
  <2> QED  BY <1>0, <1>6, <2>1, SameLines DEF PublishFails, TypeOK, erpVars, fileVars, pastVars, boundVars
<1>7. CASE StoreOutcome(t)
  <2>1. PICK th \in Publishing : th = thread[t]
    BY <1>7, ThreadShape DEF StoreOutcome, Confirming
  <2>2. th.batch \in Batch /\ th.held \in [Requests -> Result \cup {Free}]
    BY <2>1 DEF Publishing, Working
  <2>3. results' \in [Requests -> Result \cup {Free}]
    BY <1>7, <2>1, <2>2, ReportedTypes DEF StoreOutcome
  <2> QED  BY <1>0, <1>7, <2>1, <2>2, <2>3, SameLines
           DEF StoreOutcome, Return, TypeOK, erpVars, pastVars, boundVars
<1> QED  BY <1>1, <1>2, <1>3, <1>4, <1>5, <1>6, <1>7 DEF ConfirmStep

LEMMA OtherTypes ==
    ASSUME TypeOK, \/ \E m \in late : ErpLate(m)
                   \/ \E c \in Codes, x \in Foreign : OutsideItem(c, x)
                   \/ RestartWorkbench
    PROVE  TypeOK'
<1>1. ASSUME NEW m \in late, ErpLate(m) PROVE TypeOK'
  <2>1. lines' = lines /\ m.code \in Codes /\ m.content \in Contents
    BY <1>1 DEF ErpLate, boundVars, TypeOK
  <2> QED  BY <1>1, <2>1, SameLines DEF ErpLate, TypeOK, fileVars, boundVars
<1>2. ASSUME NEW c \in Codes, NEW x \in Foreign, OutsideItem(c, x) PROVE TypeOK'
  <2>1. lines' = lines /\ x \in Contents /\ faults' \in 0..MaxFaults
    BY <1>2, IntakeBoundsAssumption DEF OutsideItem, TypeOK
  <2> QED  BY <1>2, <2>1, SameLines DEF OutsideItem, Written, TypeOK, fileVars, pastVars
<1>3. CASE RestartWorkbench
  <2>1. lines' = lines /\ faults' \in 0..MaxFaults
    BY <1>3, IntakeBoundsAssumption DEF RestartWorkbench, TypeOK
  <2> QED  BY <1>3, <2>1, SameLines DEF RestartWorkbench, TypeOK, erpVars, fileVars, pastVars
<1> QED  BY <1>1, <1>2, <1>3

LEMMA NextTypes == TypeOK /\ [Next]_vars => TypeOK'
<1> SUFFICES ASSUME TypeOK, [Next]_vars PROVE TypeOK'
  OBVIOUS
<1>1. CASE Next
  BY <1>1, DraftTypes, ConfirmTypes, ConfirmStepTypes, OtherTypes DEF Next
<1>2. CASE UNCHANGED vars
  BY <1>2, SameLines DEF TypeOK, vars, erpVars, fileVars, pastVars, boundVars
<1> QED  BY <1>1, <1>2

\* Batch, handlers, ERPNext, the files and what was frozen always have the shapes
\* the code gives them.
THEOREM TypeCorrect == Spec => []TypeOK
<1> QED  BY InitTypes, NextTypes, PTL DEF Spec

-----------------------------------------------------------------------------
(* What is written, published and reported.                                 *)

\* A draft of a batch that is done is real; so are the results a confirmation
\* loaded, the drafts it works on are confirmed, and the Item it is about to
\* publish is the one in ERPNext.  A creation that may still come was confirmed.
RealBatch(b) == \A l \in Lines : b[l].done => Real(b[l])
RealResults(r) == \A q \in Requests : r[q] # Free => \A h \in r[q] : Real(h)
Confirmed(c, x) == \E h \in confirmed : h.code = c /\ h.content = x

ThreadInv(t) ==
    /\ thread[t].pc # "idle" => RealBatch(thread[t].batch)
    /\ thread[t].pc \in Confirming =>
           /\ thread[t].todo \subseteq thread[t].asked
           /\ \A l \in thread[t].asked : HashOf(thread[t].batch[l]) \in confirmed
           /\ thread[t].pc = "publish" => items[DraftOf(t).code] = DraftOf(t).content
           /\ RealResults(thread[t].held)

IntakeInv ==
    /\ \A c \in written : Confirmed(c, items[c])
    /\ PublishedIsReal
    /\ batch # Free => RealBatch(batch)
    /\ RealResults(results)
    /\ \A m \in late : Confirmed(m.code, m.content)
    /\ \A t \in Threads : ThreadInv(t)

LEMMA InitIntake == Init => IntakeInv
<1> QED  BY DEF Init, IntakeInv, PublishedIsReal, RealResults, ThreadInv, Idle, Confirming

\* An Item, a publication and a confirmed draft stay as they are.
LEMMA NothingIsUndone ==
    ASSUME TypeOK, IntakeInv, Next
    PROVE  /\ \A c \in Codes : items[c] # Free => items'[c] = items[c]
           /\ \A c \in Codes : published[c] # Free => published'[c] = published[c]
           /\ confirmed \subseteq confirmed'
           /\ lines' = lines
<1>1. CASE CountCodes \/ \E from \in counted : Prepare(from)
  BY <1>1 DEF CountCodes, Prepare, erpVars, fileVars, pastVars
<1>2. ASSUME NEW t \in Threads
      PROVE  /\ \A l \in Lines, c \in Contents : Revise(t, l, c) =>
                   UNCHANGED <<items, published, confirmed, lines>>
             /\ ReviseStep(t) => UNCHANGED <<items, published, confirmed, lines>>
             /\ \A q \in 1..(confirms + 1), asked \in (SUBSET Lines) \ {{}} : Confirm(t, q, asked) =>
                   UNCHANGED <<items, published, lines>> /\ confirmed \subseteq confirmed'
  BY DEF Revise, ReviseStep, PutRevised, ReviseFails, Confirm, erpVars, fileVars, pastVars, boundVars
<1>3. ASSUME NEW t \in Threads, ConfirmStep(t)
      PROVE  /\ \A c \in Codes : items[c] # Free => items'[c] = items[c]
             /\ \A c \in Codes : published[c] # Free => published'[c] = published[c]
             /\ confirmed' = confirmed /\ lines' = lines
  <2>1. CASE CreateItem(t) \/ ReadbackFails(t)
    BY <2>1 DEF CreateItem, ReadbackFails, Written, TypeOK, fileVars, boundVars
  <2>2. CASE Publish(t)
    BY <2>2 DEF Publish, TypeOK, erpVars, pastVars, boundVars
  <2>3. CASE CheckExists(t) \/ CreateFails(t) \/ PublishFails(t) \/ StoreOutcome(t)
    BY <2>3 DEF CheckExists, CreateFails, PublishFails, StoreOutcome, erpVars, fileVars, pastVars, boundVars
  <2> QED  BY <1>3, <2>1, <2>2, <2>3 DEF ConfirmStep
<1>4. ASSUME NEW m \in late, ErpLate(m)
      PROVE  /\ \A c \in Codes : items[c] # Free => items'[c] = items[c]
             /\ UNCHANGED <<published, confirmed, lines>>
  BY <1>4 DEF ErpLate, TypeOK, fileVars, boundVars
<1>5. ASSUME NEW c \in Codes, NEW x \in Foreign, OutsideItem(c, x)
      PROVE  /\ \A d \in Codes : items[d] # Free => items'[d] = items[d]
             /\ UNCHANGED <<published, confirmed, lines>>
  BY <1>5 DEF OutsideItem, Written, TypeOK, fileVars, pastVars
<1>6. CASE RestartWorkbench
  BY <1>6 DEF RestartWorkbench, erpVars, fileVars, pastVars
<1> QED  BY <1>1, <1>2, <1>3, <1>4, <1>5, <1>6 DEF Next

\* So what is real stays real, and what was confirmed stays confirmed.
LEMMA RealStays ==
    ASSUME TypeOK, IntakeInv, Next
    PROVE  /\ \A h \in Hash \cup Draft : Real(h) => Real(h)'
           /\ \A b \in Batch : RealBatch(b) => RealBatch(b)'
           /\ \A r \in [Requests -> Result \cup {Free}] : RealResults(r) => RealResults(r)'
           /\ \A c, x : Confirmed(c, x) => Confirmed(c, x)'
<1>1. \A h \in Hash \cup Draft : Real(h) => Real(h)'
  <2> SUFFICES ASSUME NEW h \in Hash \cup Draft, Real(h) PROVE Real(h)'
    OBVIOUS
  <2>1. h.code \in Codes /\ h.content # Free
    BY IntakeBoundsAssumption DEF Hash, Draft
  <2> QED  BY <2>1, NothingIsUndone DEF Real
<1>2. Lines' = Lines
  BY NothingIsUndone, SameLines
<1>3. \A b \in Batch : \A l \in Lines : b[l] \in Draft
  BY DEF Batch
<1>4. \A b \in Batch : RealBatch(b) => RealBatch(b)'
  BY <1>1, <1>2, <1>3 DEF RealBatch
<1>5. \A r \in [Requests -> Result \cup {Free}] : RealResults(r) => RealResults(r)'
  BY <1>1 DEF RealResults, Result
<1>6. \A c, x : Confirmed(c, x) => Confirmed(c, x)'
  BY NothingIsUndone DEF Confirmed
<1> QED  BY <1>1, <1>4, <1>5, <1>6

\* A thread that does not move keeps its invariant.
LEMMA OtherThread ==
    ASSUME TypeOK, IntakeInv, Next, NEW u \in Threads, thread'[u] = thread[u]
    PROVE  ThreadInv(u)'
<1>1. ThreadInv(u)
  BY DEF IntakeInv
<1>2. CASE thread[u].pc = "idle"
  BY <1>2 DEF ThreadInv, Confirming
<1>3. CASE thread[u].pc = "put"
  BY <1>1, <1>3, ThreadShape, RealStays DEF ThreadInv, Confirming
<1>4. CASE thread[u].pc \in Confirming
  <2>1. thread[u].batch \in Batch /\ thread[u].held \in [Requests -> Result \cup {Free}]
    BY <1>4, ThreadShape DEF Publishing, Working, Confirming
  <2>2. RealBatch(thread[u].batch)' /\ RealResults(thread[u].held)'
    BY <1>1, <1>4, <2>1, RealStays DEF ThreadInv, Confirming
  <2>3. DraftOf(u)' = DraftOf(u)
    BY DEF DraftOf, LineOf
  <2>4. thread[u].pc = "publish" => items'[DraftOf(u).code] = DraftOf(u).content
    <3> SUFFICES ASSUME thread[u].pc = "publish"
                 PROVE  items'[DraftOf(u).code] = DraftOf(u).content
      OBVIOUS
    <3>1. DraftOf(u).code \in Codes /\ DraftOf(u).content # Free
      BY DraftAtHand, IntakeBoundsAssumption DEF Confirming
    <3>2. items[DraftOf(u).code] = DraftOf(u).content
      BY <1>1 DEF ThreadInv, Confirming
    <3> QED  BY <3>1, <3>2, NothingIsUndone
  <2> QED  BY <1>1, <1>4, <2>2, <2>3, <2>4, NothingIsUndone DEF ThreadInv, Confirming
<1> QED  BY <1>2, <1>3, <1>4 DEF TypeOK, Idle, Revising, Publishing, Working

\* ERPNext and the two files only gain: it is enough to look at what is new.
LEMMA FilesKept ==
    ASSUME TypeOK, IntakeInv, Next,
           \A c \in written' \ written : Confirmed(c, items'[c]),
           \A c \in Codes : published'[c] # published[c] => items'[c] = published'[c],
           \A m \in late' \ late : Confirmed(m.code, m.content)
    PROVE  /\ \A c \in written' : Confirmed(c, items[c])'
           /\ PublishedIsReal'
           /\ \A m \in late' : Confirmed(m.code, m.content)'
           /\ UNCHANGED results => RealResults(results)'
           /\ UNCHANGED batch => (batch # Free => RealBatch(batch))'
<1>1. ASSUME NEW c \in written' PROVE Confirmed(c, items[c])'
  <2>1. CASE c \in written
    <3>1. PICK h \in confirmed : h.code = c /\ h.content = items[c]
      BY <2>1 DEF IntakeInv, Confirmed
    <3>2. h \in Hash
      BY <3>1 DEF TypeOK
    <3>3. c \in Codes /\ items[c] # Free
      BY <3>1, <3>2, IntakeBoundsAssumption DEF Hash
    <3> QED  BY <3>1, <3>3, NothingIsUndone DEF Confirmed
  <2>2. CASE c \notin written
    BY <2>2, RealStays DEF Confirmed
  <2> QED  BY <2>1, <2>2
<1>2. PublishedIsReal'
  <2> SUFFICES ASSUME NEW c \in Codes, published'[c] # Free PROVE items'[c] = published'[c]
    BY DEF PublishedIsReal
  <2>1. CASE published'[c] = published[c]
    BY <2>1, NothingIsUndone DEF IntakeInv, PublishedIsReal
  <2> QED  BY <2>1
<1>3. \A m \in late' : Confirmed(m.code, m.content)'
  BY RealStays DEF IntakeInv
<1>4. UNCHANGED results => RealResults(results)'
  <2> SUFFICES ASSUME results' = results PROVE RealResults(results)'
    OBVIOUS
  <2>1. PICK r \in [Requests -> Result \cup {Free}] : r = results
    BY DEF TypeOK
  <2>2. RealResults(r)'
    BY <2>1, RealStays DEF IntakeInv
  <2> QED  BY <2>1, <2>2
<1>5. UNCHANGED batch => (batch # Free => RealBatch(batch))'
  <2> SUFFICES ASSUME batch' = batch, batch # Free PROVE RealBatch(batch)'
    OBVIOUS
  <2>1. PICK b \in Batch : b = batch
    BY DEF TypeOK
  <2>2. RealBatch(b)'
    BY <2>1, RealStays DEF IntakeInv
  <2> QED  BY <2>1, <2>2
<1> QED  BY <1>1, <1>2, <1>3, <1>4, <1>5

\* The draft at hand of a confirming thread was confirmed as it is.
LEMMA AtHandIsConfirmed ==
    ASSUME TypeOK, IntakeInv, NEW t \in Threads, thread[t].pc \in Confirming \ {"store"}
    PROVE  Confirmed(DraftOf(t).code, DraftOf(t).content)
<1>1. LineOf(t) \in thread[t].asked
  BY LineAtHand DEF IntakeInv, ThreadInv
<1>2. HashOf(DraftOf(t)) \in confirmed
  BY <1>1 DEF IntakeInv, ThreadInv, DraftOf
<1> QED  BY <1>2 DEF Confirmed, HashOf

\* After a draft ended, its thread goes on or stores its outcome.
LEMMA FinishedKeeps ==
    ASSUME TypeOK, IntakeInv, Next, NEW t \in Threads, thread[t].pc \in Confirming \ {"store"},
           NEW d \in Draft, d = DraftOf(t),
           NEW done \in BOOLEAN, Finished(t, done), done => Real(d)'
    PROVE  \A u \in Threads : ThreadInv(u)'
<1>1. \A u \in Threads \ {t} : ThreadInv(u)'
  BY FinishedThread, OtherThread
<1>2. PICK b \in Batch, r \in [Requests -> Result \cup {Free}], l \in Lines :
          b = thread[t].batch /\ r = thread[t].held /\ l = LineOf(t)
  BY ThreadShape, LineAtHand DEF Publishing, Working, Confirming
<1>3. d = b[l]
  BY <1>2 DEF DraftOf
<1>4. PICK m \in Batch : m = Marked(b, l, done)
  BY MarkedBatch
<1>5. \A k \in Lines :
          /\ HashOf(m[k]) = HashOf(b[k]) /\ m[k].code = b[k].code
          /\ m[k].content = b[k].content
          /\ m[k].done = IF k = l THEN done ELSE b[k].done
  BY <1>4, MarkedBatch
<1>6. /\ thread'[t].batch = m /\ thread'[t].held = r
      /\ thread'[t].pc \in {"exists", "store"}
      /\ thread'[t].todo \subseteq thread[t].todo
      /\ thread'[t].asked = thread[t].asked /\ thread[t].asked \subseteq Lines
  <2>1. thread[t].asked \subseteq Lines
    BY ThreadShape DEF Publishing, Working, Confirming
  <2> QED  BY <1>2, <1>4, <2>1, FinishedThread
<1>7. RealBatch(b)' /\ RealResults(r)'
  BY <1>2, RealStays DEF IntakeInv, ThreadInv, Confirming
<1>8. Lines' = Lines
  BY NothingIsUndone, SameLines
<1>9. RealBatch(m)'
  <2> SUFFICES ASSUME NEW k \in Lines, m[k].done PROVE Real(m[k])'
    BY <1>8 DEF RealBatch
  <2>1. CASE k = l
    BY <1>3, <1>5, <2>1 DEF Real
  <2>2. CASE k # l
    BY <1>5, <1>7, <1>8, <2>2 DEF RealBatch, Real
  <2> QED  BY <2>1, <2>2
<1>10. \A k \in thread[t].asked : HashOf(m[k]) \in confirmed'
  BY <1>2, <1>5, <1>6, NothingIsUndone DEF IntakeInv, ThreadInv
<1>11. ThreadInv(t)'
  BY <1>6, <1>7, <1>9, <1>10 DEF ThreadInv, IntakeInv, Confirming
<1> QED  BY <1>1, <1>11

\* A thread that moves on has its draft in ERPNext when it comes to publish it.
LEMMA GotoKeeps ==
    ASSUME TypeOK, IntakeInv, Next, NEW t \in Threads, thread[t].pc \in Confirming \ {"store"},
           NEW pc \in Confirming \ {"store"}, Goto(t, pc),
           pc = "publish" => items'[DraftOf(t).code] = DraftOf(t).content
    PROVE  \A u \in Threads : ThreadInv(u)'
<1>1. \A u \in Threads \ {t} : ThreadInv(u)'
  BY GotoThread, OtherThread
<1>2. PICK b \in Batch, r \in [Requests -> Result \cup {Free}] :
          b = thread[t].batch /\ r = thread[t].held
  BY ThreadShape DEF Publishing, Working, Confirming
<1>3. /\ thread'[t].batch = b /\ thread'[t].held = r /\ thread'[t].pc = pc
      /\ thread'[t].todo = thread[t].todo /\ thread'[t].asked = thread[t].asked
  BY <1>2, GotoThread
<1>4. RealBatch(b)' /\ RealResults(r)'
  BY <1>2, RealStays DEF IntakeInv, ThreadInv, Confirming
<1>5. DraftOf(t)' = DraftOf(t)
  BY <1>2, <1>3 DEF DraftOf, LineOf
<1>6. \A l \in thread[t].asked : HashOf(b[l]) \in confirmed'
  BY <1>2, NothingIsUndone DEF IntakeInv, ThreadInv
<1>7. ThreadInv(t)'
  <2>1. thread[t].todo \subseteq thread[t].asked
    BY DEF IntakeInv, ThreadInv
  <2> QED  BY <1>3, <1>4, <1>5, <1>6, <2>1 DEF ThreadInv
<1> QED  BY <1>1, <1>7

-----------------------------------------------------------------------------
(* The steps.                                                               *)

\* Counting codes changes nothing here.
LEMMA CountKeeps ==
    ASSUME TypeOK, IntakeInv, CountCodes
    PROVE  IntakeInv'
<1>1. Next /\ UNCHANGED <<batch, thread, erpVars, fileVars, pastVars>>
  BY DEF CountCodes, Next
<1>2. \A t \in Threads : ThreadInv(t)'
  BY <1>1, OtherThread
<1> QED  BY <1>1, <1>2, FilesKept DEF IntakeInv, erpVars, fileVars, pastVars

\* New drafts are not done.
LEMMA PrepareKeeps ==
    ASSUME TypeOK, IntakeInv, NEW from \in counted, Prepare(from)
    PROVE  IntakeInv'
<1>1. Next /\ thread' = thread /\ UNCHANGED <<erpVars, fileVars, pastVars>> /\ lines' = lines
  BY DEF Prepare, Next
<1>2. \A t \in Threads : ThreadInv(t)'
  BY <1>1, OtherThread
<1>3. \A l \in Lines : batch'[l].done = FALSE
  BY DEF Prepare
<1>4. RealBatch(batch)'
  BY <1>1, <1>3, SameLines DEF RealBatch
<1> QED  BY <1>1, <1>2, <1>4, FilesKept DEF IntakeInv, erpVars, fileVars, pastVars

\* A revision keeps the other drafts as the batch it read had them.
LEMMA ReviseKeeps ==
    ASSUME TypeOK, IntakeInv, NEW t \in Threads,
           \/ \E l \in Lines, c \in Contents : Revise(t, l, c)
           \/ ReviseStep(t)
    PROVE  IntakeInv'
<1>0. Next
  BY DEF Next
<1>1. CASE \E l \in Lines, c \in Contents : Revise(t, l, c)
  <2>1. PICK l \in Lines, c \in Contents : Revise(t, l, c)
    BY <1>1
  <2>2. PICK b \in Batch : b = batch
    BY <2>1 DEF Revise, TypeOK
  <2>3. thread'[t].pc = "put" /\ thread'[t].batch = b
    BY <2>1, <2>2 DEF Revise, TypeOK
  <2>4. RealBatch(b)'
    BY <1>0, <2>1, <2>2, RealStays DEF IntakeInv, Revise
  <2>5. \A u \in Threads \ {t} : thread'[u] = thread[u]
    BY <2>1 DEF Revise, TypeOK
  <2>6. \A u \in Threads : ThreadInv(u)'
    BY <1>0, <2>3, <2>4, <2>5, OtherThread DEF ThreadInv, Confirming
  <2> QED  BY <1>0, <2>1, <2>6, FilesKept DEF Revise, IntakeInv, erpVars, fileVars
<1>2. CASE PutRevised(t)
  <2>1. PICK b \in Batch : b = thread[t].batch
    BY <1>2, ThreadShape DEF PutRevised
  <2>2. RealBatch(b)' /\ Lines' = Lines
    BY <1>0, <1>2, <2>1, RealStays, NothingIsUndone, SameLines DEF IntakeInv, ThreadInv, PutRevised
  <2>3. RealBatch(batch)'
    BY <1>2, <2>1, <2>2, RecompiledTypes DEF RealBatch
  <2>4. \A u \in Threads : ThreadInv(u)'
    BY <1>0, <1>2, OtherThread DEF PutRevised, Return, TypeOK, ThreadInv, Idle, Confirming
  <2> QED  BY <1>0, <1>2, <2>3, <2>4, FilesKept DEF PutRevised, IntakeInv, erpVars, fileVars, pastVars
<1>3. CASE ReviseFails(t)
  <2>1. \A u \in Threads : ThreadInv(u)'
    BY <1>0, <1>3, OtherThread DEF ReviseFails, Return, TypeOK, ThreadInv, Idle, Confirming
  <2> QED  BY <1>0, <1>3, <2>1, FilesKept DEF ReviseFails, IntakeInv, erpVars, fileVars, pastVars
<1> QED  BY <1>1, <1>2, <1>3 DEF ReviseStep

\* What a confirmation takes with it was just confirmed, and the results too are real.
LEMMA ConfirmKeeps ==
    ASSUME TypeOK, IntakeInv, NEW t \in Threads, NEW q \in 1..(confirms + 1),
           NEW asked \in (SUBSET Lines) \ {{}}, Confirm(t, q, asked)
    PROVE  IntakeInv'
<1>0. Next
  BY DEF Next
<1>1. PICK b \in Batch, r \in [Requests -> Result \cup {Free}] : b = batch /\ r = results
  BY DEF Confirm, TypeOK
<1>2. /\ thread'[t].pc = "exists" /\ thread'[t].batch = b /\ thread'[t].held = r
      /\ thread'[t].asked = asked /\ thread'[t].todo = asked
  BY <1>1 DEF Confirm, TypeOK
<1>3. RealBatch(b)' /\ RealResults(r)'
  BY <1>0, <1>1, RealStays DEF IntakeInv, Confirm
<1>4. \A l \in asked : HashOf(b[l]) \in confirmed'
  BY <1>1 DEF Confirm
<1>5. \A u \in Threads \ {t} : thread'[u] = thread[u]
  BY DEF Confirm, TypeOK
<1>6. ThreadInv(t)'
  BY <1>2, <1>3, <1>4 DEF ThreadInv
<1>7. \A u \in Threads : ThreadInv(u)'
  BY <1>0, <1>5, <1>6, OtherThread
<1> QED  BY <1>0, <1>7, FilesKept DEF Confirm, IntakeInv, erpVars, fileVars

\* The steps that write to ERPNext write what was confirmed.
LEMMA WriteKeeps ==
    ASSUME TypeOK, IntakeInv, NEW t \in Threads,
           CreateItem(t) \/ CreateFails(t) \/ ReadbackFails(t)
    PROVE  IntakeInv'
<1>0. Next /\ thread[t].pc \in Confirming \ {"store"}
  BY DEF Next, ConfirmStep, CreateItem, CreateFails, ReadbackFails, Confirming
<1>1. PICK d \in Draft : d = DraftOf(t) /\ d.code \in Codes /\ d.content \in Contents
  BY <1>0, DraftAtHand
<1>2. Confirmed(d.code, d.content)
  BY <1>0, <1>1, AtHandIsConfirmed
<1>3. CASE CreateItem(t)
  <2>1. items'[d.code] = d.content
    BY <1>1, <1>3 DEF CreateItem, Written, TypeOK
  <2>2. \A u \in Threads : ThreadInv(u)'
    BY <1>0, <1>1, <1>3, <2>1, GotoKeeps DEF CreateItem, Confirming
  <2>3. \A c \in written' \ written : Confirmed(c, items'[c])
    BY <1>1, <1>2, <1>3, <2>1 DEF CreateItem
  <2> QED  BY <1>0, <1>3, <2>2, <2>3, FilesKept DEF CreateItem, IntakeInv, fileVars
<1>4. CASE ReadbackFails(t)
  <2>1. items'[d.code] = d.content
    BY <1>1, <1>4 DEF ReadbackFails, Written, TypeOK
  <2>2. \A u \in Threads : ThreadInv(u)'
    BY <1>0, <1>1, <1>4, FinishedKeeps DEF ReadbackFails
  <2>3. \A c \in written' \ written : Confirmed(c, items'[c])
    BY <1>1, <1>2, <1>4, <2>1 DEF ReadbackFails
  <2> QED  BY <1>0, <1>4, <2>2, <2>3, FilesKept DEF ReadbackFails, IntakeInv, fileVars
<1>5. CASE CreateFails(t)
  <2>1. \A u \in Threads : ThreadInv(u)'
    BY <1>0, <1>1, <1>5, FinishedKeeps DEF CreateFails
  <2>2. written' = written /\ \A m \in late' \ late : Confirmed(m.code, m.content)
    BY <1>1, <1>2, <1>5 DEF CreateFails
  <2> QED  BY <1>0, <1>5, <2>1, <2>2, FilesKept DEF CreateFails, IntakeInv, fileVars
<1> QED  BY <1>3, <1>4, <1>5

\* A draft is published only when its Item is in ERPNext with its content.
LEMMA PublishKeeps ==
    ASSUME TypeOK, IntakeInv, NEW t \in Threads,
           CheckExists(t) \/ Publish(t) \/ PublishFails(t)
    PROVE  IntakeInv'
<1>0. Next /\ thread[t].pc \in Confirming \ {"store"}
  BY DEF Next, ConfirmStep, CheckExists, Publish, PublishFails, Confirming
<1>1. PICK d \in Draft : d = DraftOf(t) /\ d.code \in Codes
  BY <1>0, DraftAtHand
<1>2. CASE CheckExists(t)
  <2>1. (\E done \in {FALSE} : Finished(t, done)) => \A u \in Threads : ThreadInv(u)'
    BY <1>0, <1>1, FinishedKeeps
  <2>2. items[d.code] = d.content /\ Goto(t, "publish") => \A u \in Threads : ThreadInv(u)'
    BY <1>0, <1>1, <1>2, GotoKeeps DEF CheckExists, Confirming, erpVars
  <2>3. Goto(t, "create") => \A u \in Threads : ThreadInv(u)'
    BY <1>0, GotoKeeps DEF Confirming
  <2>4. \A u \in Threads : ThreadInv(u)'
    BY <1>1, <1>2, <2>1, <2>2, <2>3 DEF CheckExists
  <2> QED  BY <1>0, <1>2, <2>4, FilesKept DEF CheckExists, IntakeInv, erpVars, fileVars, pastVars
<1>3. CASE Publish(t)
  <2>1. items'[d.code] = d.content /\ published' = [published EXCEPT ![d.code] = d.content]
    BY <1>1, <1>3 DEF Publish, IntakeInv, ThreadInv, Confirming, erpVars
  <2>2. Real(d)'
    BY <1>1, <2>1 DEF Real, TypeOK
  <2>3. \A u \in Threads : ThreadInv(u)'
    BY <1>0, <1>1, <1>3, <2>2, FinishedKeeps DEF Publish
  <2>4. \A c \in Codes : published'[c] # published[c] => items'[c] = published'[c]
    BY <1>1, <2>1 DEF TypeOK
  <2> QED  BY <1>0, <1>3, <2>3, <2>4, FilesKept DEF Publish, IntakeInv, erpVars, pastVars
<1>4. CASE PublishFails(t)
  <2>1. \A u \in Threads : ThreadInv(u)'
    BY <1>0, <1>1, <1>4, FinishedKeeps DEF PublishFails
  <2> QED  BY <1>0, <1>4, <2>1, FilesKept DEF PublishFails, IntakeInv, erpVars, fileVars, pastVars
<1> QED  BY <1>2, <1>3, <1>4

\* The stored copy and the stored results are real, stale or not.
LEMMA StoreKeeps ==
    ASSUME TypeOK, IntakeInv, NEW t \in Threads, StoreOutcome(t)
    PROVE  IntakeInv'
<1>0. Next
  BY DEF Next, ConfirmStep
<1>1. PICK th \in Publishing : th = thread[t]
  BY ThreadShape DEF StoreOutcome, Confirming
<1>2. th.batch \in Batch /\ th.held \in [Requests -> Result \cup {Free}] /\ th.asked \subseteq Lines
  BY <1>1 DEF Publishing, Working
<1>3. RealBatch(th.batch)' /\ RealResults(th.held)'
  BY <1>0, <1>1, <1>2, RealStays DEF IntakeInv, ThreadInv, StoreOutcome, Confirming
<1>4. Lines' = Lines
  BY <1>0, NothingIsUndone, SameLines
<1>5. \A h \in Reported(th) : Real(h)'
  <2> SUFFICES ASSUME NEW l \in th.asked, th.batch[l].done PROVE Real(HashOf(th.batch[l]))'
    BY DEF Reported
  <2>1. Real(th.batch[l])'
    BY <1>2, <1>3, <1>4 DEF RealBatch
  <2> QED  BY <2>1 DEF Real, HashOf
<1>6. batch' = th.batch /\ results' = [th.held EXCEPT ![th.request] = Reported(th)]
  BY <1>1 DEF StoreOutcome
<1>7. RealBatch(batch)'
  BY <1>3, <1>6 DEF RealBatch
<1>8. RealResults(results)'
  BY <1>2, <1>3, <1>5, <1>6 DEF RealResults
<1>9. \A u \in Threads : ThreadInv(u)'
  BY <1>0, OtherThread DEF StoreOutcome, Return, TypeOK, ThreadInv, Idle, Confirming
<1> QED  BY <1>0, <1>7, <1>8, <1>9, FilesKept DEF StoreOutcome, IntakeInv, erpVars, pastVars

\* A late creation was confirmed; Items of others and restarts touch nothing here.
LEMMA OthersKeep ==
    ASSUME TypeOK, IntakeInv, \/ \E m \in late : ErpLate(m)
                              \/ \E c \in Codes, x \in Foreign : OutsideItem(c, x)
                              \/ RestartWorkbench
    PROVE  IntakeInv'
<1>0. Next
  BY DEF Next
<1>1. ASSUME NEW m \in late, ErpLate(m) PROVE IntakeInv'
  <2>1. Confirmed(m.code, m.content) /\ m.code \in Codes
    BY DEF IntakeInv, TypeOK
  <2>2. \A c \in written' \ written : Confirmed(c, items'[c])
    BY <1>1, <2>1 DEF ErpLate, TypeOK
  <2>3. \A u \in Threads : ThreadInv(u)'
    BY <1>0, <1>1, OtherThread DEF ErpLate
  <2> QED  BY <1>0, <1>1, <2>2, <2>3, FilesKept DEF ErpLate, IntakeInv, fileVars
<1>2. ASSUME NEW c \in Codes, NEW x \in Foreign, OutsideItem(c, x) PROVE IntakeInv'
  <2>1. \A u \in Threads : ThreadInv(u)'
    BY <1>0, <1>2, OtherThread DEF OutsideItem
  <2> QED  BY <1>0, <1>2, <2>1, FilesKept DEF OutsideItem, IntakeInv, fileVars, pastVars
<1>3. CASE RestartWorkbench
  <2>1. \A u \in Threads : ThreadInv(u)'
    BY <1>3 DEF RestartWorkbench, ThreadInv, Idle, Confirming
  <2> QED  BY <1>0, <1>3, <2>1, FilesKept DEF RestartWorkbench, IntakeInv, erpVars, fileVars, pastVars
<1> QED  BY <1>1, <1>2, <1>3

LEMMA NextIntake == TypeOK /\ IntakeInv /\ [Next]_vars => IntakeInv'
<1> SUFFICES ASSUME TypeOK, IntakeInv, [Next]_vars PROVE IntakeInv'
  OBVIOUS
<1>1. CASE Next
  BY <1>1, CountKeeps, PrepareKeeps, ReviseKeeps, ConfirmKeeps, WriteKeeps, PublishKeeps, StoreKeeps, OthersKeep
     DEF Next, ConfirmStep
<1>2. CASE UNCHANGED vars
  <2>1. UNCHANGED <<batch, thread, items, late, published, results, confirmed, written>>
    BY <1>2 DEF vars, erpVars, fileVars, pastVars
  <2>2. Lines' = Lines
    BY <1>2, SameLines DEF vars, boundVars
  <2>3. \A h : Real(h)' = Real(h)
    BY <2>1 DEF Real
  <2>4. /\ batch # Free => RealBatch(batch)
        /\ RealResults(results)
        /\ PublishedIsReal
        => /\ batch' # Free => RealBatch(batch)'
           /\ RealResults(results)'
           /\ PublishedIsReal'
    BY <2>1, <2>2, <2>3 DEF RealBatch, RealResults, PublishedIsReal
  <2>5. ASSUME NEW t \in Threads, ThreadInv(t) PROVE ThreadInv(t)'
    <3>1. DraftOf(t)' = DraftOf(t)
      BY <2>1 DEF DraftOf, LineOf
    <3> QED  BY <2>1, <2>2, <2>3, <2>5, <3>1 DEF ThreadInv, RealBatch, RealResults
  <2> QED  BY <2>1, <2>4, <2>5 DEF IntakeInv, Confirmed
<1> QED  BY <1>1, <1>2

THEOREM IntakeInductive == Spec => []IntakeInv
<1> QED  BY InitIntake, NextIntake, TypeCorrect, PTL DEF Spec

\* Every Item the intake wrote says what a confirmed draft of its code said.
THEOREM WrittenConfirmed == Spec => []WrittenAsConfirmed
<1>1. IntakeInv => WrittenAsConfirmed
  BY DEF IntakeInv, WrittenAsConfirmed, Confirmed
<1> QED  BY <1>1, IntakeInductive, PTL

\* A published code has its Item in ERPNext, with the published content.
THEOREM PublishedReal == Spec => []PublishedIsReal
<1>1. IntakeInv => PublishedIsReal
  BY DEF IntakeInv
<1> QED  BY <1>1, IntakeInductive, PTL

\* What a batch or a remembered result calls created is in ERPNext and published.
THEOREM ReportedReal == Spec => []ReportedIsReal
<1>1. IntakeInv => ReportedIsReal
  BY DEF IntakeInv, ReportedIsReal, RealBatch, RealResults
<1> QED  BY <1>1, IntakeInductive, PTL

-----------------------------------------------------------------------------
(* A published draft stays as it is.                                        *)

\* A draft has its line in its batch, and was compiled; so were the published ones.
\* The draft a revision is about is not done.
Placed(b) == \A l \in Lines : b[l].line = l /\ b[l].id <= compiled

\* A batch calls a published draft done, and has it as it was published.
Keeps(b) ==
    \A l \in Lines : \A h \in produced :
        h.id = b[l].id /\ h.line = b[l].line => b[l].done /\ h = HashOf(b[l])

PlacedInv ==
    /\ batch # Free => Placed(batch)
    /\ \A t \in Threads :
           /\ thread[t].pc # "idle" => Placed(thread[t].batch)
           /\ thread[t].pc = "put" => ~thread[t].batch[thread[t].line].done
    /\ \A h \in produced : h.id <= compiled

\* A confirmation at work has no company, so that the copy it will store is the
\* only one that counts; without one, it is the batch that does, and the copies of
\* the revisions.  What is still to do is not done.
AloneInv ==
    /\ \A g, h \in produced : g.id = h.id /\ g.line = h.line => g = h
    /\ \A t, u \in Threads : thread[t].pc \in Confirming /\ u # t => thread[u].pc = "idle"
    /\ \A t \in Threads : thread[t].pc # "idle" => Keeps(thread[t].batch)
    /\ \A t \in Threads : thread[t].pc \in Confirming =>
           \A l \in thread[t].todo : ~thread[t].batch[l].done
    /\ (\A t \in Threads : thread[t].pc \notin Confirming) /\ batch # Free => Keeps(batch)

DraftInv == PlacedInv /\ (~overlap /\ ~again => AloneInv)

LEMMA InitDrafts == Init => DraftInv
<1> QED  BY DEF Init, DraftInv, PlacedInv, AloneInv, Idle, Confirming

\* Copies that do not move stay placed while nothing is forgotten to be compiled.
LEMMA PlacedStays ==
    ASSUME TypeOK, lines' = lines, compiled' \in Nat, compiled <= compiled'
    PROVE  /\ \A b \in Batch : Placed(b) => Placed(b)'
           /\ \A h \in Hash : h.id <= compiled => h.id <= compiled'
<1>0. compiled \in Nat /\ \A b \in Batch : \A l \in Lines : b[l].id \in Nat
  BY IntakeBoundsAssumption DEF TypeOK, Batch, Draft
<1> QED  BY <1>0, SameLines, IntakeBoundsAssumption DEF Placed, Hash

\* A draft that ends keeps its place, and is not done before.
LEMMA FinishedCopy ==
    ASSUME TypeOK, DraftInv, NEW t \in Threads, thread[t].pc \in Confirming \ {"store"},
           NEW done \in BOOLEAN, Finished(t, done), lines' = lines, compiled' = compiled
    PROVE  \E b, m \in Batch, l \in Lines :
              /\ b = thread[t].batch /\ m = thread'[t].batch /\ l = LineOf(t)
              /\ Placed(b) /\ Placed(m)'
              /\ \A k \in Lines : HashOf(m[k]) = HashOf(b[k]) /\ m[k].id = b[k].id
                                  /\ m[k].line = k /\ b[k].line = k
                                  /\ m[k].done = IF k = l THEN done ELSE b[k].done
              /\ l \in thread[t].todo
<1>1. PICK b \in Batch, l \in Lines : b = thread[t].batch /\ l = LineOf(t)
  BY ThreadShape, LineAtHand DEF Confirming
<1>2. PICK m \in Batch : m = Marked(b, l, done)
  BY MarkedBatch
<1>3. m = thread'[t].batch
  BY <1>1, <1>2, FinishedThread
<1>4. \A k \in Lines : HashOf(m[k]) = HashOf(b[k]) /\ m[k].done = IF k = l THEN done ELSE b[k].done
  BY <1>2, MarkedBatch
<1>5. Placed(b)
  BY <1>1 DEF DraftInv, PlacedInv, Confirming
<1>6. \A k \in Lines : m[k].id = b[k].id /\ m[k].line = b[k].line
  BY <1>4 DEF HashOf
<1>7. Placed(m)'
  BY <1>5, <1>6, SameLines DEF Placed
<1> QED  BY <1>1, <1>3, <1>4, <1>5, <1>6, <1>7, LineAtHand DEF Placed

\* A confirmation that moves on, or whose draft at hand fails.
LEMMA MovesKeepDrafts ==
    ASSUME TypeOK, DraftInv, NEW t \in Threads, thread[t].pc \in Confirming \ {"store"},
           UNCHANGED <<batch, produced, compiled, overlap, again, lines>>,
           Finished(t, FALSE) \/ Goto(t, "publish") \/ Goto(t, "create")
    PROVE  DraftInv'
<1>0. Lines' = Lines
  BY SameLines
<1>1. CASE Finished(t, FALSE)
  <2>1. PICK b, m \in Batch, l \in Lines :
              /\ b = thread[t].batch /\ m = thread'[t].batch /\ l = LineOf(t)
              /\ Placed(b) /\ Placed(m)'
              /\ \A k \in Lines : HashOf(m[k]) = HashOf(b[k]) /\ m[k].id = b[k].id
                                  /\ m[k].line = k /\ b[k].line = k
                                  /\ m[k].done = IF k = l THEN FALSE ELSE b[k].done
              /\ l \in thread[t].todo
    BY <1>1, FinishedCopy
  <2>2. /\ \A u \in Threads \ {t} : thread'[u] = thread[u]
        /\ thread'[t].pc \in Confirming
        /\ thread'[t].todo = thread[t].todo \ {l}
        /\ thread[t].todo \subseteq Lines
    BY <1>1, <2>1, FinishedThread, ThreadShape DEF Confirming, Publishing, Working
  <2>3. PlacedInv'
    BY <1>0, <2>1, <2>2 DEF DraftInv, PlacedInv, Placed, Confirming
  <2>4. ASSUME ~overlap, ~again PROVE AloneInv'
    <3>1. AloneInv /\ ~b[l].done /\ Keeps(b)
      BY <2>1, <2>4 DEF DraftInv, AloneInv, Confirming
    <3>2. Keeps(m)'
      <4> SUFFICES ASSUME NEW k \in Lines, NEW h \in produced,
                          h.id = m[k].id, h.line = m[k].line
                   PROVE  m[k].done /\ h = HashOf(m[k])
        BY <1>0 DEF Keeps
      <4>1. m[k].id = b[k].id /\ m[k].line = b[k].line
        BY <2>1, Zenon
      <4>2. h.id = b[k].id /\ h.line = b[k].line
        BY <4>1
      <4>3. b[k].done /\ h = HashOf(b[k]) /\ k # l
        BY <3>1, <4>2 DEF Keeps
      <4> QED  BY <2>1, <4>3
    <3>3. \A u \in Threads \ {t} : thread'[u].pc = "idle"
      BY <2>2, <3>1 DEF AloneInv
    <3>4. \A k \in thread'[t].todo : ~m[k].done
      BY <2>1, <2>2, <3>1 DEF AloneInv
    <3> QED  BY <2>1, <2>2, <3>1, <3>2, <3>3, <3>4 DEF AloneInv, Confirming
  <2> QED  BY <2>3, <2>4 DEF DraftInv
<1>2. CASE Goto(t, "publish") \/ Goto(t, "create")
  <2>1. /\ \A u \in Threads \ {t} : thread'[u] = thread[u]
        /\ thread'[t].pc \in Confirming /\ thread'[t].pc # "idle"
        /\ thread'[t].todo = thread[t].todo
        /\ thread'[t].batch = thread[t].batch
    BY <1>2, GotoThread DEF Confirming
  <2>2. PlacedInv'
    BY <1>0, <2>1 DEF DraftInv, PlacedInv, Placed, Confirming
  <2>3. ASSUME ~overlap, ~again PROVE AloneInv'
    BY <1>0, <2>1, <2>3 DEF DraftInv, AloneInv, Keeps, Confirming
  <2> QED  BY <2>2, <2>3 DEF DraftInv
<1> QED  BY <1>1, <1>2

\* A publication adds a draft that was not published: it was not done in the only
\* copy that counts, which has it as it is from now on.
LEMMA PublishKeepsDrafts ==
    ASSUME TypeOK, DraftInv, NEW t \in Threads, Publish(t)
    PROVE  DraftInv'
<1>0. /\ UNCHANGED <<batch, compiled, overlap, again, lines>>
      /\ thread[t].pc \in Confirming \ {"store"} /\ Finished(t, TRUE)
      /\ produced' = produced \cup {HashOf(DraftOf(t))}
  BY DEF Publish, boundVars, Confirming
<1>1. Lines' = Lines
  BY <1>0, SameLines
<1>2. PICK b, m \in Batch, l \in Lines :
            /\ b = thread[t].batch /\ m = thread'[t].batch /\ l = LineOf(t)
            /\ Placed(b) /\ Placed(m)'
            /\ \A k \in Lines : HashOf(m[k]) = HashOf(b[k]) /\ m[k].id = b[k].id
                                /\ m[k].line = k /\ b[k].line = k
                                /\ m[k].done = IF k = l THEN TRUE ELSE b[k].done
            /\ l \in thread[t].todo
  BY <1>0, FinishedCopy
<1>3. /\ \A u \in Threads \ {t} : thread'[u] = thread[u]
      /\ thread'[t].pc \in Confirming
      /\ thread'[t].todo = thread[t].todo \ {l}
      /\ thread[t].todo \subseteq Lines
  BY <1>0, <1>2, FinishedThread, ThreadShape DEF Confirming, Publishing, Working
<1>4. PICK n : n = HashOf(b[l])
  OBVIOUS
<1>5. /\ produced' = produced \cup {n}
      /\ n.id = b[l].id /\ n.line = l /\ n = HashOf(m[l])
  BY <1>0, <1>2, <1>4 DEF DraftOf, HashOf
<1>6. PlacedInv'
  <2>1. n.id <= compiled
    BY <1>2, <1>5 DEF Placed
  <2> QED  BY <1>0, <1>1, <1>2, <1>3, <1>5, <2>1 DEF DraftInv, PlacedInv, Placed, Confirming
<1>7. ASSUME ~overlap, ~again PROVE AloneInv'
  <2>1. AloneInv /\ ~b[l].done /\ Keeps(b)
    BY <1>0, <1>2, <1>7 DEF DraftInv, AloneInv, Confirming
  <2>2. ASSUME NEW h \in produced, h.id = n.id, h.line = n.line PROVE FALSE
    <3>1. h.id = b[l].id /\ h.line = b[l].line
      BY <1>2, <1>5, <2>2
    <3> QED  BY <2>1, <3>1 DEF Keeps
  <2>3. Keeps(m)'
    <3> SUFFICES ASSUME NEW k \in Lines, NEW h \in produced',
                        h.id = m[k].id, h.line = m[k].line
                 PROVE  m[k].done /\ h = HashOf(m[k])
      BY <1>0, <1>1 DEF Keeps
    <3>1. h.id = b[k].id /\ h.line = b[k].line /\ h.line = k
      BY <1>2
    <3>2. CASE h = n
      <4>1. k = l
        BY <1>5, <3>1, <3>2
      <4> QED  BY <1>2, <1>5, <3>2, <4>1
    <3>3. CASE h # n
      <4>1. b[k].done /\ h = HashOf(b[k])
        BY <1>5, <2>1, <3>1, <3>3 DEF Keeps
      <4> QED  BY <1>2, <4>1
    <3> QED  BY <3>2, <3>3
  <2>4. \A u \in Threads \ {t} : thread'[u].pc = "idle"
    BY <1>0, <1>3, <2>1 DEF AloneInv
  <2>5. \A k \in thread'[t].todo : ~m[k].done
    BY <1>0, <1>2, <1>3, <2>1 DEF AloneInv
  <2>6. \A g, h \in produced' : g.id = h.id /\ g.line = h.line => g = h
    BY <1>5, <2>1, <2>2 DEF AloneInv
  <2> QED  BY <1>2, <1>3, <2>3, <2>4, <2>5, <2>6 DEF AloneInv, Confirming
<1> QED  BY <1>0, <1>6, <1>7 DEF DraftInv

\* New drafts have ids of their own.
LEMMA PrepareKeepsDrafts ==
    ASSUME TypeOK, DraftInv, NEW from \in counted, Prepare(from)
    PROVE  DraftInv'
<1>0. /\ UNCHANGED <<thread, produced, overlap, again, lines>>
      /\ compiled' = compiled + lines
      /\ \A l \in Lines : batch'[l].id = compiled + 1 /\ batch'[l].line = l
  BY DEF Prepare, pastVars
<1>1. compiled \in Nat /\ lines \in Nat /\ lines >= 1
  BY IntakeBoundsAssumption DEF TypeOK
<1>2. Lines' = Lines
  BY <1>0, SameLines
<1>3. Placed(batch)'
  BY <1>0, <1>1, <1>2 DEF Placed
<1>4. /\ \A b \in Batch : Placed(b) => Placed(b)'
      /\ \A h \in Hash : h.id <= compiled => h.id <= compiled'
  BY <1>0, <1>1, PlacedStays
<1>5. PlacedInv'
  BY <1>0, <1>3, <1>4, ThreadShape DEF DraftInv, PlacedInv, TypeOK
<1>6. \A h \in produced : h.id # compiled + 1
  <2> SUFFICES ASSUME NEW h \in produced PROVE h.id # compiled + 1
    OBVIOUS
  <2>1. h.id \in Nat /\ h.id <= compiled
    BY IntakeBoundsAssumption DEF DraftInv, PlacedInv, TypeOK, Hash
  <2> QED  BY <1>1, <2>1
<1>7. Keeps(batch)'
  BY <1>0, <1>2, <1>6 DEF Keeps
<1>8. ASSUME ~overlap, ~again PROVE AloneInv'
  BY <1>0, <1>2, <1>7, <1>8 DEF DraftInv, AloneInv, Keeps
<1> QED  BY <1>0, <1>5, <1>8 DEF DraftInv

\* A revision is of a draft that is not done, hence of one that is not published.
LEMMA ReviseKeepsDrafts ==
    ASSUME TypeOK, DraftInv, NEW t \in Threads,
           \/ \E l \in Lines, c \in Contents : Revise(t, l, c)
           \/ ReviseStep(t)
    PROVE  DraftInv'
<1>1. ASSUME NEW l \in Lines, NEW c \in Contents, Revise(t, l, c) PROVE DraftInv'
  <2>0. /\ UNCHANGED <<batch, produced, compiled, again, lines>>
        /\ batch # Free /\ thread[t].pc = "idle" /\ ~batch[l].done
        /\ overlap' = (overlap \/ \E u \in Threads : thread[u].pc \notin {"idle", "put"})
    BY <1>1 DEF Revise, boundVars
  <2>1. PICK b \in Batch : b = batch
    BY <2>0 DEF TypeOK
  <2>2. /\ \A u \in Threads \ {t} : thread'[u] = thread[u]
        /\ thread'[t].pc = "put" /\ thread'[t].batch = b
        /\ thread'[t].line = l
    BY <1>1, <2>1 DEF Revise, TypeOK
  <2>3. Lines' = Lines
    BY <2>0, SameLines
  <2>4. PlacedInv'
    BY <2>0, <2>1, <2>2, <2>3 DEF DraftInv, PlacedInv, Placed
  <2>5. ASSUME ~overlap', ~again' PROVE AloneInv'
    <3>1. AloneInv /\ \A u \in Threads : thread[u].pc \notin Confirming
      BY <2>0, <2>5 DEF DraftInv, Confirming
    <3>2. \A u \in Threads : thread'[u].pc \notin Confirming
      BY <2>2, <3>1 DEF Confirming
    <3>3. Keeps(b) /\ Keeps(b)'
      BY <2>0, <2>1, <2>3, <3>1 DEF AloneInv, Keeps
    <3> QED  BY <2>0, <2>1, <2>2, <2>3, <3>1, <3>2, <3>3 DEF AloneInv, Keeps
  <2> QED  BY <2>4, <2>5 DEF DraftInv
<1>2. CASE PutRevised(t)
  <2>0. /\ UNCHANGED <<produced, compiled, overlap, again, lines>>
        /\ thread[t].pc = "put"
    BY <1>2 DEF PutRevised, pastVars, boundVars
  <2>1. thread[t] \in Revising
    BY <2>0, ThreadShape
  <2>2. PICK b \in Batch, l \in Lines, c \in Contents : b = thread[t].batch /\ l = thread[t].line
                                                        /\ c = thread[t].content
    BY <2>1 DEF Revising
  <2>3. \A u \in Threads : thread'[u] = IF u = t THEN Idle ELSE thread[u]
    BY <1>2 DEF PutRevised, Return, TypeOK
  <2>4. Lines' = Lines
    BY <2>0, SameLines
  <2>5. PICK n \in Codes : batch' = Recompiled(b, l, n, c)
    BY <1>2, <2>2 DEF PutRevised
  <2>6. \A k \in Lines : /\ k # l => batch'[k] = b[k]
                         /\ batch'[k].id = b[k].id
                         /\ k = l => batch'[k].line = l
    BY <2>2, <2>5 DEF Recompiled, Batch
  <2>7. Placed(b) /\ Placed(batch)'
    BY <2>0, <2>2, <2>4, <2>6 DEF DraftInv, PlacedInv, Placed
  <2>8. PlacedInv'
    BY <2>0, <2>3, <2>4, <2>7 DEF DraftInv, PlacedInv, Placed, Idle
  <2>9. ASSUME ~overlap, ~again PROVE AloneInv'
    <3>1. AloneInv /\ Keeps(b)
      BY <2>0, <2>2, <2>9 DEF DraftInv, AloneInv
    <3>2. ~b[l].done
      BY <2>0, <2>2 DEF DraftInv, PlacedInv
    <3>3. Keeps(batch)'
      <4> SUFFICES ASSUME NEW k \in Lines, NEW h \in produced,
                          h.id = batch'[k].id, h.line = batch'[k].line
                   PROVE  batch'[k].done /\ h = HashOf(batch'[k])
        BY <2>0, <2>4 DEF Keeps, HashOf
      <4>1. h.id = b[k].id /\ h.line = b[k].line
        BY <2>6, <2>7 DEF Placed
      <4>2. b[k].done /\ h = HashOf(b[k]) /\ k # l
        BY <3>1, <3>2, <4>1 DEF Keeps
      <4> QED  BY <2>6, <4>2
    <3> QED  BY <2>0, <2>3, <2>4, <3>1, <3>3 DEF AloneInv, Keeps, Idle, Confirming
  <2> QED  BY <2>0, <2>8, <2>9 DEF DraftInv
<1>3. CASE ReviseFails(t)
  <2>0. /\ UNCHANGED <<batch, produced, compiled, overlap, again, lines>>
        /\ \A u \in Threads : thread'[u] = IF u = t THEN Idle ELSE thread[u]
        /\ thread[t].pc = "put"
    BY <1>3 DEF ReviseFails, Return, TypeOK, pastVars, boundVars
  <2>1. Lines' = Lines
    BY <2>0, SameLines
  <2>2. PlacedInv'
    BY <2>0, <2>1 DEF DraftInv, PlacedInv, Placed, Idle
  <2>3. ASSUME ~overlap, ~again PROVE AloneInv'
    BY <2>0, <2>1, <2>3 DEF DraftInv, AloneInv, Keeps, Idle, Confirming
  <2> QED  BY <2>0, <2>2, <2>3 DEF DraftInv
<1> QED  BY <1>1, <1>2, <1>3 DEF ReviseStep

\* A confirmation without company works on the batch as it is, and on drafts that
\* are not done.
LEMMA ConfirmKeepsDrafts ==
    ASSUME TypeOK, DraftInv, NEW t \in Threads, NEW q \in 1..(confirms + 1),
           NEW asked \in (SUBSET Lines) \ {{}}, Confirm(t, q, asked)
    PROVE  DraftInv'
<1>0. /\ UNCHANGED <<batch, produced, compiled, lines>>
      /\ batch # Free /\ thread[t].pc = "idle"
      /\ overlap' = (overlap \/ \E u \in Threads : thread[u].pc # "idle")
      /\ again' = (again \/ \E l \in asked : batch[l].done)
  BY DEF Confirm
<1>1. PICK b \in Batch : b = batch
  BY <1>0 DEF TypeOK
<1>2. /\ \A u \in Threads \ {t} : thread'[u] = thread[u]
      /\ thread'[t].pc = "exists" /\ thread'[t].batch = b /\ thread'[t].todo = asked
  BY <1>1 DEF Confirm, TypeOK
<1>3. Lines' = Lines
  BY <1>0, SameLines
<1>4. PlacedInv'
  BY <1>0, <1>1, <1>2, <1>3 DEF DraftInv, PlacedInv, Placed
<1>5. ASSUME ~overlap', ~again' PROVE AloneInv'
  <2>1. AloneInv /\ (\A u \in Threads : thread[u].pc = "idle") /\ \A l \in asked : ~b[l].done
    BY <1>0, <1>1, <1>5 DEF DraftInv
  <2>2. Keeps(b)'
    BY <1>0, <1>1, <1>3, <2>1 DEF AloneInv, Keeps, Confirming
  <2>3. \A u \in Threads \ {t} : thread'[u].pc = "idle"
    BY <1>2, <2>1
  <2> QED  BY <1>0, <1>2, <2>1, <2>2, <2>3 DEF AloneInv, Confirming
<1> QED  BY <1>4, <1>5 DEF DraftInv

\* The copy that is stored is the one that counted.
LEMMA StoreKeepsDrafts ==
    ASSUME TypeOK, DraftInv, NEW t \in Threads, StoreOutcome(t)
    PROVE  DraftInv'
<1>0. /\ UNCHANGED <<produced, compiled, overlap, again, lines>>
      /\ \A u \in Threads : thread'[u] = IF u = t THEN Idle ELSE thread[u]
      /\ thread[t].pc = "store" /\ batch' = thread[t].batch
  BY DEF StoreOutcome, Return, TypeOK, pastVars, boundVars
<1>1. Lines' = Lines
  BY <1>0, SameLines
<1>2. PlacedInv'
  BY <1>0, <1>1 DEF DraftInv, PlacedInv, Placed, Idle
<1>3. ASSUME ~overlap, ~again PROVE AloneInv'
  BY <1>0, <1>1, <1>3 DEF DraftInv, AloneInv, Keeps, Idle, Confirming
<1> QED  BY <1>0, <1>2, <1>3 DEF DraftInv

\* ERPNext, others and the counting of codes touch no draft, a restart forgets all.
LEMMA OthersKeepDrafts ==
    ASSUME TypeOK, DraftInv, \/ \E m \in late : ErpLate(m)
                             \/ \E c \in Codes, x \in Foreign : OutsideItem(c, x)
                             \/ RestartWorkbench
                             \/ CountCodes
                             \/ UNCHANGED vars
    PROVE  DraftInv'
<1>1. CASE \/ CountCodes
           \/ \E m \in late : ErpLate(m)
           \/ \E c \in Codes, x \in Foreign : OutsideItem(c, x)
           \/ UNCHANGED vars
  <2>1. UNCHANGED <<batch, thread, produced, compiled, overlap, again, lines>>
    BY <1>1 DEF CountCodes, ErpLate, OutsideItem, vars, pastVars, boundVars
  <2>2. Lines' = Lines
    BY <2>1, SameLines
  <2> QED  BY <2>1, <2>2 DEF DraftInv, PlacedInv, AloneInv, Placed, Keeps
<1>2. CASE RestartWorkbench
  <2>1. /\ UNCHANGED <<produced, compiled, overlap, again>>
        /\ batch' = Free /\ \A t \in Threads : thread'[t].pc = "idle"
    BY <1>2 DEF RestartWorkbench, pastVars, Idle
  <2> QED  BY <2>1 DEF DraftInv, PlacedInv, AloneInv, Confirming
<1> QED  BY <1>1, <1>2

LEMMA NextDrafts == TypeOK /\ DraftInv /\ [Next]_vars => DraftInv'
<1> SUFFICES ASSUME TypeOK, DraftInv, [Next]_vars PROVE DraftInv'
  OBVIOUS
<1>1. ASSUME NEW t \in Threads, ConfirmStep(t) PROVE DraftInv'
  <2>1. CASE CheckExists(t) \/ CreateItem(t) \/ CreateFails(t) \/ ReadbackFails(t) \/ PublishFails(t)
    <3>1. /\ thread[t].pc \in Confirming \ {"store"}
          /\ UNCHANGED <<batch, produced, compiled, overlap, again, lines>>
          /\ Finished(t, FALSE) \/ Goto(t, "publish") \/ Goto(t, "create")
      BY <2>1 DEF CheckExists, CreateItem, CreateFails, ReadbackFails, PublishFails, Confirming,
                  pastVars, boundVars
    <3> QED  BY <3>1, MovesKeepDrafts
  <2> QED  BY <1>1, <2>1, PublishKeepsDrafts, StoreKeepsDrafts DEF ConfirmStep
<1> QED  BY <1>1, PrepareKeepsDrafts, ReviseKeepsDrafts, ConfirmKeepsDrafts, OthersKeepDrafts DEF Next

THEOREM DraftsInductive == Spec => []DraftInv
<1> QED  BY InitDrafts, NextDrafts, TypeCorrect, PTL DEF Spec

\* A draft is published once and stays what it was then, as long as no
\* confirmation has company and none takes a draft that is done.
THEOREM PublishedOnce == Spec => []PublishedAsOne
<1>1. DraftInv => PublishedAsOne
  BY DEF DraftInv, AloneInv, PublishedAsOne
<1> QED  BY <1>1, DraftsInductive, PTL
=============================================================================
