---------------------------- MODULE AgentRunProofs ----------------------------
(***************************************************************************)
(* Proofs about AgentRun for any runs, confirmations, pages, capacity and  *)
(* number of restarts.                                                     *)
(***************************************************************************)
EXTENDS AgentRun, FiniteSetTheorems, TLAPS

-----------------------------------------------------------------------------
(* Types.                                                                   *)

LEMMA InitTypes == Init => TypeOK
<1> SUFFICES ASSUME Init PROVE TypeOK
  OBVIOUS
<1>1. record \in [Runs -> Record] /\ call \in [Confirms -> Call] /\ page \in [Pages -> Page]
  BY DEF Init, Record, Call, Page, OrNone
<1>2. answer \in [Runs -> [status : {"none"} \cup Terminal, op : OrNone(Runs)]]
  BY DEF Init, OrNone
<1>3. run \in [Runs -> RunPC] /\ \A r \in Runs : run[r] \notin {"save", "report"}
  BY DEF Init, RunPC
<1> QED  BY <1>1, <1>2, <1>3 DEF Init, TypeOK, OrNone

\* The place of a new record is a natural number, because the runs are finitely many.
LEMMA PlaceIsNat == Cardinality({q \in Runs : run[q] # "none"}) + 1 \in Nat
<1>1. IsFiniteSet({q \in Runs : run[q] # "none"})
  BY RunsAssumption, FS_Subset, {q \in Runs : run[q] # "none"} \subseteq Runs
<1> QED  BY <1>1, FS_CardinalityType

\* Every way a record changes keeps it a record.
LEMMA RecordTypes ==
    ASSUME TypeOK, NEW r \in Runs
    PROVE  /\ ShowProgress(r) \in [Runs -> Record]
           /\ \A s \in Terminal : Reported(r, s) \in [Runs -> Record]
<1> DEFINE c == record[r]
<1>1. c \in Record
  BY DEF TypeOK
<1>2. [c EXCEPT !.stage = "working"] \in Record
  <2> HIDE DEF c
  <2> QED  BY <1>1 DEF Record
<1>3. ASSUME NEW s \in Terminal
      PROVE  [c EXCEPT !.status = s, !.stage = s] \in Record
  <2> HIDE DEF c
  <2> QED  BY <1>1, <1>3 DEF Record
<1>4. \A e \in Record : [record EXCEPT ![r] = e] \in [Runs -> Record]
  BY DEF TypeOK
<1>5. ShowProgress(r) \in {record, [record EXCEPT ![r] = [c EXCEPT !.stage = "working"]]}
  BY Zenon DEF ShowProgress
<1>6. ASSUME NEW s \in Terminal
      PROVE  Reported(r, s) \in [Runs -> Record]
  <2> DEFINE e == [c EXCEPT !.status = s, !.stage = s]
  <2>1. e \in Record
    BY <1>3
  <2>2. Reported(r, s) \in {record, [record EXCEPT ![r] = e]}
    BY Zenon DEF Reported
  <2> HIDE DEF e
  <2> QED  BY <1>4, <2>1, <2>2 DEF TypeOK
<1> HIDE DEF c
<1>7. ShowProgress(r) \in [Runs -> Record]
  BY <1>2, <1>4, <1>5 DEF TypeOK
<1> QED  BY <1>6, <1>7

LEMMA RunTypes ==
    ASSUME TypeOK, NEW r \in Runs, RunStep(r) \/ TurnPrepares(r) \/ AdvanceStage(r)
    PROVE  TypeOK'
<1> USE RecordTypes
<1>1. CASE LaunchOpenClaw(r)
  BY <1>1 DEF LaunchOpenClaw, Goto, TypeOK, RunPC, OrNone, apiVars, pastVars
<1>2. CASE OpenClawReplied(r)
  BY <1>2 DEF OpenClawReplied, Goto, TypeOK, RunPC, OrNone, Terminal, apiVars, pastVars
<1>3. CASE RunFails(r)
  BY <1>3 DEF RunFails, Goto, TypeOK, RunPC, OrNone, Terminal, agentVars, apiVars, pastVars
<1>4. CASE SaveTurn(r)
  BY <1>4 DEF SaveTurn, Goto, TypeOK, RunPC, OrNone, agentVars, apiVars, pastVars
<1>5. CASE Report(r)
  <2>1. CASE answer[r].status \in Terminal
    BY <1>5, <2>1 DEF Report, Goto, TypeOK, RunPC, OrNone, agentVars, apiVars, pastVars
  <2> QED  BY <1>5, <2>1 DEF Report, Goto, TypeOK
<1>6. CASE TurnPrepares(r)
  BY <1>6 DEF TurnPrepares, TypeOK, OrNone, threadVars, pastVars
<1>7. CASE AdvanceStage(r)
  BY <1>7 DEF AdvanceStage, TypeOK, threadVars, agentVars, apiVars, pastVars
<1> QED  BY <1>1, <1>2, <1>3, <1>4, <1>5, <1>6, <1>7 DEF RunStep

\* A page that shows another card and waits for something else is a page.
LEMMA PageFields ==
    ASSUME NEW e \in Page, NEW card \in OrNone(Runs), NEW waits \in OrNone(Runs \cup Confirms)
    PROVE  /\ [e EXCEPT !.waits = waits] \in Page
           /\ [e EXCEPT !.waits = waits, !.card = card] \in Page
<1> QED  BY DEF Page

LEMMA EndsTypes ==
    ASSUME TypeOK, NEW x
    PROVE  /\ Ends(page, x, Keeps) \in [Pages -> Page]
           /\ Ends(page, x, Clears) \in [Pages -> Page]
<1> SUFFICES ASSUME NEW p \in Pages
             PROVE  /\ Ends(page, x, Keeps)[p] \in Page
                    /\ Ends(page, x, Clears)[p] \in Page
  BY Zenon DEF Ends
<1> DEFINE e == page[p]
           k == [e EXCEPT !.waits = None, !.card = e.card]
           d == [e EXCEPT !.waits = None, !.card = None]
<1>1. e \in Page
  BY DEF TypeOK
<1>2. k \in Page /\ d \in Page
  <2> HIDE DEF e
  <2>1. e.card \in OrNone(Runs)
    BY <1>1 DEF Page
  <2> QED  BY <1>1, <2>1, PageFields DEF OrNone
<1>3. Ends(page, x, Keeps)[p] \in {e, k} /\ Ends(page, x, Clears)[p] \in {e, d}
  BY Zenon DEF Ends, Keeps, Clears
<1> HIDE DEF e, k, d
<1> QED  BY <1>1, <1>2, <1>3

\* One page changes what it shows and waits for.
LEMMA OnePageTypes ==
    ASSUME TypeOK, NEW p \in Pages, NEW card \in OrNone(Runs),
           NEW waits \in OrNone(Runs \cup Confirms)
    PROVE  /\ [page EXCEPT ![p].waits = waits] \in [Pages -> Page]
           /\ [page EXCEPT ![p].waits = waits, ![p].card = card] \in [Pages -> Page]
<1> DEFINE e == page[p]
           w == [e EXCEPT !.waits = waits]
           d == [e EXCEPT !.waits = waits, !.card = card]
<1>1. w \in Page /\ d \in Page
  <2>1. e \in Page
    BY DEF TypeOK
  <2> HIDE DEF e
  <2> QED  BY <2>1, PageFields
<1>2. /\ [page EXCEPT ![p].waits = waits] = [page EXCEPT ![p] = w]
      /\ [page EXCEPT ![p].waits = waits, ![p].card = card] = [page EXCEPT ![p] = d]
  BY Zenon DEF TypeOK
<1> HIDE DEF e, w, d
<1> QED  BY <1>1, <1>2 DEF TypeOK

LEMMA CallTypes ==
    ASSUME TypeOK, NEW c \in Confirms, CallStep(c)
    PROVE  TypeOK'
<1>1. CASE PostPending(c)
  BY <1>1 DEF PostPending, TypeOK, Call, OrNone, threadVars, agentVars, pastVars
<1>2. CASE NothingPending(c)
  <2>1. call' \in [Confirms -> Call]
    BY <1>2 DEF NothingPending, CallTo, TypeOK, Call, OrNone
  <2>2. page' \in [Pages -> Page]
    BY <1>2, EndsTypes DEF NothingPending
  <2> QED  BY <1>2, <2>1, <2>2 DEF NothingPending, TypeOK, threadVars, agentVars, apiVars, pastVars
<1>3. CASE ConfirmFails(c)
  <2>1. call' \in [Confirms -> Call]
    BY <1>3 DEF ConfirmFails, CallTo, TypeOK, Call, OrNone
  <2>2. page' \in [Pages -> Page]
    BY <1>3, EndsTypes DEF ConfirmFails
  <2>3. call[c].op \in Runs
    BY <1>3 DEF ConfirmFails, TypeOK, Call
  <2> QED  BY <1>3, <2>1, <2>2, <2>3 DEF ConfirmFails, TypeOK, threadVars, agentVars, apiVars
<1>4. CASE SaveConfirmed(c)
  <2>1. call' \in [Confirms -> Call]
    BY <1>4 DEF SaveConfirmed, Answered, CallTo, TypeOK, Call, OrNone
  <2>2. page' \in [Pages -> Page]
    BY <1>4, EndsTypes DEF SaveConfirmed
  <2> QED  BY <1>4, <2>1, <2>2 DEF SaveConfirmed, TypeOK, OrNone, threadVars, agentVars, apiVars, pastVars
<1> QED  BY <1>1, <1>2, <1>3, <1>4 DEF CallStep

LEMMA ApiTypes ==
    ASSUME TypeOK, NEW c \in Confirms, ApiStep(c)
    PROVE  TypeOK'
<1>1. CASE ApiClaims(c)
  BY <1>1 DEF ApiClaims, TypeOK, threadVars, agentVars, pastVars
<1>2. CASE ApiRefuses(c)
  BY <1>2 DEF ApiRefuses, TypeOK, threadVars, agentVars, pastVars
<1>3. CASE ApiAnswersAgain(c)
  BY <1>3 DEF ApiAnswersAgain, TypeOK, threadVars, agentVars, pastVars
<1>4. CASE ApiSettles(c)
  BY <1>4 DEF ApiSettles, TypeOK, threadVars, agentVars, pastVars
<1> QED  BY <1>1, <1>2, <1>3, <1>4 DEF ApiStep

LEMMA PageTypes ==
    ASSUME TypeOK, NEW p \in Pages, PageStep(p)
    PROVE  TypeOK'
<1>1. ASSUME NEW r \in Runs, SendTurn(p, r) PROVE TypeOK'
  <2>1. record' \in [Runs -> Record]
    BY <1>1, PlaceIsNat DEF SendTurn, TypeOK, Record
  <2>2. registry' \in SUBSET Runs
    BY <1>1 DEF SendTurn, TypeOK
  <2>3. page' \in [Pages -> Page]
    BY <1>1, OnePageTypes DEF SendTurn, OrNone
  <2>4. run' \in [Runs -> RunPC]
    BY <1>1 DEF SendTurn, TypeOK, RunPC
  <2> QED  BY <1>1, <2>1, <2>2, <2>3, <2>4 DEF SendTurn, TypeOK, agentVars, apiVars, pastVars
<1>2. ASSUME NEW r \in Runs, Poll(p, r) PROVE TypeOK'
  <2>1. page' \in [Pages -> Page]
    <3>1. page[p].card \in OrNone(Runs) /\ answer[r].op \in OrNone(Runs)
      BY DEF TypeOK, Page
    <3> QED  BY <1>2, <3>1, OnePageTypes DEF Poll, OrNone
  <2> QED  BY <1>2, <2>1 DEF Poll, TypeOK, threadVars, agentVars, apiVars, pastVars
<1>3. ASSUME NEW c \in Confirms, ClickConfirm(p, c) PROVE TypeOK'
  <2>1. page' \in [Pages -> Page]
    BY <1>3, OnePageTypes DEF ClickConfirm, OrNone
  <2>2. call' \in [Confirms -> Call]
    BY <1>3 DEF ClickConfirm, TypeOK, Call
  <2> QED  BY <1>3, <2>1, <2>2 DEF ClickConfirm, TypeOK, threadVars, agentVars, apiVars, pastVars
<1>4. CASE Reload(p)
  <2>1. page' \in [Pages -> Page]
    BY <1>4, OnePageTypes DEF Reload, TypeOK, OrNone
  <2> QED  BY <1>4, <2>1 DEF Reload, TypeOK, threadVars, agentVars, apiVars, pastVars
<1>5. CASE NewConversation(p)
  <2>1. page' \in [Pages -> Page]
    BY <1>5 DEF NewConversation, TypeOK, Page, OrNone
  <2> QED  BY <1>5, <2>1 DEF NewConversation, TypeOK, OrNone, threadVars, agentVars, apiVars, pastVars
<1> QED  BY <1>1, <1>2, <1>3, <1>4, <1>5 DEF PageStep

LEMMA RestartTypes ==
    ASSUME TypeOK, RestartWorkbench
    PROVE  TypeOK'
<1>1. run' \in [Runs -> RunPC]
  BY DEF RestartWorkbench, TypeOK, RunPC
<1>2. call' \in [Confirms -> Call]
  <2> SUFFICES ASSUME NEW c \in Confirms PROVE call'[c] \in Call
    BY DEF RestartWorkbench
  <2> DEFINE e == call[c]
  <2>1. e \in Call
    BY DEF TypeOK
  <2>2. call'[c] = IF e.pc = "none" THEN e ELSE [e EXCEPT !.pc = "ended"]
    BY DEF RestartWorkbench
  <2> HIDE DEF e
  <2> QED  BY <2>1, <2>2 DEF Call, OrNone
<1>3. page' \in [Pages -> Page]
  <2> SUFFICES ASSUME NEW p \in Pages PROVE [page[p] EXCEPT !.waits = None] \in Page
    BY DEF RestartWorkbench
  <2> QED  BY PageFields DEF TypeOK, OrNone
<1>4. unheard' \in SUBSET Runs
  BY DEF RestartWorkbench, TypeOK, Call
<1>5. restarts' \in Nat
  BY DEF RestartWorkbench, TypeOK
<1> QED  BY <1>1, <1>2, <1>3, <1>4, <1>5 DEF RestartWorkbench, TypeOK, agentVars, apiVars

LEMMA NextTypes == TypeOK /\ [Next]_vars => TypeOK'
<1> SUFFICES ASSUME TypeOK, [Next]_vars PROVE TypeOK'
  OBVIOUS
<1>1. CASE Next
  BY <1>1, RunTypes, CallTypes, ApiTypes, PageTypes, RestartTypes DEF Next
<1>2. CASE UNCHANGED vars
  BY <1>2 DEF TypeOK, vars, threadVars, agentVars, apiVars, pastVars
<1> QED  BY <1>1, <1>2

\* Registry, threads, session, transcript, pages and the requests to the API always
\* have the shapes the code gives them.
THEOREM TypeCorrect == Spec => []TypeOK
<1> QED  BY InitTypes, NextTypes, PTL DEF Spec

-----------------------------------------------------------------------------
(* The registry and the outcomes.                                           *)

\* A run that was not started has no record, so that its record can be neither
\* finished nor evicted when it is inserted; a run that reports its outcome has
\* saved its turn.
RunInv ==
    /\ \A r \in Runs : run[r] = "none" => record[r].status = "absent"
    /\ LiveRunsAreRegistered
    /\ \A r \in Runs : run[r] = "report" => r \in recorded
    /\ OutcomesAreRecorded

LEMMA InitRuns == Init => RunInv
<1> QED  BY DEF Init, RunInv, LiveRunsAreRegistered, OutcomesAreRecorded, Live

\* A new label changes no status.
LEMMA ProgressStatus ==
    ASSUME TypeOK, NEW r \in Runs, NEW q \in Runs
    PROVE  /\ ShowProgress(r)[q].status = record[q].status
           /\ record[q].status \in Terminal => ShowProgress(r)[q] = record[q]
<1> DEFINE c == record[q]
           d == ShowProgress(r)[q]
           e == [c EXCEPT !.stage = "working"]
<1>1. d = c \/ (d = e /\ c.status = "running")
  BY Zenon DEF ShowProgress, TypeOK
<1>2. c \in Record
  BY DEF TypeOK
<1>3. e.status = c.status
  <2> HIDE DEF c
  <2> QED  BY <1>2 DEF Record
<1> HIDE DEF c, d, e
<1>4. d.status = c.status /\ (c.status \in Terminal => d = c)
  BY <1>1, <1>3 DEF Terminal
<1> QED  BY <1>4 DEF c, d

\* The terminal update changes the record of its run alone, and only if it is kept.
LEMMA ReportedStatus ==
    ASSUME TypeOK, NEW r \in Runs, NEW s \in Terminal, NEW q \in Runs
    PROVE  /\ q # r => Reported(r, s)[q] = record[q]
           /\ r \notin registry => Reported(r, s) = record
           /\ Reported(r, s)[q].status \in {s, record[q].status}
<1> DEFINE c == record[q]
           d == Reported(r, s)[q]
           e == [c EXCEPT !.status = s, !.stage = s]
<1>1. /\ d = c \/ (d = e /\ q = r)
      /\ r \notin registry => Reported(r, s) = record
  BY Zenon DEF Reported, TypeOK
<1>2. c \in Record
  BY DEF TypeOK
<1>3. e.status = s
  <2> HIDE DEF c
  <2> QED  BY <1>2 DEF Record
<1> HIDE DEF c, d, e
<1>4. (q # r => d = c) /\ d.status \in {s, c.status}
  BY <1>1, <1>3
<1> QED  BY <1>1, <1>4 DEF c, d

LEMMA RunStepRuns ==
    ASSUME TypeOK, RunInv, NEW r \in Runs, RunStep(r) \/ TurnPrepares(r) \/ AdvanceStage(r)
    PROVE  RunInv'
<1> USE DEF RunInv, LiveRunsAreRegistered, OutcomesAreRecorded, Live
<1>1. CASE LaunchOpenClaw(r)
  <2>1. \A q \in Runs : record'[q].status = record[q].status
    BY <1>1, ProgressStatus DEF LaunchOpenClaw
  <2> QED  BY <1>1, <2>1 DEF LaunchOpenClaw, Goto, TypeOK, RunPC, pastVars
<1>2. CASE OpenClawReplied(r)
  <2>1. \A q \in Runs : record'[q].status = record[q].status
    BY <1>2, ProgressStatus DEF OpenClawReplied
  <2> QED  BY <1>2, <2>1 DEF OpenClawReplied, Goto, TypeOK, RunPC, pastVars
<1>3. CASE RunFails(r)
  BY <1>3, ReportedStatus, "failed" \in Terminal DEF RunFails, Goto, TypeOK, RunPC, pastVars, Terminal
<1>4. CASE SaveTurn(r)
  BY <1>4 DEF SaveTurn, Goto, TypeOK, RunPC
<1>5. CASE Report(r)
  <2>1. answer[r].status \in Terminal
    BY <1>5 DEF Report, TypeOK
  <2> QED  BY <1>5, <2>1, ReportedStatus DEF Report, Goto, TypeOK, RunPC, pastVars
<1>6. CASE TurnPrepares(r)
  BY <1>6 DEF TurnPrepares, threadVars, pastVars
<1>7. CASE AdvanceStage(r)
  BY <1>7, ProgressStatus DEF AdvanceStage, threadVars, pastVars
<1> QED  BY <1>1, <1>2, <1>3, <1>4, <1>5, <1>6, <1>7 DEF RunStep

\* What is evicted is finished: neither the new run nor a live one.
LEMMA SendTurnRuns ==
    ASSUME TypeOK, RunInv, NEW p \in Pages, NEW r \in Runs, SendTurn(p, r)
    PROVE  RunInv'
<1>1. /\ run[r] = "none" /\ run' = [run EXCEPT ![r] = "begin"]
      /\ recorded' = recorded
  BY DEF SendTurn, NewRun, pastVars
<1>2. /\ record'[r].status = "running"
      /\ \A q \in Runs : q # r => record'[q] = record[q]
  BY DEF SendTurn, TypeOK
<1>3. \A q \in Runs : Live(q) \/ q = r => q \in registry'
  <2>1. \A q \in Evictable(registry \cup {r}) : record[q].status \in Terminal
    BY DEF Evictable, Finished
  <2>2. \A q \in Runs : Live(q) \/ q = r =>
           q \in registry \cup {r} /\ record[q].status \notin Terminal
    BY <1>1 DEF RunInv, LiveRunsAreRegistered, Terminal
  <2> QED  BY <2>1, <2>2 DEF SendTurn
<1> QED  BY <1>1, <1>2, <1>3 DEF RunInv, LiveRunsAreRegistered, OutcomesAreRecorded, Live, TypeOK

LEMMA NextRuns == TypeOK /\ RunInv /\ [Next]_vars => RunInv'
<1> SUFFICES ASSUME TypeOK, RunInv, [Next]_vars PROVE RunInv'
  OBVIOUS
<1> DEFINE Kept == UNCHANGED <<registry, record, run, recorded>>
<1>0. Kept => RunInv'
  BY DEF RunInv, LiveRunsAreRegistered, OutcomesAreRecorded, Live
<1>1. ASSUME NEW r \in Runs, RunStep(r) \/ TurnPrepares(r) \/ AdvanceStage(r) PROVE RunInv'
  BY <1>1, RunStepRuns
<1>2. ASSUME NEW c \in Confirms, CallStep(c) PROVE RunInv'
  <2>1. Kept
    BY <1>2 DEF CallStep, PostPending, NothingPending, ConfirmFails, SaveConfirmed, threadVars, pastVars
  <2> QED  BY <1>0, <2>1
<1>3. ASSUME NEW c \in Confirms, ApiStep(c) PROVE RunInv'
  <2>1. Kept
    BY <1>3 DEF ApiStep, ApiClaims, ApiRefuses, ApiAnswersAgain, ApiSettles, threadVars, pastVars
  <2> QED  BY <1>0, <2>1
<1>4. ASSUME NEW p \in Pages, PageStep(p) PROVE RunInv'
  <2>1. ASSUME NEW r \in Runs, SendTurn(p, r) PROVE RunInv'
    BY <2>1, SendTurnRuns
  <2>2. (\A r \in Runs : ~SendTurn(p, r)) => Kept
    BY <1>4 DEF PageStep, Poll, ClickConfirm, Reload, NewConversation, threadVars, pastVars
  <2> QED  BY <1>0, <2>1, <2>2
<1>5. CASE RestartWorkbench
  BY <1>5 DEF RestartWorkbench, RunInv, LiveRunsAreRegistered, OutcomesAreRecorded, Live, TypeOK
<1>6. CASE UNCHANGED vars
  BY <1>0, <1>6 DEF vars, threadVars, pastVars
<1> QED  BY <1>1, <1>2, <1>3, <1>4, <1>5, <1>6 DEF Next

\* However many turns there are and however small the registry, a run that is still
\* working has its record.
THEOREM LiveRunsRegistered == Spec => []LiveRunsAreRegistered
<1>1. TypeOK /\ RunInv => LiveRunsAreRegistered
  BY DEF RunInv
<1> QED  BY <1>1, InitTypes, NextTypes, InitRuns, NextRuns, PTL DEF Spec

\* An outcome a page can be told has been written to the session file.
THEOREM OutcomesRecorded == Spec => []OutcomesAreRecorded
<1>1. TypeOK /\ RunInv => OutcomesAreRecorded
  BY DEF RunInv
<1> QED  BY <1>1, InitTypes, NextTypes, InitRuns, NextRuns, PTL DEF Spec

LEMMA StepKeepsOutcomes ==
    ASSUME TypeOK, RunInv, Next
    PROVE  \A q \in Runs : record[q].status \in Terminal => record'[q] = record[q]
<1> SUFFICES ASSUME NEW q \in Runs, record[q].status \in Terminal
             PROVE  record'[q] = record[q]
  OBVIOUS
<1>1. run[q] \in {"none", "ended"} /\ run[q] # "none"
  BY DEF RunInv, LiveRunsAreRegistered, Live, Terminal
<1>2. ASSUME NEW r \in Runs, RunStep(r) \/ TurnPrepares(r) \/ AdvanceStage(r)
      PROVE  record'[q] = record[q]
  <2>1. CASE LaunchOpenClaw(r) \/ OpenClawReplied(r) \/ AdvanceStage(r)
    BY <2>1, ProgressStatus DEF LaunchOpenClaw, OpenClawReplied, AdvanceStage
  <2>2. CASE RunFails(r)
    <3>1. q # r
      BY <1>1, <2>2 DEF RunFails
    <3> QED  BY <2>2, <3>1, ReportedStatus, "failed" \in Terminal DEF RunFails, Terminal
  <2>3. CASE SaveTurn(r) \/ TurnPrepares(r)
    BY <2>3 DEF SaveTurn, TurnPrepares
  <2>4. CASE Report(r)
    <3>1. q # r /\ answer[r].status \in Terminal
      BY <1>1, <2>4 DEF Report, TypeOK
    <3> QED  BY <2>4, <3>1, ReportedStatus DEF Report
  <2> QED  BY <1>2, <2>1, <2>2, <2>3, <2>4 DEF RunStep
<1>3. ASSUME NEW c \in Confirms, CallStep(c) \/ ApiStep(c)
      PROVE  record' = record
  BY <1>3 DEF CallStep, PostPending, NothingPending, ConfirmFails, SaveConfirmed,
              ApiStep, ApiClaims, ApiRefuses, ApiAnswersAgain, ApiSettles
<1>4. ASSUME NEW p \in Pages, PageStep(p)
      PROVE  record'[q] = record[q]
  <2>1. ASSUME NEW r \in Runs, SendTurn(p, r) PROVE record'[q] = record[q]
    <3>1. q # r
      BY <1>1, <2>1 DEF SendTurn, NewRun
    <3> QED  BY <2>1, <3>1 DEF SendTurn, TypeOK
  <2>2. (\A r \in Runs : ~SendTurn(p, r)) => record' = record
    BY <1>4 DEF PageStep, Poll, ClickConfirm, Reload, NewConversation
  <2> QED  BY <2>1, <2>2
<1>5. CASE RestartWorkbench
  BY <1>5 DEF RestartWorkbench
<1> QED  BY <1>2, <1>3, <1>4, <1>5 DEF Next

\* What the registry said of a run when it ended is never overwritten: by its
\* progress thread, by a later turn or by a restart.
THEOREM OutcomesStay == Spec => TerminalForGood
<1>1. TypeOK /\ RunInv /\ [Next]_vars =>
          [\A r \in Runs : record[r].status \in Terminal => record'[r] = record[r]]_vars
  BY StepKeepsOutcomes
<1> QED  BY <1>1, InitTypes, NextTypes, InitRuns, NextRuns, PTL DEF Spec, TerminalForGood

-----------------------------------------------------------------------------
(* What the session file offers.                                            *)

\* Runs whose saved turn answered with an operation.
Answers(o) == {r \in recorded : answer[r].op = o}

\* The operation of an answer was prepared; an operation is posted, and so
\* executed, only after a turn that answered with it was saved, and what a saved
\* turn answered never changes.
AnswerInv ==
    /\ \A r \in Runs : answer[r].op # None => operation[answer[r].op] # "none"
    /\ transcript # None => operation[transcript] # "none"
    /\ \A r \in recorded : run[r] \in {"report", "ended"}
    /\ pending # None => Answers(pending) # {}
    /\ \A c \in Confirms : call[c].op # None => Answers(call[c].op) # {}
    /\ \A o \in Runs : operation[o] \notin {"none", "open"} =>
           \E c \in Confirms : call[c].op = o
    /\ \A c \in Confirms : api[c] # "none" => call[c].op # None
    /\ \A c \in Confirms : api[c] = "sent" =>
           call[c].pc = "await" \/ call[c].op \in unheard
    /\ \A c \in Confirms : api[c] = "working" =>
           operation[call[c].op] \notin {"none", "open"}

\* An operation that is offered and no longer open is accounted for.
Accounted(o) ==
    \/ \E c \in Confirms : call[c].op = o /\ call[c].pc = "await"
    \/ o \in unheard
    \/ \E r, q \in Answers(o) : r # q

OfferInv == pending # None => operation[pending] = "open" \/ Accounted(pending)

LEMMA InitAnswers == Init => AnswerInv /\ OfferInv
<1> QED  BY DEF Init, AnswerInv, OfferInv

\* What is saved stays saved, and so is what it answered with.
LEMMA SavedStays ==
    ASSUME TypeOK, AnswerInv, Next
    PROVE  \A r \in recorded : r \in recorded' /\ answer'[r] = answer[r]
<1> SUFFICES ASSUME NEW r \in recorded
             PROVE  r \in recorded' /\ answer'[r] = answer[r]
  OBVIOUS
<1>1. r \in Runs /\ run[r] \in {"report", "ended"}
  BY DEF TypeOK, AnswerInv
<1>2. ASSUME NEW q \in Runs, RunStep(q) \/ TurnPrepares(q) \/ AdvanceStage(q)
      PROVE  r \in recorded' /\ answer'[r] = answer[r]
  BY <1>1, <1>2 DEF RunStep, LaunchOpenClaw, OpenClawReplied, RunFails, SaveTurn, Report,
                    TurnPrepares, AdvanceStage, TypeOK, threadVars, pastVars
<1>3. ASSUME NEW c \in Confirms, CallStep(c) \/ ApiStep(c)
      PROVE  r \in recorded' /\ answer'[r] = answer[r]
  BY <1>3 DEF CallStep, PostPending, NothingPending, ConfirmFails, SaveConfirmed, ApiStep,
              ApiClaims, ApiRefuses, ApiAnswersAgain, ApiSettles, threadVars, pastVars
<1>4. ASSUME NEW p \in Pages, PageStep(p)
      PROVE  r \in recorded' /\ answer'[r] = answer[r]
  BY <1>4 DEF PageStep, SendTurn, Poll, ClickConfirm, Reload, NewConversation, threadVars, pastVars
<1>5. CASE RestartWorkbench
  BY <1>5 DEF RestartWorkbench
<1> QED  BY <1>2, <1>3, <1>4, <1>5 DEF Next

LEMMA AnswersGrow ==
    ASSUME TypeOK, AnswerInv, Next, NEW o
    PROVE  Answers(o) \subseteq Answers(o)'
<1> QED  BY SavedStays DEF Answers

LEMMA RunStepAnswers ==
    ASSUME TypeOK, AnswerInv, OfferInv, NEW r \in Runs,
           RunStep(r) \/ TurnPrepares(r) \/ AdvanceStage(r),
           \A o : Answers(o) \subseteq Answers(o)'
    PROVE  AnswerInv' /\ OfferInv'
<1>1. CASE LaunchOpenClaw(r)
  BY <1>1 DEF LaunchOpenClaw, Goto, AnswerInv, OfferInv, Accounted, Answers, TypeOK, apiVars, pastVars
<1>2. CASE OpenClawReplied(r)
  BY <1>2 DEF OpenClawReplied, Goto, AnswerInv, OfferInv, Accounted, Answers, TypeOK, apiVars, pastVars
<1>3. CASE RunFails(r)
  BY <1>3 DEF RunFails, Goto, AnswerInv, OfferInv, Accounted, Answers, TypeOK, agentVars, apiVars, pastVars
<1>4. CASE SaveTurn(r)
  <2> PICK o \in OrNone(Runs) : o = answer[r].op
    BY DEF TypeOK
  <2>1. AnswerInv'
    BY <1>4 DEF SaveTurn, Goto, AnswerInv, Answers, TypeOK, agentVars, apiVars, OrNone
  <2>2. r \notin recorded /\ r \in recorded' /\ pending' = o /\ operation' = operation
    BY <1>4 DEF SaveTurn, AnswerInv, apiVars
  <2>3. ASSUME o # None, operation[o] # "open"
        PROVE  \E a, b \in Answers(o)' : a # b
    <3>1. o \in Runs /\ operation[o] \notin {"none", "open"}
      BY <2>3 DEF AnswerInv, TypeOK, OrNone
    <3>2. PICK c \in Confirms : call[c].op = o
      BY <3>1 DEF AnswerInv
    <3>3. PICK q \in Runs : q \in Answers(o)
      BY <2>3, <3>2 DEF AnswerInv, Answers, TypeOK
    <3>4. q \in Answers(o)' /\ r \in Answers(o)' /\ q # r
      BY <1>4, <2>2, <3>3 DEF SaveTurn, Answers
    <3> QED  BY <3>4
  <2> QED  BY <2>1, <2>2, <2>3 DEF OfferInv, Accounted, Answers
<1>5. CASE Report(r)
  BY <1>5 DEF Report, Goto, AnswerInv, OfferInv, Accounted, Answers, TypeOK, agentVars, apiVars, pastVars
<1>6. CASE TurnPrepares(r)
  BY <1>6, NoneAssumption DEF TurnPrepares, AnswerInv, OfferInv, Accounted, Answers, TypeOK, threadVars, pastVars
<1>7. CASE AdvanceStage(r)
  BY <1>7 DEF AdvanceStage, AnswerInv, OfferInv, Accounted, Answers, TypeOK, threadVars, agentVars, apiVars, pastVars
<1> QED  BY <1>1, <1>2, <1>3, <1>4, <1>5, <1>6, <1>7 DEF RunStep

LEMMA CallStepAnswers ==
    ASSUME TypeOK, AnswerInv, OfferInv, NEW c \in Confirms, CallStep(c) \/ ApiStep(c)
    PROVE  AnswerInv' /\ OfferInv'
<1>1. CASE PostPending(c)
  <2>1. /\ call' = [call EXCEPT ![c] = [pc |-> "await", op |-> pending]]
        /\ call[c].op = None /\ pending # None
    BY <1>1 DEF PostPending, TypeOK, Call
  <2>2. AnswerInv'
    <3>1. UNCHANGED <<run, answer, operation, transcript, pending, recorded, unheard>>
      BY <1>1 DEF PostPending, threadVars, agentVars, pastVars
    <3>2. \A d \in Confirms \ {c} : call'[d] = call[d] /\ api'[d] = api[d]
      BY <1>1 DEF PostPending, TypeOK
    <3>3. call'[c].op = pending /\ call'[c].pc = "await" /\ api'[c] = "sent"
      BY <1>1, <2>1 DEF PostPending, TypeOK
    <3>4. \A o \in Runs : operation[o] \notin {"none", "open"} =>
              \E d \in Confirms : call'[d].op = o
      BY <2>1, <3>2, NoneAssumption DEF AnswerInv
    <3>5. \A d \in Confirms : call'[d].op # None => Answers(call'[d].op) # {}
      BY <2>1, <3>2, <3>3 DEF AnswerInv
    <3>6. \A d \in Confirms :
            /\ api'[d] # "none" => call'[d].op # None
            /\ api'[d] = "sent" => call'[d].pc = "await" \/ call'[d].op \in unheard
            /\ api'[d] = "working" => operation[call'[d].op] \notin {"none", "open"}
      BY <2>1, <3>2, <3>3 DEF AnswerInv
    <3> QED  BY <3>1, <3>4, <3>5, <3>6 DEF AnswerInv, Answers
  <2>3. OfferInv'
    BY <1>1, <2>1 DEF PostPending, OfferInv, Accounted, Answers, TypeOK, threadVars, pastVars
  <2> QED  BY <2>2, <2>3
<1>2. CASE NothingPending(c)
  BY <1>2 DEF NothingPending, CallTo, AnswerInv, OfferInv, Accounted, Answers, TypeOK, Call, threadVars, agentVars, apiVars, pastVars
<1>3. CASE ConfirmFails(c)
  BY <1>3 DEF ConfirmFails, CallTo, AnswerInv, OfferInv, Accounted, Answers, TypeOK, Call, threadVars, agentVars, apiVars
<1>4. CASE SaveConfirmed(c)
  BY <1>4 DEF SaveConfirmed, Answered, CallTo, AnswerInv, OfferInv, Accounted, Answers, TypeOK, Call, threadVars, agentVars, apiVars, pastVars
<1>5. CASE ApiClaims(c)
  BY <1>5 DEF ApiClaims, AnswerInv, OfferInv, Accounted, Answers, TypeOK, Call, threadVars, agentVars, pastVars
<1>6. CASE ApiRefuses(c)
  BY <1>6 DEF ApiRefuses, AnswerInv, OfferInv, Accounted, Answers, TypeOK, Call, threadVars, agentVars, pastVars
<1>7. CASE ApiAnswersAgain(c)
  BY <1>7 DEF ApiAnswersAgain, AnswerInv, OfferInv, Accounted, Answers, TypeOK, Call, threadVars, agentVars, pastVars
<1>8. CASE ApiSettles(c)
  BY <1>8 DEF ApiSettles, AnswerInv, OfferInv, Accounted, Answers, TypeOK, Call, threadVars, agentVars, pastVars
<1> QED  BY <1>1, <1>2, <1>3, <1>4, <1>5, <1>6, <1>7, <1>8 DEF CallStep, ApiStep

LEMMA PageStepAnswers ==
    ASSUME TypeOK, AnswerInv, OfferInv, NEW p \in Pages, PageStep(p)
    PROVE  AnswerInv' /\ OfferInv'
<1>1. ASSUME NEW r \in Runs, SendTurn(p, r) PROVE AnswerInv' /\ OfferInv'
  BY <1>1 DEF SendTurn, NewRun, AnswerInv, OfferInv, Accounted, Answers, TypeOK, agentVars, apiVars, pastVars
<1>2. ASSUME NEW r \in Runs, Poll(p, r) PROVE AnswerInv' /\ OfferInv'
  BY <1>2 DEF Poll, AnswerInv, OfferInv, Accounted, Answers, threadVars, agentVars, apiVars, pastVars
<1>3. ASSUME NEW c \in Confirms, ClickConfirm(p, c) PROVE AnswerInv' /\ OfferInv'
  <2>1. call[c].op = None /\ call[c].pc = "none" /\ call'[c].op = None
    BY <1>3 DEF ClickConfirm, NewCall, TypeOK, Call
  <2>2. \A d \in Confirms : call'[d].op = call[d].op /\ (call[d].pc = "await" => call'[d].pc = "await")
    BY <1>3, <2>1 DEF ClickConfirm, TypeOK
  <2>3. UNCHANGED <<run, answer, operation, api, transcript, pending, recorded, unheard>>
    BY <1>3 DEF ClickConfirm, threadVars, agentVars, apiVars, pastVars
  <2> QED  BY <2>2, <2>3 DEF AnswerInv, OfferInv, Accounted, Answers
<1>4. CASE Reload(p)
  BY <1>4 DEF Reload, AnswerInv, OfferInv, Accounted, Answers, threadVars, agentVars, apiVars, pastVars
<1>5. CASE NewConversation(p)
  BY <1>5 DEF NewConversation, AnswerInv, OfferInv, Accounted, Answers, threadVars, agentVars, apiVars, pastVars
<1> QED  BY <1>1, <1>2, <1>3, <1>4, <1>5 DEF PageStep

LEMMA RestartAnswers ==
    ASSUME TypeOK, AnswerInv, OfferInv, RestartWorkbench
    PROVE  AnswerInv' /\ OfferInv'
<1>1. /\ UNCHANGED <<answer, operation, api, transcript, pending, recorded>>
      /\ \A r \in recorded : run'[r] = "ended"
  BY DEF RestartWorkbench, agentVars, apiVars, AnswerInv, TypeOK
<1>2. \A c \in Confirms :
          /\ call'[c].op = call[c].op
          /\ call[c].pc = "await" => call[c].op \in unheard'
  BY DEF RestartWorkbench, TypeOK, Call
<1>3. unheard \subseteq unheard'
  BY DEF RestartWorkbench
<1> QED  BY <1>1, <1>2, <1>3 DEF AnswerInv, OfferInv, Accounted, Answers

LEMMA NextAnswers == TypeOK /\ AnswerInv /\ OfferInv /\ [Next]_vars => AnswerInv' /\ OfferInv'
<1> SUFFICES ASSUME TypeOK, AnswerInv, OfferInv, [Next]_vars PROVE AnswerInv' /\ OfferInv'
  OBVIOUS
<1>1. CASE Next
  <2>1. ASSUME NEW r \in Runs, RunStep(r) \/ TurnPrepares(r) \/ AdvanceStage(r)
        PROVE  AnswerInv' /\ OfferInv'
    BY <1>1, <2>1, AnswersGrow, RunStepAnswers
  <2>2. ASSUME NEW c \in Confirms, CallStep(c) \/ ApiStep(c) PROVE AnswerInv' /\ OfferInv'
    BY <2>2, CallStepAnswers
  <2> QED  BY <1>1, <2>1, <2>2, PageStepAnswers, RestartAnswers DEF Next
<1>2. CASE UNCHANGED vars
  BY <1>2 DEF AnswerInv, OfferInv, Accounted, Answers, vars, threadVars, agentVars, apiVars, pastVars
<1> QED  BY <1>1, <1>2

\* The session file never goes on offering an operation whose outcome the workbench
\* has saved, except through two turns that ran at once.
THEOREM OffersOpen == Spec => []OfferedIsOpen
<1>1. TypeOK /\ OfferInv => OfferedIsOpen
  <2> SUFFICES ASSUME TypeOK, OfferInv, pending # None, NEW r \in Answers(pending),
                      NEW q \in Answers(pending), r # q
               PROVE  \E a, b \in Runs : a # b /\ answer[a].op = pending /\ answer[b].op = pending
    BY DEF OfferInv, OfferedIsOpen, Accounted
  <2> QED  BY DEF Answers, TypeOK
<1> QED  BY <1>1, InitTypes, NextTypes, InitAnswers, NextAnswers, PTL DEF Spec
=============================================================================
