------------------------------- MODULE AgentRun -------------------------------
(***************************************************************************)
(* One conversation of the agent workbench: the background runs of its     *)
(* turns (start_run, _run_in_background, run), the bounded run registry    *)
(* they report to, the session file they save, the OpenClaw session whose  *)
(* transcript they read, the confirm proxy with its 95 second wait for the *)
(* capability API, and the browser pages that poll and confirm.            *)
(*                                                                         *)
(* An operation is named by the run whose turn prepared it.  Summaries,    *)
(* messages and stages are data: a record keeps its status and whether its *)
(* stage label is still the one that belongs to it.                        *)
(***************************************************************************)
EXTENDS Integers, FiniteSets

CONSTANTS
    Runs,           \* run ids of the turns of the conversation
    Confirms,       \* calls of POST /api/agent/confirm
    Pages,          \* browser pages open on the conversation
    Capacity,       \* records the registry keeps (100)
    MaxRestarts,    \* bound on restarts of the workbench
    None            \* no run, no operation, no call

ASSUME NoneAssumption == None \notin Runs \cup Confirms
ASSUME RunsAssumption == IsFiniteSet(Runs)
ASSUME AgentBoundsAssumption == Capacity \in Nat \ {0} /\ MaxRestarts \in Nat

VARIABLES
    registry,   \* WorkbenchService._runs: the run ids it knows
    record,     \* what the registry says, or last said, of a run
    run,        \* the background thread of a run
    answer,     \* what the turn of a run came to
    pending,    \* pending_action of the session file of the conversation
    turn,       \* the turn of a run inside OpenClaw
    transcript, \* the operation prepared since the last user record, if any
    operation,  \* prepared operations of the capability API
    call,       \* confirmations: the proxy in the workbench
    api,        \* confirmations: the request in the capability API
    page,       \* what a page shows and waits for
    recorded,   \* runs whose turn was saved to the session file
    unheard,    \* operations with a confirmation whose answer was not saved
    restarts    \* restarts so far

threadVars == <<run, answer>>
agentVars  == <<turn, transcript>>
apiVars    == <<operation, api>>
pastVars   == <<recorded, unheard>>
vars == <<registry, record, threadVars, pending, agentVars, apiVars,
          call, page, pastVars, restarts>>

-----------------------------------------------------------------------------
OrNone(S) == S \cup {None}

Terminal == {"needs_confirmation", "answered", "failed"}
Record   == [status : {"absent", "running"} \cup Terminal,
             stage  : {"absent", "starting", "working"} \cup Terminal,
             born   : Nat]      \* its place in the dict's order of insertion

RunPC  == {"none", "begin", "openclaw", "save", "report", "ended"}
Call   == [pc : {"none", "load"}, op : {None}]
            \cup [pc : {"await"}, op : Runs]
            \cup [pc : {"ended"}, op : OrNone(Runs)]
Page   == [open : BOOLEAN, card : OrNone(Runs), waits : OrNone(Runs \cup Confirms)]

TypeOK ==
    /\ registry \in SUBSET Runs
    /\ record \in [Runs -> Record]
    /\ run \in [Runs -> RunPC]
    /\ answer \in [Runs -> [status : {"none"} \cup Terminal, op : OrNone(Runs)]]
    /\ \A r \in Runs : run[r] \in {"save", "report"} => answer[r].status \in Terminal
    /\ pending \in OrNone(Runs)
    /\ turn \in [Runs -> {"none", "thinking", "over"}]
    /\ transcript \in OrNone(Runs)
    /\ operation \in [Runs -> {"none", "open", "executing", "completed", "closed"}]
    /\ call \in [Confirms -> Call]
    /\ api \in [Confirms -> {"none", "sent", "working", "answered", "refused"}]
    /\ page \in [Pages -> Page]
    /\ recorded \in SUBSET Runs
    /\ unheard \in SUBSET Runs
    /\ restarts \in Nat

Init ==
    /\ registry = {}
    /\ record = [r \in Runs |-> [status |-> "absent", stage |-> "absent", born |-> 0]]
    /\ run = [r \in Runs |-> "none"]
    /\ answer = [r \in Runs |-> [status |-> "none", op |-> None]]
    /\ pending = None
    /\ turn = [r \in Runs |-> "none"]
    /\ transcript = None
    /\ operation = [r \in Runs |-> "none"]
    /\ call = [c \in Confirms |-> [pc |-> "none", op |-> None]]
    /\ api = [c \in Confirms |-> "none"]
    /\ page = [p \in Pages |-> [open |-> TRUE, card |-> None, waits |-> None]]
    /\ recorded = {}
    /\ unheard = {}
    /\ restarts = 0

-----------------------------------------------------------------------------
(* start_run: the record is inserted and the registry trimmed under its     *)
(* lock, then the background thread and its progress thread start.          *)
Finished(reg) == {q \in reg : record[q].status \in Terminal}

\* Mutation: the oldest record makes room, finished or not.
EvictableOldest(reg) == {q \in reg : \A s \in reg : record[q].born <= record[s].born}

\* The finished records, oldest first, as many as the registry is too long.
Evictable(reg) ==
    {q \in Finished(reg) :
        Cardinality({s \in Finished(reg) : record[s].born < record[q].born})
            < Cardinality(reg) - Capacity}

\* A fresh uuid4: which one it is makes no difference.
NewRun(r) == run[r] = "none" /\ r = CHOOSE q \in Runs : run[q] = "none"

SendTurn(p, r) ==
    LET reg == registry \cup {r} IN
    /\ page[p].open /\ page[p].waits = None
    /\ NewRun(r)
    /\ record' = [record EXCEPT ![r] =
           [status |-> "running", stage |-> "starting",
            born |-> Cardinality({q \in Runs : run[q] # "none"}) + 1]]
    /\ registry' = IF Cardinality(reg) > Capacity THEN reg \ Evictable(reg) ELSE reg
    /\ run' = [run EXCEPT ![r] = "begin"]
    /\ page' = [page EXCEPT ![p].waits = r]
    /\ UNCHANGED <<answer, pending, agentVars, apiVars, call, pastVars, restarts>>

-----------------------------------------------------------------------------
(* _run_in_background and run.                                              *)
Goto(r, pc) == run' = [run EXCEPT ![r] = pc]

\* Mutation: a stage label is written whatever the record says.
ShowAlways(r) ==
    IF r \in registry THEN [record EXCEPT ![r].stage = "working"] ELSE record

\* _set_run_progress: only a record that is still running takes a new label.
ShowProgress(r) ==
    IF r \in registry /\ record[r].status = "running"
    THEN [record EXCEPT ![r].stage = "working"] ELSE record

\* The terminal update: a record that is gone from the registry stays gone.
Reported(r, status) ==
    IF r \in registry THEN [record EXCEPT ![r].status = status, ![r].stage = status]
    ELSE record

\* The request is checked, the identity and the session context are stored,
\* and the OpenClaw command starts a turn: a user record in the shared session.
LaunchOpenClaw(r) ==
    /\ run[r] = "begin"
    /\ Goto(r, "openclaw")
    /\ turn' = [turn EXCEPT ![r] = "thinking"]
    /\ transcript' = None
    /\ record' = ShowProgress(r)
    /\ UNCHANGED <<registry, answer, pending, apiVars, call, page, pastVars, restarts>>

\* OpenClaw replied within the 210 seconds.  _extract_trace reads what follows
\* the last user record of the transcript, of whichever turn that is, or
\* nothing if the script fails.
OpenClawReplied(r) ==
    /\ run[r] = "openclaw"
    /\ turn[r] = "thinking"
    /\ turn' = [turn EXCEPT ![r] = "over"]
    /\ \E op \in {transcript, None} :
          answer' = [answer EXCEPT ![r] =
              [status |-> IF op = None THEN "answered" ELSE "needs_confirmation", op |-> op]]
    /\ Goto(r, "save")
    /\ record' = ShowProgress(r)
    /\ UNCHANGED <<registry, pending, transcript, apiVars, call, page, pastVars, restarts>>

\* Mutation: the exception ends the thread and reaches nobody.
RunDies(r) ==
    /\ run[r] \in {"begin", "openclaw", "save"}
    /\ Goto(r, "ended")
    /\ UNCHANGED <<registry, record, answer, pending, agentVars, apiVars,
                   call, page, pastVars, restarts>>

\* Mutation: a status no page knows.
RunFailsAsError(r) ==
    /\ run[r] \in {"begin", "openclaw", "save"}
    /\ answer' = [answer EXCEPT ![r] = [status |-> "failed", op |-> None]]
    /\ record' = Reported(r, "error")
    /\ Goto(r, "ended")
    /\ UNCHANGED <<registry, pending, agentVars, apiVars, call, page, pastVars, restarts>>

\* An exception on the way is the outcome: a refused request, the 210 seconds, a
\* bad reply, a session file that cannot be read (another thread is writing it)
\* or written.
RunFails(r) ==
    /\ run[r] \in {"begin", "openclaw", "save"}
    /\ answer' = [answer EXCEPT ![r] = [status |-> "failed", op |-> None]]
    /\ record' = Reported(r, "failed")
    /\ Goto(r, "ended")
    /\ UNCHANGED <<registry, pending, agentVars, apiVars, call, page, pastVars, restarts>>

\* The session is loaded again, takes the operation of this turn as its pending
\* action, or none, and is saved with the new turn.
SaveTurn(r) ==
    /\ run[r] = "save"
    /\ pending' = answer[r].op
    /\ recorded' = recorded \cup {r}
    /\ Goto(r, "report")
    /\ UNCHANGED <<registry, record, answer, agentVars, apiVars, call, page, unheard, restarts>>

\* Mutation: the page learns the outcome first, and the session is saved after it.
ReportFirst(r) ==
    /\ run[r] \in {"save", "report"}
    /\ record' = Reported(r, answer[r].status)
    /\ run' = [run EXCEPT ![r] = IF @ = "save" THEN "save" ELSE "ended"]
    /\ UNCHANGED <<registry, answer, pending, agentVars, apiVars,
                   call, page, pastVars, restarts>>

\* The registry learns the outcome; the finally clause stops the progress thread
\* but does not wait for one that is just writing.
Report(r) ==
    /\ run[r] = "report"
    /\ record' = Reported(r, answer[r].status)
    /\ Goto(r, "ended")
    /\ UNCHANGED <<registry, answer, pending, agentVars, apiVars,
                   call, page, pastVars, restarts>>

\* advance, the progress thread: one of its labels comes due while the run lasts
\* or just before it ends, and may be written after that.
AdvanceStage(r) ==
    /\ run[r] # "none"
    /\ record' = ShowProgress(r)
    /\ UNCHANGED <<registry, threadVars, pending, agentVars, apiVars,
                   call, page, pastVars, restarts>>

-----------------------------------------------------------------------------
(* OpenClaw: the turns of a conversation share one session.  A turn whose   *)
(* command was given up, or whose workbench died, may go on.                *)
\* The agent prepares an operation; a workbench session has no tool to execute.
TurnPrepares(r) ==
    /\ turn[r] = "thinking"
    /\ operation[r] = "none"
    /\ operation' = [operation EXCEPT ![r] = "open"]
    /\ transcript' = r
    /\ UNCHANGED <<registry, record, threadVars, pending, turn, api,
                   call, page, pastVars, restarts>>

-----------------------------------------------------------------------------
(* confirm: the operation is the one the session file holds when the        *)
(* request arrives; the request itself names none.                          *)
CallTo(c, pc) == call' = [call EXCEPT ![c].pc = pc]

\* The pages when a wait for x ends, with the cards they show then.
Ends(pages, x, cards) ==
    [p \in Pages |-> IF pages[p].waits = x
        THEN [pages[p] EXCEPT !.waits = None, !.card = cards[p]] ELSE pages[p]]

Keeps  == [p \in Pages |-> page[p].card]
Clears == [p \in Pages |-> None]

NewCall(c) == call[c].pc = "none" /\ c = CHOOSE d \in Confirms : call[d].pc = "none"

ClickConfirm(p, c) ==
    /\ page[p].open /\ page[p].waits = None /\ page[p].card # None
    /\ NewCall(c)
    /\ call' = [call EXCEPT ![c] = [pc |-> "load", op |-> None]]
    /\ page' = [page EXCEPT ![p].waits = c]
    /\ UNCHANGED <<registry, record, threadVars, pending, agentVars, apiVars,
                   pastVars, restarts>>

\* The session is loaded and its operation posted to the API.
PostPending(c) ==
    /\ call[c].pc = "load"
    /\ pending # None
    /\ call' = [call EXCEPT ![c] = [pc |-> "await", op |-> pending]]
    /\ api' = [api EXCEPT ![c] = "sent"]
    /\ UNCHANGED <<registry, record, threadVars, pending, agentVars, operation,
                   page, pastVars, restarts>>

\* The session has no pending action: an error, and the card stays.
NothingPending(c) ==
    /\ call[c].pc = "load"
    /\ pending = None
    /\ CallTo(c, "ended")
    /\ page' = Ends(page, c, Keeps)
    /\ UNCHANGED <<registry, record, threadVars, pending, agentVars, apiVars,
                   pastVars, restarts>>

\* The API answered ok; a failed execution is an answer too.
Answered(c) == call[c].pc = "await" /\ api[c] = "answered"

\* A refusal, 95 seconds without an answer, or a session file that cannot be
\* saved: nothing is saved, the page shows an error and keeps its card.
ConfirmFails(c) ==
    /\ call[c].pc = "await"
    /\ CallTo(c, "ended")
    /\ unheard' = unheard \cup {call[c].op}
    /\ page' = Ends(page, c, Keeps)
    /\ UNCHANGED <<registry, record, threadVars, pending, agentVars, apiVars,
                   recorded, restarts>>

\* Mutation: the turn is added and the pending action left where it is.
SaveConfirmedTurnOnly(c) ==
    /\ Answered(c)
    /\ CallTo(c, "ended")
    /\ page' = Ends(page, c, Clears)
    /\ UNCHANGED <<registry, record, threadVars, pending, agentVars, apiVars,
                   pastVars, restarts>>

\* The session as it was loaded before the call, without its pending action and
\* with the new turn, replaces whatever a run saved meanwhile.
SaveConfirmed(c) ==
    /\ Answered(c)
    /\ pending' = None
    /\ CallTo(c, "ended")
    /\ page' = Ends(page, c, Clears)
    /\ UNCHANGED <<registry, record, threadVars, agentVars, apiVars,
                   pastVars, restarts>>

-----------------------------------------------------------------------------
(* The capability API, as PreparedOperation has it, seen from the proxy.    *)
ApiClaims(c) ==
    /\ api[c] = "sent"
    /\ operation[call[c].op] = "open"
    /\ operation' = [operation EXCEPT ![call[c].op] = "executing"]
    /\ api' = [api EXCEPT ![c] = "working"]
    /\ UNCHANGED <<registry, record, threadVars, pending, agentVars,
                   call, page, pastVars, restarts>>

\* Expired, claimed by another call, or failed before: HTTP 403.
ApiRefuses(c) ==
    LET o == call[c].op IN
    /\ api[c] = "sent"
    /\ operation[o] # "completed"
    /\ operation' = [operation EXCEPT ![o] = IF @ = "open" THEN "closed" ELSE @]
    /\ api' = [api EXCEPT ![c] = "refused"]
    /\ UNCHANGED <<registry, record, threadVars, pending, agentVars,
                   call, page, pastVars, restarts>>

\* The stored result of a completed operation is answered again.
ApiAnswersAgain(c) ==
    /\ api[c] = "sent"
    /\ operation[call[c].op] = "completed"
    /\ api' = [api EXCEPT ![c] = "answered"]
    /\ UNCHANGED <<registry, record, threadVars, pending, agentVars, operation,
                   call, page, pastVars, restarts>>

ApiSettles(c) ==
    /\ api[c] = "working"
    /\ api' = [api EXCEPT ![c] = "answered"]
    /\ \E outcome \in {"completed", "closed"} :
          operation' = [operation EXCEPT ![call[c].op] = outcome]
    /\ UNCHANGED <<registry, record, threadVars, pending, agentVars,
                   call, page, pastVars, restarts>>

-----------------------------------------------------------------------------
(* The page.                                                                *)
\* startAgentTurn polls the record of its run: an error if it is gone, the
\* card of its result when it is terminal.
Poll(p, r) ==
    /\ page[p].waits = r
    /\ r \in registry => record[r].status \in Terminal
    /\ page' = [page EXCEPT ![p].waits = None, ![p].card =
           IF r \notin registry \/ record[r].status = "failed" THEN @ ELSE answer[r].op]
    /\ UNCHANGED <<registry, record, threadVars, pending, agentVars, apiVars,
                   call, pastVars, restarts>>

\* loadHistory shows the card of the latest turn in the session file.
Reload(p) ==
    /\ page[p].open
    /\ page' = [page EXCEPT ![p].waits = None, ![p].card = pending]
    /\ UNCHANGED <<registry, record, threadVars, pending, agentVars, apiVars,
                   call, pastVars, restarts>>

\* startNewConversation deletes the session file and leaves the conversation.
NewConversation(p) ==
    /\ page[p].open
    /\ pending' = None
    /\ page' = [page EXCEPT ![p] = [open |-> FALSE, card |-> None, waits |-> None]]
    /\ UNCHANGED <<registry, record, threadVars, agentVars, apiVars,
                   call, pastVars, restarts>>

\* The workbench is restarted: registry and threads are gone, every request of
\* a page fails; files, OpenClaw and the capability API go on.
RestartWorkbench ==
    /\ restarts < MaxRestarts
    /\ restarts' = restarts + 1
    /\ registry' = {}
    /\ run' = [r \in Runs |-> IF run[r] = "none" THEN "none" ELSE "ended"]
    /\ call' = [c \in Confirms |->
           IF call[c].pc = "none" THEN call[c] ELSE [call[c] EXCEPT !.pc = "ended"]]
    /\ unheard' = unheard \cup {call[c].op : c \in
           {d \in Confirms : call[d].pc = "await"}}
    /\ page' = [p \in Pages |-> [page[p] EXCEPT !.waits = None]]
    /\ UNCHANGED <<record, answer, pending, agentVars, apiVars, recorded>>

-----------------------------------------------------------------------------
RunStep(r) ==
    \/ LaunchOpenClaw(r) \/ OpenClawReplied(r) \/ RunFails(r)
    \/ SaveTurn(r) \/ Report(r)

CallStep(c) ==
    \/ PostPending(c) \/ NothingPending(c)
    \/ ConfirmFails(c) \/ SaveConfirmed(c)

ApiStep(c) == ApiClaims(c) \/ ApiRefuses(c) \/ ApiAnswersAgain(c) \/ ApiSettles(c)

PageStep(p) ==
    \/ \E r \in Runs : SendTurn(p, r) \/ Poll(p, r)
    \/ \E c \in Confirms : ClickConfirm(p, c)
    \/ Reload(p) \/ NewConversation(p)

Next ==
    \/ \E r \in Runs : RunStep(r) \/ TurnPrepares(r) \/ AdvanceStage(r)
    \/ \E c \in Confirms : CallStep(c) \/ ApiStep(c)
    \/ \E p \in Pages : PageStep(p)
    \/ RestartWorkbench

\* Python keeps scheduling the threads of the process, whose waits for OpenClaw
\* and for the capability API are bounded, and an open page keeps polling.
\* Nothing is promised of OpenClaw, of the API or of the employee.
Fairness ==
    /\ \A r \in Runs : WF_vars(RunStep(r))
    /\ \A c \in Confirms : WF_vars(CallStep(c))
    /\ \A p \in Pages : WF_vars(\E r \in Runs : Poll(p, r))

Spec     == Init /\ [][Next]_vars
FairSpec == Spec /\ Fairness
-----------------------------------------------------------------------------
(* What the registry and the session are for.                               *)

Live(r) == run[r] \notin {"none", "ended"}

\* However many turns follow, the registry never drops the record of a run that
\* is still working: its page finds it until it has an outcome.
LiveRunsAreRegistered ==
    \A r \in Runs : Live(r) => r \in registry /\ record[r].status = "running"

\* The registry is a cache and the session file the record (the comment of
\* start_run): a run that ended with an answer and was evicted, or lost with the
\* process, had its turn written to the session file before anybody could ask.
OutcomesAreRecorded ==
    \A r \in Runs : record[r].status \in {"needs_confirmation", "answered"} => r \in recorded

\* The session file offers no operation whose outcome the workbench has saved:
\* an offered operation is open, or its confirmation is under way or its answer
\* was lost, or two turns ran at once and both answered with it.
OfferedIsOpen ==
    LET o == pending IN
    o # None =>
        \/ operation[o] = "open"
        \/ \E c \in Confirms : call[c].op = o /\ call[c].pc = "await"
        \/ o \in unheard
        \/ \E r, q \in Runs : r # q /\ answer[r].op = o /\ answer[q].op = o

\* What a page was told when a run ended stays true of its record: the progress
\* thread, slower than the run, never writes its label over the outcome.
TerminalForGood ==
    [][\A r \in Runs : record[r].status \in Terminal =>
          record'[r] = record[r]]_vars

\* Nobody waits for ever: a page that polls a run or awaits a confirmation gets
\* a result or an error, through timeouts, evictions and restarts.
EveryWaitEnds == \A p \in Pages : page[p].waits # None ~> page[p].waits = None

=============================================================================
