-------------------------- MODULE PreparedOperation --------------------------
(***************************************************************************)
(* The prepare / confirm / execute protocol of the capability service:     *)
(* CapabilityManualService.prepare and .execute over the PostgreSQL table  *)
(* nexterp_manual.prepared_operation, run by the threads of the HTTP       *)
(* server, with ERPNext as an external writer behind a 90 second timeout.  *)
(*                                                                         *)
(* A ToolCall and the summary shown for it are one value of Calls: both    *)
(* are computed from the same facts by the same request.  A session is the *)
(* triple (external subject, agent, session key) a caller presents;        *)
(* Employee gives the employee an identity row binds it to.                *)
(***************************************************************************)
EXTENDS Integers

CONSTANTS
    Sessions,       \* the callers: (external_subject, agent_id, session_key)
    Employee,       \* [Sessions -> employee_user]
    Requests,       \* the request_id values callers choose
    Calls,          \* frozen ToolCalls, each with the summary it is shown as
    PendingIds,     \* pending_id values, one per row that can ever exist
    Threads,        \* handler threads of the ThreadingHTTPServer
    TTL,            \* ttl_minutes of create_pending, in clock units
    MaxTime,        \* bound on the clock
    MaxRevision,    \* bound on the catalog revision
    MaxFaults,      \* bound on database faults and process crashes together
    NoRow           \* the value of a pending_id that is not in the table

ASSUME BoundsAssumption ==
    /\ TTL \in Nat
    /\ MaxTime \in Nat
    /\ MaxRevision \in Nat
    /\ MaxFaults \in Nat

VARIABLES
    rows,       \* the table prepared_operation, by pending_id
    now,        \* the wall clock
    revision,   \* the current catalog revision
    permitted,  \* whether the profile bound to a session allows the operation
    thread,     \* the handler each thread is running
    requested,  \* tool calls sent to ERPNext and not yet handled by it
    copies,     \* how often ERPNext applied each call for each pending_id
    shown,      \* summaries answered with "needs_confirmation", by pending_id
    faults      \* database faults and crashes so far

dbVars  == <<rows, revision, permitted>>
erpVars == <<requested, copies>>
vars    == <<rows, now, revision, permitted, thread, requested, copies, shown, faults>>

-----------------------------------------------------------------------------
Status  == {"pending", "executing", "completed", "failed", "expired"}
Settled == {"completed", "failed"}

Row == [owner : Sessions, request : Requests, call : Calls, revision : Nat,
        expires : Nat, status : Status]

\* Program counters of a thread between the claim and the answer of execute.
WorkPC == {"check", "send", "await", "readback", "finish", "reread", "salvage"}

Idle == [pc |-> "idle"]

Preparing == [pc : {"insert"}, session : Sessions, request : Requests,
              call : Calls, revision : Nat, expires : Nat]
Claiming  == [pc : {"claim"}, session : Sessions, permitted : BOOLEAN,
              pending : PendingIds, at : Nat]
Working   == [pc : WorkPC, session : Sessions, permitted : BOOLEAN,
              pending : PendingIds, at : Nat, call : Calls, outcome : Settled]

Message == [thread : Threads, session : Sessions, pending : PendingIds, call : Calls]

ASSUME NoRowAssumption == NoRow \notin Row

TypeOK ==
    /\ rows \in [PendingIds -> Row \cup {NoRow}]
    /\ now \in Nat
    /\ revision \in Nat
    /\ permitted \in [Sessions -> BOOLEAN]
    /\ thread \in [Threads -> {Idle} \cup Preparing \cup Claiming \cup Working]
    /\ requested \subseteq Message
    /\ copies \in [PendingIds -> [Calls -> Nat]]
    /\ shown \in [PendingIds -> SUBSET Calls]
    /\ faults \in Nat

Exists(p)   == rows[p] # NoRow
Works(t, p) == thread[t].pc \in WorkPC /\ thread[t].pending = p

\* The row a thread is working on, written back with a new status.
SetStatus(p, status) == rows' = [rows EXCEPT ![p].status = status]
Goto(t, pc)          == thread' = [thread EXCEPT ![t].pc = pc]
GotoWith(t, pc, o)   == thread' = [thread EXCEPT ![t].pc = pc, ![t].outcome = o]
Return(t)            == thread' = [thread EXCEPT ![t] = Idle]

Init ==
    /\ rows = [p \in PendingIds |-> NoRow]
    /\ now = 0
    /\ revision = 0
    /\ permitted \in [Sessions -> BOOLEAN]
    /\ thread = [t \in Threads |-> Idle]
    /\ requested = {}
    /\ copies = [p \in PendingIds |-> [c \in Calls |-> 0]]
    /\ shown = [p \in PendingIds |-> {}]
    /\ faults = 0

-----------------------------------------------------------------------------
(* prepare: identity and policy are checked, the request is compiled to a   *)
(* ToolCall, the expiry and the catalog revision are read; the INSERT       *)
(* follows on a connection of its own.                                      *)
Prepare(t, s, r, c) ==
    /\ thread[t].pc = "idle"
    /\ permitted[s]
    /\ thread' = [thread EXCEPT ![t] =
           [pc |-> "insert", session |-> s, request |-> r, call |-> c,
            revision |-> revision, expires |-> now + TTL]]
    /\ UNCHANGED <<dbVars, now, erpVars, shown, faults>>

\* UNIQUE (employee_user, request_id).
SameKey(p, th) ==
    /\ Exists(p)
    /\ Employee[rows[p].owner] = Employee[th.session]
    /\ rows[p].request = th.request

\* INSERT of a new row; the answer pairs its id with this request's summary.
InsertPending(t, p) ==
    LET th == thread[t] IN
    /\ th.pc = "insert"
    /\ ~Exists(p)
    /\ \A q \in PendingIds : ~SameKey(q, th)
    /\ rows' = [rows EXCEPT ![p] =
           [owner |-> th.session, request |-> th.request, call |-> th.call,
            revision |-> th.revision, expires |-> th.expires, status |-> "pending"]]
    /\ shown' = [shown EXCEPT ![p] = @ \cup {th.call}]
    /\ Return(t)
    /\ UNCHANGED <<now, revision, permitted, erpVars, faults>>

\* Mutation: DO UPDATE SET tool_call = EXCLUDED.tool_call.
ReuseAndReplace(t, p) ==
    LET th == thread[t] IN
    /\ th.pc = "insert"
    /\ SameKey(p, th)
    /\ rows' = [rows EXCEPT ![p].call = th.call]
    /\ shown' = [shown EXCEPT ![p] = @ \cup {th.call}]
    /\ Return(t)
    /\ UNCHANGED <<now, revision, permitted, erpVars, faults>>

\* ON CONFLICT (employee_user, request_id): the old row comes back unchanged,
\* while the answer still carries the summary of this request.
ReusePending(t, p) ==
    LET th == thread[t] IN
    /\ th.pc = "insert"
    /\ SameKey(p, th)
    /\ shown' = [shown EXCEPT ![p] = @ \cup {th.call}]
    /\ Return(t)
    /\ UNCHANGED <<dbVars, now, erpVars, faults>>

-----------------------------------------------------------------------------
(* execute: the identity is resolved, the clock is read, and only then does *)
(* the claiming transaction take the row lock.                              *)
Execute(t, s, p) ==
    /\ thread[t].pc = "idle"
    /\ Exists(p)
    /\ thread' = [thread EXCEPT ![t] =
           [pc |-> "claim", session |-> s, permitted |-> permitted[s],
            pending |-> p, at |-> now]]
    /\ UNCHANGED <<dbVars, now, erpVars, shown, faults>>

\* Mutation: the row is compared with the employee of the caller only.
OwnsAsEmployee(th) == Employee[rows[th.pending].owner] = Employee[th.session]

\* The caller's employee, subject, agent and session key are the row's.
Owns(th) == rows[th.pending].owner = th.session

\* claim_pending raises, or returns a completed row whose stored result is
\* answered again: nothing changes either way.
ClaimRefused(t) ==
    LET th == thread[t] IN
    /\ th.pc = "claim"
    /\ ~Owns(th) \/ rows[th.pending].status # "pending"
    /\ Return(t)
    /\ UNCHANGED <<dbVars, now, erpVars, shown, faults>>

\* Mutation: an expired row is reported and left without a status.
ClaimExpiredUnset(t) ==
    LET th == thread[t] IN
    /\ th.pc = "claim"
    /\ Owns(th)
    /\ rows[th.pending].status = "pending"
    /\ rows[th.pending].expires <= th.at
    /\ SetStatus(th.pending, "idle")
    /\ Return(t)
    /\ UNCHANGED <<now, revision, permitted, erpVars, shown, faults>>

ClaimExpired(t) ==
    LET th == thread[t] IN
    /\ th.pc = "claim"
    /\ Owns(th)
    /\ rows[th.pending].status = "pending"
    /\ rows[th.pending].expires <= th.at
    /\ SetStatus(th.pending, "expired")
    /\ Return(t)
    /\ UNCHANGED <<now, revision, permitted, erpVars, shown, faults>>

\* Mutation: the status is not looked at again under the row lock.
ClaimAnyStatus(t) ==
    LET th  == thread[t]
        row == rows[th.pending] IN
    /\ th.pc = "claim"
    /\ Owns(th)
    /\ row.expires > th.at
    /\ SetStatus(th.pending, "executing")
    /\ thread' = [thread EXCEPT ![t] =
           [pc |-> "check", session |-> th.session, permitted |-> th.permitted,
            pending |-> th.pending, at |-> th.at, call |-> row.call, outcome |-> "failed"]]
    /\ UNCHANGED <<now, revision, permitted, erpVars, shown, faults>>

\* Mutation: the row is marked only when it is finished.
ClaimUnmarked(t) ==
    LET th  == thread[t]
        row == rows[th.pending] IN
    /\ th.pc = "claim"
    /\ Owns(th)
    /\ row.status = "pending"
    /\ row.expires > th.at
    /\ thread' = [thread EXCEPT ![t] =
           [pc |-> "check", session |-> th.session, permitted |-> th.permitted,
            pending |-> th.pending, at |-> th.at, call |-> row.call, outcome |-> "failed"]]
    /\ UNCHANGED <<dbVars, now, erpVars, shown, faults>>

\* Mutation: the expiry is left to the page that shows the operation.
ClaimLate(t) ==
    LET th  == thread[t]
        row == rows[th.pending] IN
    /\ th.pc = "claim"
    /\ Owns(th)
    /\ row.status = "pending"
    /\ SetStatus(th.pending, "executing")
    /\ thread' = [thread EXCEPT ![t] =
           [pc |-> "check", session |-> th.session, permitted |-> th.permitted,
            pending |-> th.pending, at |-> th.at, call |-> row.call, outcome |-> "failed"]]
    /\ UNCHANGED <<now, revision, permitted, erpVars, shown, faults>>

ClaimPending(t) ==
    LET th  == thread[t]
        row == rows[th.pending] IN
    /\ th.pc = "claim"
    /\ Owns(th)
    /\ row.status = "pending"
    /\ row.expires > th.at
    /\ SetStatus(th.pending, "executing")
    /\ thread' = [thread EXCEPT ![t] =
           [pc |-> "check", session |-> th.session, permitted |-> th.permitted,
            pending |-> th.pending, at |-> th.at, call |-> row.call, outcome |-> "failed"]]
    /\ UNCHANGED <<now, revision, permitted, erpVars, shown, faults>>

\* operation_bundle, _operation_allowed, _gateway and the gateway's own policy
\* and identity checks: a PermissionError or another exception goes to the
\* except clause, a refusal of the gateway is a result that is not ok.
CheckOperation(t) ==
    LET th == thread[t] IN
    /\ th.pc = "check"
    /\ \/ Goto(t, "salvage")
       \/ th.permitted /\ Goto(t, "finish")
       \/ th.permitted /\ Goto(t, "send")
    /\ UNCHANGED <<dbVars, now, erpVars, shown, faults>>

\* adapter.execute hands the frozen ToolCall to ERPNext.
SendToolCall(t) ==
    LET th == thread[t] IN
    /\ th.pc = "send"
    /\ requested' = requested \cup
           {[thread |-> t, session |-> th.session, pending |-> th.pending, call |-> th.call]}
    /\ Goto(t, "await")
    /\ UNCHANGED <<dbVars, now, copies, shown, faults>>

AwaitedBy(t) == {m \in requested : m.thread = t /\ m.pending = thread[t].pending}

\* Mutation: a send without an error counts as written.
ReceiveUnchecked(t) ==
    /\ thread[t].pc = "await"
    /\ Goto(t, "readback")
    /\ UNCHANGED <<dbVars, now, erpVars, shown, faults>>

\* ERPNext answered in time that the document is written.
ReceiveOk(t) ==
    LET th == thread[t] IN
    /\ th.pc = "await"
    /\ AwaitedBy(t) = {}
    /\ copies[th.pending][th.call] > 0
    /\ Goto(t, "readback")
    /\ UNCHANGED <<dbVars, now, erpVars, shown, faults>>

\* A refusal, a lost answer or the timeout: the request may still be in flight.
ReceiveFailure(t) ==
    /\ thread[t].pc = "await"
    /\ GotoWith(t, "finish", "failed")
    /\ UNCHANGED <<dbVars, now, erpVars, shown, faults>>

\* _verify_readback: verified, a mismatch, or the reading raises.
VerifyReadback(t) ==
    /\ thread[t].pc = "readback"
    /\ \/ GotoWith(t, "finish", "completed")
       \/ GotoWith(t, "finish", "failed")
       \/ Goto(t, "salvage")
    /\ UNCHANGED <<dbVars, now, erpVars, shown, faults>>

\* finish_pending, its UPDATE: unconditional on the row's status.
FinishPending(t) ==
    LET th == thread[t] IN
    /\ th.pc = "finish"
    /\ SetStatus(th.pending, th.outcome)
    /\ Goto(t, "reread")
    /\ UNCHANGED <<now, revision, permitted, erpVars, shown, faults>>

\* finish_pending, the get_pending that follows, and the answer.
RereadPending(t) ==
    /\ thread[t].pc = "reread"
    /\ Return(t)
    /\ UNCHANGED <<dbVars, now, erpVars, shown, faults>>

\* Mutation: a failed operation may be confirmed again.
SalvagePending(t) ==
    LET th == thread[t] IN
    /\ th.pc = "salvage"
    /\ SetStatus(th.pending, "pending")
    /\ Return(t)
    /\ UNCHANGED <<now, revision, permitted, erpVars, shown, faults>>

\* Mutation: the exception is reported and the row left as it is.
SalvageNothing(t) ==
    /\ thread[t].pc = "salvage"
    /\ Return(t)
    /\ UNCHANGED <<dbVars, now, erpVars, shown, faults>>

\* The except clauses of execute: the row is marked failed.
SalvageFailed(t) ==
    LET th == thread[t] IN
    /\ th.pc = "salvage"
    /\ SetStatus(th.pending, "failed")
    /\ Return(t)
    /\ UNCHANGED <<now, revision, permitted, erpVars, shown, faults>>

-----------------------------------------------------------------------------
(* The environment: ERPNext, the database failing, the process dying, and   *)
(* the clock, catalog and profiles changing under the handlers.             *)
ErpWrite(m) ==
    /\ m \in requested
    /\ requested' = requested \ {m}
    /\ copies' = [copies EXCEPT ![m.pending][m.call] = @ + 1]
    /\ UNCHANGED <<dbVars, now, thread, shown, faults>>

\* ERPNext refuses the call, or the request is lost on the way.
ErpRefuse(m) ==
    /\ m \in requested
    /\ requested' = requested \ {m}
    /\ UNCHANGED <<dbVars, now, thread, copies, shown, faults>>

\* The database fails: inside the try block of execute the except clause takes
\* over, outside it and inside the except clause the exception leaves the handler.
DatabaseFault(t) ==
    /\ faults < MaxFaults
    /\ faults' = faults + 1
    /\ \/ thread[t].pc \in {"finish", "reread"} /\ Goto(t, "salvage")
       \/ thread[t].pc \in {"insert", "claim", "salvage"} /\ Return(t)
    /\ UNCHANGED <<dbVars, now, erpVars, shown>>

\* The API process dies with every handler in it; the table, and requests
\* ERPNext already holds, survive.
Crash ==
    /\ faults < MaxFaults
    /\ faults' = faults + 1
    /\ thread' = [t \in Threads |-> Idle]
    /\ UNCHANGED <<dbVars, now, erpVars, shown>>

Tick ==
    /\ now < MaxTime
    /\ now' = now + 1
    /\ UNCHANGED <<dbVars, thread, erpVars, shown, faults>>

\* A migration publishes a new current catalog revision.
PublishRevision ==
    /\ revision < MaxRevision
    /\ revision' = revision + 1
    /\ UNCHANGED <<rows, now, permitted, thread, erpVars, shown, faults>>

\* upsert_identity binds the session's subject to another profile.
ChangeProfile(s) ==
    /\ permitted' = [permitted EXCEPT ![s] = ~@]
    /\ UNCHANGED <<rows, now, revision, thread, erpVars, shown, faults>>

-----------------------------------------------------------------------------
\* The steps a running handler owes its caller.
HandlerStep(t) ==
    \/ \E p \in PendingIds : InsertPending(t, p) \/ ReusePending(t, p)
    \/ ClaimRefused(t) \/ ClaimExpired(t) \/ ClaimPending(t)
    \/ CheckOperation(t) \/ SendToolCall(t)
    \/ ReceiveOk(t) \/ ReceiveFailure(t) \/ VerifyReadback(t)
    \/ FinishPending(t) \/ RereadPending(t) \/ SalvageFailed(t)

Next ==
    \/ \E t \in Threads :
        \/ \E s \in Sessions, r \in Requests, c \in Calls : Prepare(t, s, r, c)
        \/ \E s \in Sessions, p \in PendingIds : Execute(t, s, p)
        \/ HandlerStep(t)
        \/ DatabaseFault(t)
    \/ \E m \in requested : ErpWrite(m) \/ ErpRefuse(m)
    \/ Crash \/ Tick \/ PublishRevision
    \/ \E s \in Sessions : ChangeProfile(s)

\* Python keeps scheduling a handler thread, and the client's timeout bounds
\* its wait for ERPNext; nothing else is promised to happen.
Fairness == \A t \in Threads : WF_vars(HandlerStep(t))

Spec     == Init /\ [][Next]_vars
FairSpec == Spec /\ Fairness
-----------------------------------------------------------------------------
(* What the protocol is for.                                                *)

Claimed(p) == Exists(p) /\ rows[p].status \in {"executing"} \cup Settled

\* However prepares, confirmations, faults and late ERPNext answers interleave,
\* ERPNext applies the call frozen in the row at most once, and no other call.
WrittenOnceAsFrozen ==
    \A p \in PendingIds, c \in Calls :
        copies[p][c] > 0 => Exists(p) /\ c = rows[p].call /\ copies[p][c] = 1

\* Nothing reaches ERPNext for an operation nobody confirmed in time: a row that
\* is pending or expired has no write, neither applied nor on its way, and whoever
\* sends one has confirmed before the row expired, however long it waited for the
\* row, whichever request wrote the expiry into it, and whatever the clock says now.
ConsentInTime ==
    /\ \A p \in PendingIds :
        \/ Claimed(p)
        \/ /\ \A c \in Calls : copies[p][c] = 0
           /\ \A m \in requested : m.pending # p
    /\ \A t \in Threads :
        thread[t].pc \in {"send", "await", "readback"} =>
            thread[t].at < rows[thread[t].pending].expires

\* A call on its way to ERPNext was sent for the session the row belongs to, and
\* whoever waits for it was still allowed to write when it confirmed, whatever
\* it was allowed when it prepared.
SentWithAuthority ==
    /\ \A m \in requested :
        Claimed(m.pending) /\ m.session = rows[m.pending].owner /\ m.call = rows[m.pending].call
    /\ \A t \in Threads :
        thread[t].pc \in {"send", "await", "readback"} => thread[t].permitted

\* "completed" is never claimed for a document ERPNext does not have.
CompletedIsWritten ==
    \A p \in PendingIds :
        Exists(p) /\ rows[p].status = "completed" => copies[p][rows[p].call] = 1

\* No two handlers are ever past the claim of one operation.
OneClaimant ==
    \A t, u \in Threads, p \in PendingIds : Works(t, p) /\ Works(u, p) => t = u

\* A row is never deleted, and what it froze never changes; its status moves
\* forward, but for a completed row whose own handler reports a failure.
Forward == {<<"pending", "executing">>, <<"pending", "expired">>,
            <<"executing", "completed">>, <<"executing", "failed">>,
            <<"completed", "failed">>}

FrozenForGood ==
    [][\A p \in PendingIds : Exists(p) =>
          /\ rows'[p] = [rows[p] EXCEPT !.status = rows'[p].status]
          /\ rows'[p].status # rows[p].status =>
                <<rows[p].status, rows'[p].status>> \in Forward]_vars

\* A confirmation ends in an outcome, unless the database failed or the process
\* died on the way: nothing ever picks up a row left in "executing".
EveryClaimSettles ==
    \A p \in PendingIds :
        (Exists(p) /\ rows[p].status = "executing")
            ~> (faults > 0 \/ (Exists(p) /\ rows[p].status \in Settled))

\* The employee decides on the summary the answer showed (ADR-004): what was
\* shown for a pending_id is what the row froze.
ShownIsFrozen ==
    \A p \in PendingIds : Exists(p) => shown[p] \subseteq {rows[p].call}

\* docs/operations/agent-workbench.md: a confirmation whose catalog revision
\* does not match is refused.
ClaimedOnItsRevision ==
    [][\A p \in PendingIds :
          Exists(p) /\ rows[p].status = "pending" /\ rows'[p].status = "executing"
              => rows[p].revision = revision]_vars

-----------------------------------------------------------------------------
(* Refinement: the protocol implements the promise of ConfirmedWrite.       *)
Offer == [p \in PendingIds |-> IF Exists(p) THEN {rows[p].call} ELSE {}]

Consent == [p \in PendingIds |->
    IF ~Exists(p) THEN "none"
    ELSE CASE rows[p].status = "pending" -> "asked"
           [] rows[p].status = "expired" -> "lapsed"
           [] OTHER                      -> "given"]

Answer == [p \in PendingIds |->
    IF Exists(p) /\ rows[p].status = "completed" THEN "done"
    ELSE IF Exists(p) /\ rows[p].status = "failed" THEN "unsure"
    ELSE "open"]

Promise == INSTANCE ConfirmedWrite
    WITH Operations <- PendingIds, offer <- Offer, consent <- Consent,
         written <- copies, answer <- Answer

\* Every behaviour of the protocol is one of a write that happens at most once,
\* as offered, and only after consent.
KeepsPromise == Promise!Spec
=============================================================================
