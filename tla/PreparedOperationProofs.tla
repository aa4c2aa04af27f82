----------------------- MODULE PreparedOperationProofs -----------------------
(***************************************************************************)
(* Proofs about PreparedOperation for any number of sessions, threads,     *)
(* rows and calls: the inductive invariant IInv, the safety properties it  *)
(* implies, and the refinement of ConfirmedWrite.                          *)
(***************************************************************************)
EXTENDS PreparedOperation, TLAPS

-----------------------------------------------------------------------------
(* The inductive invariant.                                                 *)

\* Nothing has been sent or written for p.
Untouched(p) ==
    /\ \A m \in requested : m.pending # p
    /\ \A c \in Calls : copies[p][c] = 0

\* What a handler that has claimed its row may rely on.
WorkerOK(t) ==
    thread[t].pc \in WorkPC =>
        LET th == thread[t]
            p  == thread[t].pending IN
        /\ Claimed(p)
        /\ rows[p].owner = th.session
        /\ rows[p].call = th.call
        /\ th.pc \notin {"reread", "salvage"} => rows[p].status = "executing"
        /\ th.pc = "reread" => rows[p].status = th.outcome
        /\ th.pc \in {"send", "await", "readback"} => th.permitted
        /\ th.pc \in {"check", "send", "await", "readback"} => th.at < rows[p].expires
        /\ th.pc \in {"check", "send"} => Untouched(p)
        /\ th.pc = "readback" \/ th.outcome = "completed" => copies[p][th.call] = 1

ClaimantOK == \A t \in Threads : thread[t].pc = "claim" => Exists(thread[t].pending)

\* A message on its way is the only one for its row, which has no copy yet.
MessageOK(m) ==
    /\ Claimed(m.pending)
    /\ m.session = rows[m.pending].owner
    /\ m.call = rows[m.pending].call
    /\ \A c \in Calls : copies[m.pending][c] = 0
    /\ \A n \in requested : n.pending = m.pending => n = m

CopiesOK ==
    \A p \in PendingIds, c \in Calls :
        copies[p][c] > 0 => Claimed(p) /\ c = rows[p].call /\ copies[p][c] = 1

IInv ==
    /\ TypeOK
    /\ \A t \in Threads : WorkerOK(t)
    /\ ClaimantOK
    /\ OneClaimant
    /\ \A m \in requested : MessageOK(m)
    /\ CopiesOK
    /\ CompletedIsWritten

-----------------------------------------------------------------------------
(* Types.                                                                   *)

\* The program counter of a thread tells which record it is.
LEMMA ThreadKind ==
    ASSUME TypeOK, NEW t \in Threads
    PROVE  /\ thread[t].pc = "idle" => thread[t] = Idle
           /\ thread[t].pc = "insert" => thread[t] \in Preparing
           /\ thread[t].pc = "claim" => thread[t] \in Claiming
           /\ thread[t].pc \in WorkPC => thread[t] \in Working
BY DEF TypeOK, Idle, Preparing, Claiming, Working, WorkPC

\* A status change keeps the rest of the row, and every other row.
LEMMA StatusUpdate ==
    ASSUME TypeOK, NEW p \in PendingIds, rows[p] \in Row, NEW st \in Status, SetStatus(p, st)
    PROVE  /\ rows' \in [PendingIds -> Row \cup {NoRow}]
           /\ rows'[p] \in Row
           /\ rows'[p].status = st
           /\ rows'[p].owner = rows[p].owner /\ rows'[p].call = rows[p].call
           /\ rows'[p].expires = rows[p].expires
           /\ rows'[p] = [rows[p] EXCEPT !.status = st]
           /\ \A q \in PendingIds \ {p} : rows'[q] = rows[q]
BY DEF TypeOK, SetStatus, Row

\* A jump keeps what the thread works on, and every other thread.
LEMMA Jump ==
    ASSUME TypeOK, NEW t \in Threads, thread[t] \in Working, NEW pc \in WorkPC, NEW o \in Settled,
           Goto(t, pc) \/ GotoWith(t, pc, o)
    PROVE  /\ thread' \in [Threads -> {Idle} \cup Preparing \cup Claiming \cup Working]
           /\ thread'[t] \in Working
           /\ thread'[t].pc = pc
           /\ thread'[t].pending = thread[t].pending
           /\ thread'[t].call = thread[t].call
           /\ thread'[t].session = thread[t].session
           /\ thread'[t].permitted = thread[t].permitted
           /\ thread'[t].at = thread[t].at
           /\ Goto(t, pc) => thread'[t].outcome = thread[t].outcome
           /\ GotoWith(t, pc, o) => thread'[t].outcome = o
           /\ \A u \in Threads \ {t} : thread'[u] = thread[u]
<1>1. CASE Goto(t, pc)
  <2>1. thread'[t] = [thread[t] EXCEPT !.pc = pc]
    BY <1>1 DEF Goto, TypeOK
  <2>2. thread'[t] \in Working
    BY <2>1 DEF Working
  <2>3. QED
    BY <1>1, <2>1, <2>2 DEF Goto, GotoWith, Working, TypeOK
<1>2. CASE GotoWith(t, pc, o)
  <2>1. thread'[t] = [thread[t] EXCEPT !.pc = pc, !.outcome = o]
    BY <1>2 DEF GotoWith, TypeOK, Working
  <2>2. thread'[t] \in Working
    BY <2>1 DEF Working
  <2>3. QED
    BY <1>2, <2>1, <2>2 DEF Goto, GotoWith, Working, TypeOK
<1>3. QED
  BY <1>1, <1>2

\* The type invariant is inductive by itself, given that a claim names a row.
LEMMA TypeStep == TypeOK /\ ClaimantOK /\ (\A t \in Threads : WorkerOK(t)) /\ [Next]_vars => TypeOK'
<1> SUFFICES ASSUME TypeOK, ClaimantOK, \A t \in Threads : WorkerOK(t), [Next]_vars
             PROVE  TypeOK'
  OBVIOUS
<1> USE BoundsAssumption
<1>1. ASSUME NEW t \in Threads, NEW s \in Sessions, NEW r \in Requests, NEW c \in Calls,
             Prepare(t, s, r, c)
      PROVE  TypeOK'
  BY <1>1 DEF TypeOK, Prepare, Preparing, dbVars, erpVars
<1>2. ASSUME NEW t \in Threads, NEW p \in PendingIds, InsertPending(t, p)
      PROVE  TypeOK'
  <2>1. thread[t] \in Preparing
    BY <1>2, ThreadKind DEF InsertPending
  <2>2. rows'[p] \in Row
    BY <1>2, <2>1 DEF InsertPending, Preparing, Row, TypeOK, Status
  <2>3. QED
    BY <1>2, <2>1, <2>2 DEF TypeOK, InsertPending, Return, Preparing, erpVars
<1>3. ASSUME NEW t \in Threads, NEW p \in PendingIds, ReusePending(t, p)
      PROVE  TypeOK'
  <2>1. thread[t] \in Preparing
    BY <1>3, ThreadKind DEF ReusePending
  <2>2. QED
    BY <1>3, <2>1 DEF TypeOK, ReusePending, Return, Preparing, erpVars, dbVars
<1>4. ASSUME NEW t \in Threads, NEW s \in Sessions, NEW p \in PendingIds, Execute(t, s, p)
      PROVE  TypeOK'
  BY <1>4 DEF TypeOK, Execute, Claiming, dbVars, erpVars
<1>5. ASSUME NEW t \in Threads, ClaimRefused(t)
      PROVE  TypeOK'
  BY <1>5 DEF TypeOK, ClaimRefused, Return, dbVars, erpVars
<1>6. ASSUME NEW t \in Threads, ClaimExpired(t)
      PROVE  TypeOK'
  <2>1. thread[t] \in Claiming /\ rows[thread[t].pending] \in Row
    BY <1>6, ThreadKind DEF ClaimExpired, ClaimantOK, Claiming, TypeOK, Exists
  <2>2. rows' \in [PendingIds -> Row \cup {NoRow}]
    BY <1>6, <2>1 DEF ClaimExpired, SetStatus, Claiming, TypeOK, Row, Status
  <2>3. QED
    BY <1>6, <2>2 DEF TypeOK, ClaimExpired, Return, erpVars
<1>7. ASSUME NEW t \in Threads, ClaimPending(t)
      PROVE  TypeOK'
  <2>1. thread[t] \in Claiming /\ rows[thread[t].pending] \in Row
    BY <1>7, ThreadKind DEF ClaimPending, ClaimantOK, Claiming, TypeOK, Exists
  <2>2. rows' \in [PendingIds -> Row \cup {NoRow}]
    BY <1>7, <2>1 DEF ClaimPending, SetStatus, Claiming, TypeOK, Row, Status
  <2>3. thread'[t] \in Working
    BY <1>7, <2>1 DEF ClaimPending, Claiming, Working, WorkPC, Settled, Row, TypeOK
  <2>4. QED
    BY <1>7, <2>2, <2>3 DEF TypeOK, ClaimPending, erpVars
<1>8. ASSUME NEW t \in Threads,
             \/ CheckOperation(t) \/ ReceiveOk(t) \/ ReceiveFailure(t) \/ VerifyReadback(t)
      PROVE  TypeOK'
  <2>1. thread[t] \in Working
    BY <1>8, ThreadKind DEF CheckOperation, ReceiveOk, ReceiveFailure, VerifyReadback, WorkPC
  <2>2. \E pc \in WorkPC, o \in Settled : Goto(t, pc) \/ GotoWith(t, pc, o)
    BY <1>8 DEF CheckOperation, ReceiveOk, ReceiveFailure, VerifyReadback, WorkPC, Settled
  <2>3. QED
    BY <1>8, <2>1, <2>2, Jump DEF TypeOK, CheckOperation, ReceiveOk, ReceiveFailure, VerifyReadback,
                      dbVars, erpVars
<1>9. ASSUME NEW t \in Threads, SendToolCall(t)
      PROVE  TypeOK'
  <2>1. thread[t] \in Working
    BY <1>9, ThreadKind DEF SendToolCall, WorkPC
  <2>2. thread' \in [Threads -> {Idle} \cup Preparing \cup Claiming \cup Working]
    BY <1>9, <2>1 DEF SendToolCall, Goto, Working, WorkPC, TypeOK
  <2>3. requested' \subseteq Message
    BY <1>9, <2>1 DEF SendToolCall, Working, Message, TypeOK
  <2>4. QED
    BY <1>9, <2>2, <2>3 DEF TypeOK, SendToolCall, dbVars
<1>10. ASSUME NEW t \in Threads, FinishPending(t) \/ SalvageFailed(t)
       PROVE  TypeOK'
  <2>1. thread[t] \in Working
    BY <1>10, ThreadKind DEF FinishPending, SalvageFailed, WorkPC
  <2>2. rows[thread[t].pending] \in Row
    BY <1>10, <2>1 DEF FinishPending, SalvageFailed, WorkPC, WorkerOK, Claimed, Exists,
                       Working, TypeOK
  <2>3. rows' \in [PendingIds -> Row \cup {NoRow}]
    BY <1>10, <2>1, <2>2, StatusUpdate DEF FinishPending, SalvageFailed, Working, Status, Settled
  <2>4. thread' \in [Threads -> {Idle} \cup Preparing \cup Claiming \cup Working]
    BY <1>10, <2>1 DEF FinishPending, SalvageFailed, Goto, Return, Working, WorkPC, TypeOK
  <2>5. QED
    BY <1>10, <2>3, <2>4 DEF TypeOK, FinishPending, SalvageFailed, erpVars
<1>11. ASSUME NEW t \in Threads, RereadPending(t)
       PROVE  TypeOK'
  BY <1>11 DEF TypeOK, RereadPending, Return, dbVars, erpVars
<1>12. ASSUME NEW t \in Threads, DatabaseFault(t)
       PROVE  TypeOK'
  <2>1. thread' \in [Threads -> {Idle} \cup Preparing \cup Claiming \cup Working]
    <3>1. CASE thread[t].pc \in {"finish", "reread"} /\ Goto(t, "salvage")
      BY <3>1, ThreadKind DEF Goto, Working, WorkPC, TypeOK
    <3>2. CASE Return(t)
      BY <3>2 DEF Return, TypeOK
    <3>3. QED
      BY <1>12, <3>1, <3>2 DEF DatabaseFault
  <2>2. QED
    BY <1>12, <2>1 DEF TypeOK, DatabaseFault, dbVars, erpVars
<1>13. ASSUME NEW m \in requested, ErpWrite(m) \/ ErpRefuse(m)
       PROVE  TypeOK'
  <2>1. m \in Message
    BY DEF TypeOK
  <2>2. copies' \in [PendingIds -> [Calls -> Nat]]
    BY <1>13, <2>1 DEF ErpWrite, ErpRefuse, Message, TypeOK
  <2>3. QED
    BY <1>13, <2>2 DEF TypeOK, ErpWrite, ErpRefuse, dbVars
<1>14. CASE Crash \/ Tick \/ PublishRevision
  BY <1>14 DEF TypeOK, Crash, Tick, PublishRevision, dbVars, erpVars
<1>15. ASSUME NEW s \in Sessions, ChangeProfile(s)
       PROVE  TypeOK'
  BY <1>15 DEF TypeOK, ChangeProfile, erpVars
<1>16. CASE UNCHANGED vars
  BY <1>16 DEF TypeOK, vars
<1>17. QED
  BY <1>1, <1>2, <1>3, <1>4, <1>5, <1>6, <1>7, <1>8, <1>9, <1>10, <1>11, <1>12, <1>13,
     <1>14, <1>15, <1>16 DEF Next, HandlerStep
-----------------------------------------------------------------------------
(* The rest of the invariant, without the types.                            *)
Facts ==
    /\ \A t \in Threads : WorkerOK(t)
    /\ ClaimantOK
    /\ OneClaimant
    /\ \A m \in requested : MessageOK(m)
    /\ CopiesOK
    /\ CompletedIsWritten

\* A step that leaves the table and ERPNext alone and lets threads only stop
\* working, or stop claiming, or start something that has no claim.
LEMMA QuietStep ==
    ASSUME IInv, UNCHANGED <<rows, requested, copies>>,
           \A t \in Threads :
               \/ thread'[t] = thread[t]
               \/ thread'[t].pc \in {"idle", "insert"}
               \/ thread'[t].pc = "claim" /\ Exists(thread'[t].pending)
    PROVE  Facts'
<1>1. \A t \in Threads : WorkerOK(t)'
  BY DEF IInv, WorkerOK, Untouched, Claimed, Exists, WorkPC
<1>2. ClaimantOK' /\ OneClaimant'
  BY DEF IInv, ClaimantOK, OneClaimant, Works, Exists, WorkPC
<1>3. QED
  BY <1>1, <1>2 DEF IInv, Facts, MessageOK, CopiesOK, CompletedIsWritten, Claimed, Exists

\* A worker that jumps to another program counter with the table and ERPNext left alone.
LEMMA JumpStep ==
    ASSUME IInv, UNCHANGED <<rows, requested, copies>>,
           NEW t \in Threads, thread[t] \in Working, NEW pc \in WorkPC, NEW o \in Settled,
           Goto(t, pc) \/ GotoWith(t, pc, o),
           WorkerOK(t)'
    PROVE  Facts'
<1> TypeOK
  BY DEF IInv
<1>1. /\ thread[t].pc \in WorkPC
      /\ thread'[t].pc = pc /\ thread'[t].pending = thread[t].pending
      /\ \A u \in Threads \ {t} : thread'[u] = thread[u]
  BY Jump DEF Working
<1>2. \A u \in Threads : WorkerOK(u)'
  BY <1>1 DEF IInv, WorkerOK, Untouched, Claimed, Exists
<1>3. ClaimantOK' /\ OneClaimant'
  BY <1>1 DEF IInv, ClaimantOK, OneClaimant, Works, Exists, WorkPC
<1>4. QED
  BY <1>2, <1>3 DEF IInv, Facts, MessageOK, CopiesOK, CompletedIsWritten, Claimed, Exists

\* The worker of a row gives it its outcome.
LEMMA SettleStep ==
    ASSUME IInv, UNCHANGED <<requested, copies>>,
           NEW t \in Threads, FinishPending(t) \/ SalvageFailed(t)
    PROVE  Facts'
<1> DEFINE p  == thread[t].pending
           st == IF thread[t].pc = "finish" THEN thread[t].outcome ELSE "failed"
<1> TypeOK
  BY DEF IInv
<1>1. thread[t] \in Working /\ thread[t].pc \in {"finish", "salvage"}
  BY ThreadKind DEF FinishPending, SalvageFailed, WorkPC
<1>2. /\ p \in PendingIds /\ Claimed(p) /\ rows[p] \in Row
      /\ rows[p].owner = thread[t].session /\ rows[p].call = thread[t].call
      /\ thread[t].outcome = "completed" => copies[p][thread[t].call] = 1
  BY <1>1 DEF IInv, WorkerOK, Claimed, Exists, Working, WorkPC, TypeOK
<1>3. SetStatus(p, st) /\ st \in Settled
  BY <1>1 DEF FinishPending, SalvageFailed, Working, Settled
<1>4. /\ rows'[p].status = st /\ rows'[p] \in Row
      /\ rows'[p].owner = rows[p].owner /\ rows'[p].call = rows[p].call
      /\ \A q \in PendingIds \ {p} : rows'[q] = rows[q]
  BY <1>2, <1>3, StatusUpdate DEF Settled, Status
<1>5. /\ \A q \in PendingIds : Claimed(q) => Claimed(q)' /\ rows'[q].owner = rows[q].owner
                                                         /\ rows'[q].call = rows[q].call
      /\ \A q \in PendingIds : Exists(q) => Exists(q)'
  BY <1>2, <1>3, <1>4, NoRowAssumption DEF Claimed, Exists
<1>6. /\ \A u \in Threads \ {t} : thread'[u] = thread[u]
      /\ \/ thread'[t] = Idle
         \/ /\ thread'[t].pc = "reread"
            /\ thread'[t].pending = p /\ thread'[t].call = thread[t].call
            /\ thread'[t].session = thread[t].session
            /\ thread'[t].outcome = thread[t].outcome
            /\ st = thread[t].outcome
  <2>1. CASE FinishPending(t)
    BY <1>1, <2>1, Jump DEF FinishPending, WorkPC, Working
  <2>2. CASE SalvageFailed(t)
    BY <1>1, <2>2 DEF SalvageFailed, Return, TypeOK
  <2>3. QED
    BY <2>1, <2>2
<1>7. ASSUME NEW u \in Threads
      PROVE  WorkerOK(u)'
  <2>1. CASE u = t
    BY <1>2, <1>4, <1>5, <1>6, <2>1 DEF WorkerOK, Idle, WorkPC
  <2>2. CASE u # t /\ thread[u].pc \in WorkPC
    <3>1. thread[u].pending \in PendingIds \ {p} /\ thread'[u] = thread[u]
      BY <1>1, <1>6, <2>2, ThreadKind DEF IInv, OneClaimant, Works, Working
    <3>2. rows'[thread[u].pending] = rows[thread[u].pending]
      BY <1>4, <3>1
    <3>3. QED
      BY <2>2, <3>1, <3>2 DEF IInv, WorkerOK, Untouched, Claimed, Exists
  <2>3. CASE u # t /\ thread[u].pc \notin WorkPC
    BY <1>6, <2>3 DEF WorkerOK
  <2>4. QED
    BY <2>1, <2>2, <2>3
<1>8. ClaimantOK'
  <2>1. ASSUME NEW u \in Threads, thread'[u].pc = "claim"
        PROVE  Exists(thread[u].pending)'
    <3>1. u # t /\ thread'[u] = thread[u]
      BY <1>6, <2>1 DEF Idle
    <3>2. thread[u].pending \in PendingIds /\ Exists(thread[u].pending)
      BY <2>1, <3>1, ThreadKind DEF IInv, ClaimantOK, Claiming
    <3>3. QED
      BY <1>5, <3>1, <3>2 DEF Exists
  <2>2. QED
    BY <2>1 DEF ClaimantOK, Exists
<1>9. OneClaimant'
  BY <1>1, <1>6 DEF IInv, OneClaimant, Works, Idle, WorkPC
<1>10. ASSUME NEW m \in requested'
       PROVE  MessageOK(m)'
  <2>1. m \in requested /\ m.pending \in PendingIds /\ MessageOK(m)
    BY DEF IInv, TypeOK, Message
  <2>2. QED
    BY <1>5, <2>1 DEF MessageOK
<1>11. CopiesOK'
  BY <1>5 DEF IInv, CopiesOK
<1>12. CompletedIsWritten'
  <2>1. ASSUME NEW q \in PendingIds, Exists(q)', rows'[q].status = "completed"
        PROVE  copies'[q][rows'[q].call] = 1
    <3>1. CASE q = p
      BY <1>1, <1>2, <1>4, <2>1, <3>1
    <3>2. CASE q # p
      BY <1>4, <2>1, <3>2 DEF IInv, CompletedIsWritten, Exists
    <3>3. QED
      BY <3>1, <3>2
  <2>2. QED
    BY <2>1 DEF CompletedIsWritten
<1>13. QED
  BY <1>7, <1>8, <1>9, <1>10, <1>11, <1>12 DEF Facts

\* The claim: the row becomes executing and the thread its only worker.
LEMMA ClaimStep ==
    ASSUME IInv, NEW t \in Threads, ClaimPending(t)
    PROVE  Facts'
<1> DEFINE p == thread[t].pending
<1> TypeOK
  BY DEF IInv
<1>1. thread[t] \in Claiming /\ p \in PendingIds /\ rows[p] \in Row
  BY ThreadKind DEF ClaimPending, IInv, ClaimantOK, Claiming, TypeOK, Exists
<1>2. /\ rows[p].status = "pending" /\ rows[p].owner = thread[t].session
      /\ thread[t].at < rows[p].expires
      /\ UNCHANGED <<requested, copies>>
  BY <1>1, SMT DEF ClaimPending, Owns, Claiming, Row, erpVars
<1>3. /\ rows'[p].status = "executing" /\ rows'[p] \in Row
      /\ rows'[p].expires = rows[p].expires
      /\ rows'[p].owner = rows[p].owner /\ rows'[p].call = rows[p].call
      /\ \A q \in PendingIds \ {p} : rows'[q] = rows[q]
  BY <1>1, StatusUpdate DEF ClaimPending, Status
<1>4. /\ \A u \in Threads \ {t} : thread'[u] = thread[u]
      /\ thread'[t].pc = "check" /\ thread'[t].pending = p
      /\ thread'[t].session = thread[t].session /\ thread'[t].call = rows[p].call
      /\ thread'[t].outcome = "failed" /\ thread'[t].at = thread[t].at
  BY DEF ClaimPending, TypeOK
<1>5. ~Claimed(p) /\ Untouched(p)
  BY <1>1, <1>2 DEF IInv, Claimed, Settled, Untouched, MessageOK, CopiesOK, TypeOK
<1>6. \A q \in PendingIds \ {p} : (Claimed(q)' <=> Claimed(q)) /\ (Exists(q)' <=> Exists(q))
  BY <1>3 DEF Claimed, Exists
<1>7. Claimed(p)'
  BY <1>3, <1>4, NoRowAssumption DEF Claimed, Exists
<1>8. \A u \in Threads : thread[u].pc \in WorkPC =>
          thread[u].pending \in PendingIds \ {p} /\ thread'[u] = thread[u]
  BY <1>1, <1>4, <1>5, ThreadKind DEF IInv, WorkerOK, Working, Claiming, WorkPC
<1>9. ASSUME NEW u \in Threads
      PROVE  WorkerOK(u)'
  <2>1. CASE u = t
    BY <1>2, <1>3, <1>4, <1>5, <1>7, <2>1 DEF WorkerOK, Untouched, Claimed, Exists
  <2>2. CASE u # t /\ thread[u].pc \in WorkPC
    BY <1>2, <1>3, <1>8, <2>2 DEF IInv, WorkerOK, Untouched, Claimed, Exists
  <2>3. CASE u # t /\ thread[u].pc \notin WorkPC
    BY <1>4, <2>3 DEF WorkerOK
  <2>4. QED
    BY <2>1, <2>2, <2>3
<1>10. ClaimantOK'
  <2>1. ASSUME NEW u \in Threads, thread'[u].pc = "claim"
        PROVE  Exists(thread[u].pending)'
    <3>1. u # t /\ thread'[u] = thread[u]
      BY <1>4, <2>1
    <3>2. thread[u].pending \in PendingIds /\ Exists(thread[u].pending)
      BY <2>1, <3>1, ThreadKind DEF IInv, ClaimantOK, Claiming
    <3>3. QED
      BY <1>4, <1>6, <1>7, <3>1, <3>2 DEF Exists, Claimed
  <2>2. QED
    BY <2>1 DEF ClaimantOK, Exists
<1>11. OneClaimant'
  BY <1>4, <1>8 DEF IInv, OneClaimant, Works, WorkPC
<1>12. ASSUME NEW m \in requested'
       PROVE  MessageOK(m)'
  <2>1. m \in requested /\ m.pending \in PendingIds \ {p} /\ MessageOK(m)
    BY <1>2, <1>5 DEF IInv, TypeOK, Message, Untouched
  <2>2. QED
    BY <1>2, <1>3, <2>1 DEF MessageOK, Claimed, Exists
<1>13. CopiesOK' /\ CompletedIsWritten'
  <2>1. \A c \in Calls : ~(copies'[p][c] > 0)
    BY <1>2, <1>5 DEF Untouched
  <2>2. CopiesOK'
    BY <1>2, <1>3, <2>1 DEF IInv, CopiesOK, Claimed, Exists
  <2>3. CompletedIsWritten'
    BY <1>2, <1>3 DEF IInv, CompletedIsWritten, Exists
  <2>4. QED
    BY <2>2, <2>3
<1>14. QED
  BY <1>9, <1>10, <1>11, <1>12, <1>13 DEF Facts

\* A row nobody has claimed appears or lapses.
LEMMA UnclaimedStep ==
    ASSUME IInv, UNCHANGED <<requested, copies>>, NEW p \in PendingIds, ~Claimed(p),
           rows'[p] \in Row, rows'[p].status \in {"pending", "expired"},
           \A q \in PendingIds \ {p} : rows'[q] = rows[q],
           NEW t \in Threads, thread' = [thread EXCEPT ![t] = Idle]
    PROVE  Facts'
<1> TypeOK
  BY DEF IInv
<1>1. /\ \A u \in Threads \ {t} : thread'[u] = thread[u]
      /\ thread'[t].pc = "idle"
  BY DEF Idle, TypeOK
<1>2. Untouched(p) /\ Exists(p)'
  BY NoRowAssumption DEF IInv, Claimed, Untouched, MessageOK, CopiesOK, TypeOK, Exists
<1>3. \A u \in Threads : thread[u].pc \in WorkPC => thread[u].pending \in PendingIds \ {p}
  BY ThreadKind DEF IInv, WorkerOK, Working
<1>4. \A u \in Threads : WorkerOK(u)'
  BY <1>1, <1>3 DEF IInv, WorkerOK, Untouched, Claimed, Exists, WorkPC
<1>5. ClaimantOK'
  BY <1>1, <1>2, ThreadKind DEF IInv, ClaimantOK, Claiming, Exists
<1>6. OneClaimant'
  BY <1>1 DEF IInv, OneClaimant, Works, WorkPC
<1>7. ASSUME NEW m \in requested'
      PROVE  MessageOK(m)'
  <2>1. m \in requested /\ m.pending \in PendingIds \ {p} /\ MessageOK(m)
    BY <1>2 DEF IInv, TypeOK, Message, Untouched
  <2>2. QED
    BY <2>1 DEF MessageOK, Claimed, Exists
<1>8. CopiesOK' /\ CompletedIsWritten'
  <2>1. \A c \in Calls : ~(copies'[p][c] > 0)
    BY <1>2 DEF Untouched
  <2>2. CopiesOK'
    BY <2>1 DEF IInv, CopiesOK, Claimed, Exists
  <2>3. CompletedIsWritten'
    BY DEF IInv, CompletedIsWritten, Exists
  <2>4. QED
    BY <2>2, <2>3
<1>9. QED
  BY <1>4, <1>5, <1>6, <1>7, <1>8 DEF Facts

\* The only worker of an untouched row sends its call.
LEMMA SendStep ==
    ASSUME IInv, NEW t \in Threads, SendToolCall(t)
    PROVE  Facts'
<1> DEFINE p == thread[t].pending
           n == [thread |-> t, session |-> thread[t].session,
                 pending |-> p, call |-> thread[t].call]
<1> TypeOK
  BY DEF IInv
<1>1. thread[t] \in Working /\ thread[t].pc = "send" /\ p \in PendingIds
  BY ThreadKind DEF SendToolCall, WorkPC, Working
<1>2. WorkerOK(t) /\ Untouched(p)
  BY <1>1 DEF IInv, WorkerOK, WorkPC
<1>3. requested' = requested \cup {n} /\ UNCHANGED <<rows, copies>>
  BY DEF SendToolCall, dbVars
<1>4. /\ thread'[t].pc = "await" /\ thread'[t].pending = p
      /\ thread'[t].call = thread[t].call /\ thread'[t].session = thread[t].session
      /\ thread'[t].permitted = thread[t].permitted
      /\ thread'[t].outcome = thread[t].outcome /\ thread'[t].at = thread[t].at
      /\ \A u \in Threads \ {t} : thread'[u] = thread[u]
  BY <1>1, Jump DEF SendToolCall, WorkPC, Working
<1>5. ASSUME NEW u \in Threads
      PROVE  WorkerOK(u)'
  <2>1. CASE u = t
    BY <1>1, <1>2, <1>3, <1>4, <2>1 DEF WorkerOK, Claimed, Exists, WorkPC
  <2>2. CASE u # t /\ thread[u].pc \in WorkPC
    <3>1. thread[u].pending # p /\ thread'[u] = thread[u]
      BY <1>1, <1>4, <2>2, ThreadKind DEF IInv, OneClaimant, Works, Working, WorkPC
    <3>2. Untouched(thread[u].pending) => Untouched(thread[u].pending)'
      BY <1>3, <3>1 DEF Untouched
    <3>3. QED
      BY <1>3, <2>2, <3>1, <3>2 DEF IInv, WorkerOK, Claimed, Exists
  <2>3. CASE u # t /\ thread[u].pc \notin WorkPC
    BY <1>4, <2>3 DEF WorkerOK
  <2>4. QED
    BY <2>1, <2>2, <2>3
<1>6. ClaimantOK' /\ OneClaimant'
  BY <1>1, <1>3, <1>4 DEF IInv, ClaimantOK, OneClaimant, Works, Exists, WorkPC
<1>7. ASSUME NEW m \in requested'
      PROVE  MessageOK(m)'
  <2>1. CASE m = n
    BY <1>1, <1>2, <1>3, <2>1 DEF WorkerOK, WorkPC, Untouched, MessageOK, Claimed, Exists
  <2>2. CASE m \in requested
    <3>1. m.pending # p /\ MessageOK(m)
      BY <1>2, <2>2 DEF IInv, Untouched
    <3>2. QED
      BY <1>3, <2>2, <3>1 DEF MessageOK, Claimed, Exists
  <2>3. QED
    BY <1>3, <2>1, <2>2
<1>8. CopiesOK' /\ CompletedIsWritten'
  BY <1>3 DEF IInv, CopiesOK, CompletedIsWritten, Claimed, Exists
<1>9. QED
  BY <1>5, <1>6, <1>7, <1>8 DEF Facts

\* ERPNext applies or drops a message.
LEMMA ErpStep ==
    ASSUME IInv, NEW n \in requested, ErpWrite(n) \/ ErpRefuse(n)
    PROVE  Facts'
<1> TypeOK
  BY DEF IInv
<1>1. /\ n \in Message /\ MessageOK(n)
      /\ requested' = requested \ {n} /\ UNCHANGED <<rows, thread>>
  BY DEF IInv, TypeOK, ErpWrite, ErpRefuse, dbVars
<1>2. /\ \A q \in PendingIds \ {n.pending} : copies'[q] = copies[q]
      /\ copies'[n.pending] = copies[n.pending]
           \/ /\ copies'[n.pending][n.call] = 1
              /\ \A c \in Calls \ {n.call} : copies'[n.pending][c] = 0
  BY <1>1 DEF ErpWrite, ErpRefuse, TypeOK, Message, MessageOK
<1>3. n.pending \in PendingIds /\ n.call \in Calls
  BY <1>1 DEF Message
<1>4. ASSUME NEW u \in Threads
      PROVE  WorkerOK(u)'
  <2>1. CASE thread[u].pc \in WorkPC
    <3> DEFINE p == thread[u].pending
    <3>1. p \in PendingIds /\ thread[u].call \in Calls /\ WorkerOK(u)
      BY <2>1, ThreadKind DEF IInv, Working
    <3>2. Untouched(p) => p # n.pending
      BY DEF Untouched
    <3>3. copies[p][thread[u].call] = 1 => p # n.pending
      BY <1>1, <3>1 DEF MessageOK
    <3>4. p # n.pending => (Untouched(p) => Untouched(p)')
      BY <1>1, <1>2, <3>1 DEF Untouched
    <3>5. QED
      BY <1>1, <1>2, <2>1, <3>1, <3>2, <3>3, <3>4 DEF WorkerOK, Claimed, Exists
  <2>2. CASE thread[u].pc \notin WorkPC
    BY <1>1, <2>2 DEF WorkerOK
  <2>3. QED
    BY <2>1, <2>2
<1>5. ClaimantOK' /\ OneClaimant'
  BY <1>1 DEF IInv, ClaimantOK, OneClaimant, Works, Exists
<1>6. ASSUME NEW m \in requested'
      PROVE  MessageOK(m)'
  <2>1. m \in requested /\ m # n /\ MessageOK(m) /\ m.pending \in PendingIds
    BY <1>1 DEF IInv, TypeOK, Message
  <2>2. m.pending # n.pending
    BY <2>1 DEF MessageOK
  <2>3. QED
    BY <1>1, <1>2, <2>1, <2>2 DEF MessageOK, Claimed, Exists
<1>7. CopiesOK'
  <2>1. ASSUME NEW q \in PendingIds, NEW c \in Calls, copies'[q][c] > 0
        PROVE  Claimed(q) /\ c = rows[q].call /\ copies'[q][c] = 1
    <3>1. CASE q # n.pending
      BY <1>2, <2>1, <3>1 DEF IInv, CopiesOK
    <3>2. CASE q = n.pending
      BY <1>1, <1>2, <1>3, <2>1, <3>2 DEF MessageOK
    <3>3. QED
      BY <3>1, <3>2
  <2>2. QED
    BY <1>1, <2>1 DEF CopiesOK, Claimed, Exists
<1>8. CompletedIsWritten'
  <2>1. ASSUME NEW q \in PendingIds, Exists(q), rows[q].status = "completed"
        PROVE  copies'[q][rows[q].call] = 1
    <3>1. copies[q][rows[q].call] = 1 /\ rows[q].call \in Calls
      BY <2>1 DEF IInv, CompletedIsWritten, TypeOK, Row, Exists
    <3>2. q # n.pending
      BY <1>1, <3>1 DEF MessageOK
    <3>3. QED
      BY <1>2, <3>1, <3>2
  <2>2. QED
    BY <1>1, <2>1 DEF CompletedIsWritten, Exists
<1>9. QED
  BY <1>4, <1>5, <1>6, <1>7, <1>8 DEF Facts
-----------------------------------------------------------------------------
(* The inductive invariant holds.                                           *)
\* The initial states satisfy it: there is no row, no handler and no message.
LEMMA InvInit == Init => IInv
<1> SUFFICES ASSUME Init PROVE IInv
  OBVIOUS
<1>1. TypeOK
  BY DEF Init, TypeOK
<1>2. \A t \in Threads : WorkerOK(t)
  BY DEF Init, WorkerOK, Idle, WorkPC
<1>3. ClaimantOK /\ OneClaimant
  BY DEF Init, ClaimantOK, OneClaimant, Works, Idle, WorkPC
<1>4. CopiesOK /\ CompletedIsWritten
  BY DEF Init, CopiesOK, CompletedIsWritten, Exists
<1>5. QED
  BY <1>1, <1>2, <1>3, <1>4 DEF Init, IInv

\* Every step keeps it, one case per action of Next.
LEMMA InvStep == IInv /\ [Next]_vars => IInv'
<1> SUFFICES ASSUME IInv, [Next]_vars
             PROVE  IInv'
  OBVIOUS
<1> TypeOK /\ ClaimantOK /\ \A u \in Threads : WorkerOK(u)
  BY DEF IInv
<1>1. TypeOK'
  BY TypeStep
<1>2. SUFFICES Facts'
  BY <1>1, <1>2 DEF Facts, IInv
<1>3. ASSUME NEW t \in Threads, NEW s \in Sessions, NEW r \in Requests, NEW c \in Calls,
             Prepare(t, s, r, c)
      PROVE  Facts'
  BY <1>3, QuietStep DEF Prepare, dbVars, erpVars, TypeOK
<1>4. ASSUME NEW t \in Threads, NEW p \in PendingIds, InsertPending(t, p)
      PROVE  Facts'
  <2>1. thread[t] \in Preparing
    BY <1>4, ThreadKind DEF InsertPending
  <2>2. rows'[p] \in Row /\ rows'[p].status = "pending"
    BY <1>4, <2>1 DEF InsertPending, Preparing, Row, TypeOK, Status
  <2>3. ~Claimed(p) /\ \A q \in PendingIds \ {p} : rows'[q] = rows[q]
    BY <1>4 DEF InsertPending, Claimed, TypeOK
  <2>4. QED
    BY <1>4, <2>2, <2>3, UnclaimedStep DEF InsertPending, Return, erpVars
<1>5. ASSUME NEW t \in Threads, NEW p \in PendingIds, ReusePending(t, p)
      PROVE  Facts'
  BY <1>5, QuietStep DEF ReusePending, Return, Idle, dbVars, erpVars, TypeOK
<1>6. ASSUME NEW t \in Threads, NEW s \in Sessions, NEW p \in PendingIds, Execute(t, s, p)
      PROVE  Facts'
  BY <1>6, QuietStep DEF Execute, dbVars, erpVars, TypeOK
<1>7. ASSUME NEW t \in Threads, ClaimRefused(t)
      PROVE  Facts'
  BY <1>7, QuietStep DEF ClaimRefused, Return, Idle, dbVars, erpVars, TypeOK
<1>8. ASSUME NEW t \in Threads, ClaimExpired(t)
      PROVE  Facts'
  <2> DEFINE p == thread[t].pending
  <2>1. p \in PendingIds /\ rows[p] \in Row /\ rows[p].status = "pending"
    BY <1>8, ThreadKind DEF ClaimExpired, ClaimantOK, Claiming, TypeOK, Exists
  <2>2. /\ rows'[p] \in Row /\ rows'[p].status = "expired"
        /\ \A q \in PendingIds \ {p} : rows'[q] = rows[q]
    BY <1>8, <2>1, StatusUpdate DEF ClaimExpired, Status
  <2>3. ~Claimed(p)
    BY <2>1 DEF Claimed, Settled
  <2>4. QED
    BY <1>8, <2>1, <2>2, <2>3, UnclaimedStep DEF ClaimExpired, Return, erpVars
<1>9. ASSUME NEW t \in Threads, ClaimPending(t)
      PROVE  Facts'
  BY <1>9, ClaimStep
<1>10. ASSUME NEW t \in Threads, CheckOperation(t)
       PROVE  Facts'
  <2>1. thread[t] \in Working /\ WorkerOK(t) /\ thread[t].pc = "check"
    BY <1>10, ThreadKind DEF CheckOperation, WorkPC
  <2>2. PICK pc \in {"salvage", "finish", "send"} :
            Goto(t, pc) /\ (pc = "send" => thread[t].permitted)
    BY <1>10 DEF CheckOperation
  <2>3. UNCHANGED <<rows, requested, copies>>
    BY <1>10 DEF CheckOperation, dbVars, erpVars
  <2>4. "failed" \in Settled /\ pc \in WorkPC
    BY DEF Settled, WorkPC
  <2>5. /\ thread'[t].pc = pc
        /\ thread'[t].pending = thread[t].pending /\ thread'[t].call = thread[t].call
        /\ thread'[t].session = thread[t].session
        /\ thread'[t].permitted = thread[t].permitted
        /\ thread'[t].outcome = thread[t].outcome /\ thread'[t].at = thread[t].at
    BY <2>1, <2>2, <2>4, Jump
  <2>6. WorkerOK(t)'
    BY <2>1, <2>2, <2>3, <2>5 DEF WorkerOK, Untouched, Claimed, Exists, WorkPC
  <2>7. QED
    BY <2>1, <2>2, <2>3, <2>4, <2>6, JumpStep
<1>11. ASSUME NEW t \in Threads, SendToolCall(t)
       PROVE  Facts'
  BY <1>11, SendStep
<1>12. ASSUME NEW t \in Threads, ReceiveOk(t)
       PROVE  Facts'
  <2>1. thread[t] \in Working /\ WorkerOK(t) /\ thread[t].pc = "await"
    BY <1>12, ThreadKind DEF ReceiveOk, WorkPC
  <2>2. Goto(t, "readback") /\ UNCHANGED <<rows, requested, copies>>
    BY <1>12 DEF ReceiveOk, dbVars, erpVars
  <2>3. copies[thread[t].pending][thread[t].call] = 1
    BY <1>12, <2>1 DEF ReceiveOk, IInv, CopiesOK, Working
  <2>4. "failed" \in Settled /\ "readback" \in WorkPC
    BY DEF Settled, WorkPC
  <2>5. WorkerOK(t)'
    BY <2>1, <2>2, <2>3, <2>4, Jump DEF WorkerOK, Claimed, Exists, WorkPC
  <2>6. QED
    BY <2>1, <2>2, <2>4, <2>5, JumpStep
<1>13. ASSUME NEW t \in Threads, ReceiveFailure(t)
       PROVE  Facts'
  <2>1. thread[t] \in Working /\ WorkerOK(t) /\ thread[t].pc = "await"
    BY <1>13, ThreadKind DEF ReceiveFailure, WorkPC
  <2>2. GotoWith(t, "finish", "failed") /\ UNCHANGED <<rows, requested, copies>>
    BY <1>13 DEF ReceiveFailure, dbVars, erpVars
  <2>3. "failed" \in Settled /\ "finish" \in WorkPC
    BY DEF Settled, WorkPC
  <2>4. WorkerOK(t)'
    BY <2>1, <2>2, <2>3, Jump DEF WorkerOK, Claimed, Exists, WorkPC
  <2>5. QED
    BY <2>1, <2>2, <2>3, <2>4, JumpStep
<1>14. ASSUME NEW t \in Threads, VerifyReadback(t)
       PROVE  Facts'
  <2>1. thread[t] \in Working /\ WorkerOK(t) /\ thread[t].pc = "readback"
    BY <1>14, ThreadKind DEF VerifyReadback, WorkPC
  <2>2. UNCHANGED <<rows, requested, copies>>
    BY <1>14 DEF VerifyReadback, dbVars, erpVars
  <2>3. CASE Goto(t, "salvage")
    <3>1. "failed" \in Settled /\ "salvage" \in WorkPC
      BY DEF Settled, WorkPC
    <3>2. WorkerOK(t)'
      BY <2>1, <2>2, <2>3, <3>1, Jump DEF WorkerOK, Claimed, Exists, WorkPC
    <3>3. QED
      BY <2>1, <2>2, <2>3, <3>1, <3>2, JumpStep
  <2>4. ASSUME NEW o \in Settled, GotoWith(t, "finish", o)
        PROVE  Facts'
    <3>1. "finish" \in WorkPC
      BY DEF WorkPC
    <3>2. WorkerOK(t)'
      BY <2>1, <2>2, <2>4, <3>1, Jump DEF WorkerOK, Claimed, Exists, WorkPC
    <3>3. QED
      BY <2>1, <2>2, <2>4, <3>1, <3>2, JumpStep
  <2>5. QED
    BY <1>14, <2>3, <2>4 DEF VerifyReadback, Settled
<1>15. ASSUME NEW t \in Threads, FinishPending(t) \/ SalvageFailed(t)
       PROVE  Facts'
  BY <1>15, SettleStep DEF FinishPending, SalvageFailed, erpVars
<1>16. ASSUME NEW t \in Threads, RereadPending(t)
       PROVE  Facts'
  BY <1>16, QuietStep DEF RereadPending, Return, Idle, dbVars, erpVars, TypeOK
<1>17. ASSUME NEW t \in Threads, DatabaseFault(t)
       PROVE  Facts'
  <2>1. UNCHANGED <<rows, requested, copies>>
    BY <1>17 DEF DatabaseFault, dbVars, erpVars
  <2>2. CASE thread[t].pc \in {"finish", "reread"} /\ Goto(t, "salvage")
    <3>1. thread[t] \in Working /\ WorkerOK(t)
      BY <2>2, ThreadKind DEF WorkPC
    <3>2. "failed" \in Settled /\ "salvage" \in WorkPC
      BY DEF Settled, WorkPC
    <3>3. WorkerOK(t)'
      BY <2>1, <2>2, <3>1, <3>2, Jump DEF WorkerOK, Claimed, Exists, WorkPC
    <3>4. QED
      BY <2>1, <2>2, <3>1, <3>2, <3>3, JumpStep
  <2>3. CASE Return(t)
    BY <2>1, <2>3, QuietStep DEF Return, Idle, TypeOK
  <2>4. QED
    BY <1>17, <2>2, <2>3 DEF DatabaseFault
<1>18. ASSUME NEW m \in requested, ErpWrite(m) \/ ErpRefuse(m)
       PROVE  Facts'
  BY <1>18, ErpStep
<1>19. CASE Crash \/ Tick \/ PublishRevision \/ UNCHANGED vars
  BY <1>19, QuietStep DEF Crash, Tick, PublishRevision, Idle, dbVars, erpVars, vars
<1>20. ASSUME NEW s \in Sessions, ChangeProfile(s)
       PROVE  Facts'
  BY <1>20, QuietStep DEF ChangeProfile, erpVars
<1>21. QED
  BY <1>3, <1>4, <1>5, <1>6, <1>7, <1>8, <1>9, <1>10, <1>11, <1>12, <1>13, <1>14, <1>15,
     <1>16, <1>17, <1>18, <1>19, <1>20 DEF Next, HandlerStep

\* Every reachable state satisfies the inductive invariant.
THEOREM Invariance == Spec => []IInv
BY InvInit, InvStep, PTL DEF Spec
-----------------------------------------------------------------------------
(* The properties.                                                          *)

\* Types, for every value of the constants.
THEOREM TypeCorrect == Spec => []TypeOK
BY Invariance, PTL DEF IInv

\* ERPNext applies the frozen call of an operation at most once and no other call,
\* with any number of threads, retries, faults and late deliveries.
THEOREM AtMostOneWrite == Spec => []WrittenOnceAsFrozen
<1>1. IInv => WrittenOnceAsFrozen
  BY DEF IInv, CopiesOK, WrittenOnceAsFrozen, Claimed
<1>2. QED
  BY <1>1, Invariance, PTL

\* Nothing is sent or written for an operation that was not claimed, and nobody sends
\* for one it confirmed after its expiry.
THEOREM ConsentFirst == Spec => []ConsentInTime
<1>1. IInv => ConsentInTime
  <2> SUFFICES ASSUME IInv PROVE ConsentInTime
    OBVIOUS
  <2>1. ASSUME NEW p \in PendingIds, ~Claimed(p)
        PROVE  /\ \A c \in Calls : copies[p][c] = 0
               /\ \A m \in requested : m.pending # p
    BY <2>1 DEF IInv, TypeOK, CopiesOK, MessageOK
  <2>2. ASSUME NEW t \in Threads, thread[t].pc \in {"send", "await", "readback"}
        PROVE  thread[t].at < rows[thread[t].pending].expires
    BY <2>2, Zenon DEF IInv, WorkerOK, WorkPC
  <2> QED
    BY <2>1, <2>2 DEF ConsentInTime
<1>2. QED
  BY <1>1, Invariance, PTL

\* What is on its way was sent for the owner, by someone still allowed to write.
THEOREM Authority == Spec => []SentWithAuthority
<1>1. IInv => SentWithAuthority
  BY DEF IInv, MessageOK, WorkerOK, WorkPC, SentWithAuthority
<1>2. QED
  BY <1>1, Invariance, PTL

\* "completed" means that ERPNext has the document.
THEOREM CompletedIsTrue == Spec => []CompletedIsWritten
BY Invariance, PTL DEF IInv

\* One operation has one handler past its claim.
THEOREM MutualExclusion == Spec => []OneClaimant
BY Invariance, PTL DEF IInv
-----------------------------------------------------------------------------
(* What a step may do to a row.                                             *)

\* A row is left alone, inserted as pending, or moved forward in its status.
RowStep(p) ==
    \/ rows'[p] = rows[p]
    \/ ~Exists(p) /\ rows'[p] \in Row /\ rows'[p].status = "pending"
    \/ /\ Exists(p)
       /\ rows'[p] = [rows[p] EXCEPT !.status = rows'[p].status]
       /\ <<rows[p].status, rows'[p].status>> \in Forward

\* Every step leaves the rows it meets frozen, and moves their status forward.
LEMMA RowSteps == IInv /\ [Next]_vars => \A p \in PendingIds : RowStep(p)
<1> SUFFICES ASSUME IInv, [Next]_vars, NEW p \in PendingIds
             PROVE  RowStep(p)
  OBVIOUS
<1> TypeOK
  BY DEF IInv
<1>1. CASE UNCHANGED rows
  BY <1>1 DEF RowStep
<1>2. ASSUME NEW t \in Threads, NEW q \in PendingIds, InsertPending(t, q)
      PROVE  RowStep(p)
  <2>1. thread[t] \in Preparing
    BY <1>2, ThreadKind DEF InsertPending
  <2>2. rows'[q] \in Row /\ rows'[q].status = "pending"
    BY <1>2, <2>1 DEF InsertPending, Preparing, Row, TypeOK, Status
  <2>3. QED
    BY <1>2, <2>2 DEF InsertPending, RowStep, TypeOK
<1>3. ASSUME NEW t \in Threads, ClaimExpired(t) \/ ClaimPending(t)
      PROVE  RowStep(p)
  <2> DEFINE q == thread[t].pending
  <2>1. q \in PendingIds /\ rows[q] \in Row /\ rows[q].status = "pending" /\ Exists(q)
    BY <1>3, ThreadKind DEF ClaimExpired, ClaimPending, IInv, ClaimantOK, Claiming, TypeOK, Exists
  <2>2. \E st \in {"executing", "expired"} : SetStatus(q, st)
    BY <1>3 DEF ClaimExpired, ClaimPending
  <2>3. QED
    BY <2>1, <2>2, StatusUpdate DEF RowStep, Forward, Status
<1>4. ASSUME NEW t \in Threads, FinishPending(t) \/ SalvageFailed(t)
      PROVE  RowStep(p)
  <2> DEFINE q == thread[t].pending
  <2>1. thread[t] \in Working /\ thread[t].pc \in {"finish", "salvage"}
    BY <1>4, ThreadKind DEF FinishPending, SalvageFailed, WorkPC
  <2>2. /\ q \in PendingIds /\ Exists(q) /\ rows[q] \in Row
        /\ rows[q].status \in {"executing"} \cup Settled
        /\ thread[t].pc = "finish" => rows[q].status = "executing"
    BY <2>1 DEF IInv, WorkerOK, Claimed, Exists, Working, WorkPC, TypeOK
  <2>3. PICK st \in Settled :
            SetStatus(q, st) /\ (thread[t].pc = "salvage" => st = "failed")
    BY <1>4, <2>1 DEF FinishPending, SalvageFailed, Working, Settled
  <2>4. rows'[q] = [rows[q] EXCEPT !.status = st] /\ rows'[q].status = st
        /\ \A r \in PendingIds \ {q} : rows'[r] = rows[r]
    BY <2>2, <2>3, StatusUpdate DEF Settled, Status
  <2>5. CASE rows[q].status = st
    BY <2>2, <2>4, <2>5 DEF RowStep, Row
  <2>6. CASE rows[q].status # st
    <3>1. <<rows[q].status, st>> \in Forward
      BY <2>1, <2>2, <2>3, <2>6 DEF Forward, Settled
    <3>2. QED
      BY <2>2, <2>4, <3>1 DEF RowStep
  <2>7. QED
    BY <2>5, <2>6
<1>5. QED
  BY <1>1, <1>2, <1>3, <1>4
     DEF Next, HandlerStep, vars, dbVars, Prepare, ReusePending, Execute, ClaimRefused,
         CheckOperation, SendToolCall, ReceiveOk, ReceiveFailure, VerifyReadback,
         RereadPending, DatabaseFault, ErpWrite, ErpRefuse, Crash, Tick, PublishRevision,
         ChangeProfile

\* The frozen part of a row never changes, its status only moves forward.
THEOREM RowsAreFrozen == Spec => FrozenForGood
<1>1. IInv /\ IInv' /\ [Next]_vars =>
        [\A p \in PendingIds : Exists(p) =>
            /\ rows'[p] = [rows[p] EXCEPT !.status = rows'[p].status]
            /\ rows'[p].status # rows[p].status =>
                  <<rows[p].status, rows'[p].status>> \in Forward]_vars
  <2> SUFFICES ASSUME IInv, [Next]_vars, NEW p \in PendingIds, Exists(p)
               PROVE  /\ rows'[p] = [rows[p] EXCEPT !.status = rows'[p].status]
                      /\ rows'[p].status # rows[p].status =>
                            <<rows[p].status, rows'[p].status>> \in Forward
    OBVIOUS
  <2>1. RowStep(p) /\ rows[p] \in Row
    BY RowSteps DEF IInv, TypeOK, Exists
  <2>2. QED
    BY <2>1 DEF RowStep, Row
<1>2. QED
  BY <1>1, Invariance, PTL DEF Spec, FrozenForGood
-----------------------------------------------------------------------------
(* Refinement of ConfirmedWrite.                                            *)

\* Steps that touch neither the table nor ERPNext's documents stutter.
LEMMA Stutter == UNCHANGED <<rows, copies>> => UNCHANGED Promise!vars
BY DEF Promise!vars, Offer, Consent, Answer, Exists

\* The abstract state of p when p's row has the status st.
LEMMA AbstractRow ==
    ASSUME NEW p \in PendingIds, Exists(p)
    PROVE  /\ Offer[p] = {rows[p].call}
           /\ rows[p].status = "pending" => Consent[p] = "asked"
           /\ rows[p].status = "expired" => Consent[p] = "lapsed"
           /\ rows[p].status \in {"executing"} \cup Settled => Consent[p] = "given"
           /\ rows[p].status = "completed" => Answer[p] = "done"
           /\ rows[p].status = "failed" => Answer[p] = "unsure"
           /\ rows[p].status \notin Settled => Answer[p] = "open"
BY DEF Offer, Consent, Answer, Exists, Settled

\* A step that moves one row along Forward is a step of the promise.
LEMMA StatusRefines ==
    ASSUME IInv, UNCHANGED copies, NEW p \in PendingIds, Exists(p), NEW st \in Status,
           SetStatus(p, st), <<rows[p].status, st>> \in Forward,
           st = "completed" => copies[p][rows[p].call] = 1
    PROVE  Promise!Next
<1> TypeOK /\ rows[p] \in Row
  BY DEF IInv, TypeOK, Exists
<1>1. /\ rows'[p].status = st /\ rows'[p].call = rows[p].call /\ Exists(p)'
      /\ \A q \in PendingIds \ {p} : rows'[q] = rows[q]
  BY StatusUpdate, NoRowAssumption DEF Exists
<1>2. Offer' = Offer
  BY <1>1 DEF Offer, Exists
<1>3. Consent' = [Consent EXCEPT ![p] = Consent'[p]]
  BY <1>1 DEF Consent, Exists
<1>4. Answer' = [Answer EXCEPT ![p] = Answer'[p]]
  BY <1>1 DEF Answer, Exists
<1>5. CASE rows[p].status = "pending" /\ st = "executing"
  <2>1. Consent[p] = "asked" /\ Consent'[p] = "given" /\ Answer[p] = Answer'[p]
    BY <1>1, <1>5 DEF Consent, Answer, Exists, Settled
  <2>2. Answer' = Answer
    BY <1>4, <2>1 DEF Answer
  <2>3. Promise!Consent(p)
    BY <1>2, <1>3, <2>1, <2>2 DEF Promise!Consent
  <2>4. QED
    BY <2>3 DEF Promise!Next
<1>6. CASE rows[p].status = "pending" /\ st = "expired"
  <2>1. Consent[p] = "asked" /\ Consent'[p] = "lapsed" /\ Answer[p] = Answer'[p]
    BY <1>1, <1>6 DEF Consent, Answer, Exists, Settled
  <2>2. Answer' = Answer
    BY <1>4, <2>1 DEF Answer
  <2>3. Promise!Lapse(p)
    BY <1>2, <1>3, <2>1, <2>2 DEF Promise!Lapse
  <2>4. QED
    BY <2>3 DEF Promise!Next
<1>7. CASE rows[p].status = "executing" /\ st = "completed"
  <2>1. Consent[p] = "given" /\ Consent'[p] = "given" /\ Answer[p] = "open" /\ Answer'[p] = "done"
    BY <1>1, <1>7 DEF Consent, Answer, Exists, Settled
  <2>2. Consent' = Consent
    BY <1>3, <2>1 DEF Consent
  <2>3. Offer[p] = {rows[p].call} /\ copies[p][rows[p].call] = 1
    BY <1>7 DEF Offer
  <2>4. Promise!AnswerDone(p)
    BY <1>2, <1>4, <2>1, <2>2, <2>3 DEF Promise!AnswerDone
  <2>5. QED
    BY <2>4 DEF Promise!Next
<1>8. CASE rows[p].status \in {"executing", "completed"} /\ st = "failed"
  <2>1. /\ Consent[p] = "given" /\ Consent'[p] = "given"
        /\ Answer[p] \in {"open", "done"} /\ Answer'[p] = "unsure"
    BY <1>1, <1>8 DEF Consent, Answer, Exists, Settled
  <2>2. Consent' = Consent
    BY <1>3, <2>1 DEF Consent
  <2>3. Promise!AnswerUnsure(p)
    BY <1>2, <1>4, <2>1, <2>2 DEF Promise!AnswerUnsure
  <2>4. QED
    BY <2>3 DEF Promise!Next
<1>9. QED
  BY <1>5, <1>6, <1>7, <1>8 DEF Forward

\* The insertion of a row is the step Ask of the promise.
LEMMA InsertRefines ==
    ASSUME TypeOK, NEW t \in Threads, NEW p \in PendingIds, InsertPending(t, p)
    PROVE  Promise!Next
<1> DEFINE c == thread[t].call
<1>1. thread[t] \in Preparing /\ c \in Calls
  BY ThreadKind DEF InsertPending, Preparing
<1>2. /\ rows'[p] \in Row /\ rows'[p].status = "pending" /\ rows'[p].call = c
      /\ UNCHANGED copies
  BY <1>1 DEF InsertPending, Preparing, Row, TypeOK, Status, erpVars
<1>3. ~Exists(p) /\ Exists(p)' /\ \A q \in PendingIds \ {p} : rows'[q] = rows[q]
  BY <1>2, NoRowAssumption DEF InsertPending, Exists, TypeOK
<1>4. Consent[p] = "none" /\ Offer' = [Offer EXCEPT ![p] = {c}]
  BY <1>2, <1>3 DEF Consent, Offer, Exists
<1>5. Consent' = [Consent EXCEPT ![p] = "asked"]
  BY <1>2, <1>3 DEF Consent, Exists
<1>6. Answer' = Answer
  BY <1>2, <1>3 DEF Answer, Exists
<1>7. Promise!Ask(p, c)
  BY <1>2, <1>4, <1>5, <1>6 DEF Promise!Ask
<1>8. QED
  BY <1>1, <1>7 DEF Promise!Next

\* A document ERPNext writes is the step Write of the promise.
LEMMA WriteRefines ==
    ASSUME IInv, NEW m \in requested, ErpWrite(m)
    PROVE  Promise!Next
<1>1. m.pending \in PendingIds /\ m.call \in Calls /\ MessageOK(m) /\ UNCHANGED rows
  BY DEF IInv, TypeOK, Message, ErpWrite, dbVars
<1>2. /\ Offer[m.pending] = {m.call} /\ Consent[m.pending] = "given"
      /\ \A c \in Calls : copies[m.pending][c] = 0
  BY <1>1, AbstractRow DEF MessageOK, Claimed
<1>3. copies' = [copies EXCEPT ![m.pending][m.call] = 1]
  <2>1. copies[m.pending][m.call] = 0 /\ copies \in [PendingIds -> [Calls -> Nat]]
    BY <1>1, <1>2 DEF IInv, TypeOK
  <2>2. copies' = [copies EXCEPT ![m.pending][m.call] = copies[m.pending][m.call] + 1]
    BY DEF ErpWrite
  <2>3. QED
    BY <2>1, <2>2
<1>4. UNCHANGED <<Offer, Consent, Answer>>
  BY <1>1 DEF Offer, Consent, Answer, Exists
<1>5. Promise!Write(m.pending, m.call)
  BY <1>2, <1>3, <1>4 DEF Promise!Write
<1>6. QED
  BY <1>1, <1>5 DEF Promise!Next

\* The protocol implements the promise.
THEOREM Refinement == Spec => KeepsPromise
<1>1. Init => Promise!Init
  BY DEF Init, Promise!Init, Offer, Consent, Answer, Exists
<1>2. IInv /\ [Next]_vars => [Promise!Next]_Promise!vars
  <2> SUFFICES ASSUME IInv, [Next]_vars
               PROVE  Promise!Next \/ UNCHANGED Promise!vars
    OBVIOUS
  <2> TypeOK
    BY DEF IInv
  <2>1. ASSUME NEW t \in Threads, NEW p \in PendingIds, InsertPending(t, p)
        PROVE  Promise!Next
    BY <2>1, InsertRefines
  <2>2. ASSUME NEW t \in Threads, ClaimExpired(t) \/ ClaimPending(t)
        PROVE  Promise!Next
    <3>1. /\ thread[t].pending \in PendingIds /\ Exists(thread[t].pending)
          /\ rows[thread[t].pending].status = "pending"
          /\ \E st \in {"executing", "expired"} : SetStatus(thread[t].pending, st)
          /\ UNCHANGED copies
      BY <2>2, ThreadKind DEF ClaimExpired, ClaimPending, IInv, ClaimantOK, Claiming, erpVars
    <3>2. QED
      BY <3>1, StatusRefines DEF Forward, Status
  <2>3. ASSUME NEW t \in Threads, FinishPending(t) \/ SalvageFailed(t)
        PROVE  Promise!Next \/ UNCHANGED Promise!vars
    <3> DEFINE p == thread[t].pending
    <3>1. thread[t] \in Working /\ thread[t].pc \in {"finish", "salvage"}
      BY <2>3, ThreadKind DEF FinishPending, SalvageFailed, WorkPC
    <3>2. /\ p \in PendingIds /\ Exists(p) /\ rows[p] \in Row
          /\ rows[p].status \in {"executing"} \cup Settled
          /\ thread[t].pc = "finish" => rows[p].status = "executing"
          /\ rows[p].call = thread[t].call
          /\ thread[t].outcome = "completed" => copies[p][rows[p].call] = 1
      BY <3>1 DEF IInv, WorkerOK, Claimed, Exists, Working, WorkPC, TypeOK
    <3>3. PICK st \in Settled :
              /\ SetStatus(p, st)
              /\ thread[t].pc = "salvage" => st = "failed"
              /\ thread[t].pc = "finish" => st = thread[t].outcome
      BY <2>3, <3>1 DEF FinishPending, SalvageFailed, Working, Settled
    <3>4. UNCHANGED copies
      BY <2>3 DEF FinishPending, SalvageFailed, erpVars
    <3>5. CASE rows[p].status = st
      <4>1. rows' = rows
        BY <3>2, <3>3, <3>5 DEF SetStatus, TypeOK, Row
      <4>2. QED
        BY <3>4, <4>1, Stutter
    <3>6. CASE rows[p].status # st
      <4>1. <<rows[p].status, st>> \in Forward /\ st \in Status
        BY <3>1, <3>2, <3>3, <3>6 DEF Forward, Settled, Status
      <4>2. st = "completed" => copies[p][rows[p].call] = 1
        BY <3>1, <3>2, <3>3
      <4>3. QED
        BY <3>2, <3>3, <3>4, <4>1, <4>2, StatusRefines
    <3>7. QED
      BY <3>5, <3>6
  <2>4. ASSUME NEW m \in requested, ErpWrite(m)
        PROVE  Promise!Next
    BY <2>4, WriteRefines
  <2>5. CASE UNCHANGED <<rows, copies>>
    BY <2>5, Stutter
  <2>6. QED
    BY <2>1, <2>2, <2>3, <2>4, <2>5
       DEF Next, HandlerStep, vars, dbVars, erpVars, Prepare, ReusePending, Execute,
           ClaimRefused, CheckOperation, SendToolCall, ReceiveOk, ReceiveFailure,
           VerifyReadback, RereadPending, DatabaseFault, ErpRefuse, Crash, Tick,
           PublishRevision, ChangeProfile
<1>3. QED
  BY <1>1, <1>2, Invariance, PTL DEF Spec, KeepsPromise, Promise!Spec
=============================================================================
