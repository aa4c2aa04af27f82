---------------------------- MODULE MaterialSync ----------------------------
(***************************************************************************)
(* Publishing the reference catalog to the material test Site: the         *)
(* MaterialTestSyncGate of the workbench, which binds a confirmation to    *)
(* the release an employee was shown, and the command it runs as a child   *)
(* process, sync_gpc_materials_to_test_site.py apply, which writes the     *)
(* release record by record to ERPNext and remembers it in a journal.      *)
(*                                                                         *)
(* A release is the catalog revision it was built from: its hash covers    *)
(* the revision and every record.  A record of the target is the revision  *)
(* that wrote it, or one of the negative numbers below.                    *)
(***************************************************************************)
EXTENDS Integers

CONSTANTS
    Employees,      \* the employees who plan and confirm
    Requests,       \* request_id values, a fresh one for every plan
    Threads,        \* handler threads of the workbench
    Processes,      \* child processes that can run the command at once
    Records,        \* UOMs, item groups and items
    Support,        \* the UOMs and item groups among them
    Rank,           \* the order records are applied in: UOMs and item groups, then
                    \* the items by their code
    Catalog,        \* [0..MaxRevision -> the items of the catalog revision]
    Before,         \* what the target holds at the start, by record
    Start,          \* the catalog revision at the start
    MaxRevision,    \* bound on the catalog revision
    MaxFaults,      \* bound on failing REST calls and on killed processes
    MaxCrashes,     \* bound on crashes of the workbench
    None,           \* no plan, no process, no journal entry
    Torn            \* the journal after a write that was cut off

Items == Records \ Support

\* The target has no such record; one of another source_id; or one that does not
\* carry a source_id at all.
Absent    == -1
Foreign   == -2
Unmanaged == -3
Content   == {Absent, Foreign, Unmanaged} \cup 0..MaxRevision

ASSUME SyncAssumption ==
    /\ Support \subseteq Records
    /\ Rank \in [Records -> Nat]
    /\ MaxRevision \in Nat /\ Start \in 0..MaxRevision
    /\ MaxFaults \in Nat /\ MaxCrashes \in Nat
    /\ Catalog \in [0..MaxRevision -> SUBSET Items]
    /\ Before \subseteq [Records -> {Absent, Foreign, Unmanaged, 0}]

VARIABLES
    revision,   \* the catalog's revision
    plans,      \* MaterialTestSyncGate._plans
    thread,     \* the apply handlers of the workbench
    holder,     \* the thread that holds _TARGET_APPLY_LOCK
    process,    \* the running commands
    target,     \* the records of the test Site
    late,       \* the REST writes a command gave up and ERPNext has not done yet
    strayed,    \* history: one of them changed the Site behind a verification
    journal,    \* the journal file: the verified requests
    confirmed,  \* the revisions an employee ever confirmed
    faults, crashes

gate    == <<plans, thread, holder>>
site    == <<target, late, strayed, journal>>
history == <<confirmed, faults, crashes>>
vars    == <<revision, plans, thread, holder, process, target, late, strayed, journal,
             confirmed, faults, crashes>>

-----------------------------------------------------------------------------
Plan  == [revision : 0..MaxRevision, employee : Employees, conflict : BOOLEAN,
          status : {"pending", "applying", "complete"}]
Idle  == [pc |-> "idle"]
Serving == [pc : {"wait", "run"}, request : Requests, process : Processes \cup {None}]
Done  == [revision : 0..MaxRevision, employee : Employees]
Command == [pc : {"release", "journal", "plan", "records", "write", "exit"},
            request : Requests, employee : Employees, hash : 0..MaxRevision,
            left : SUBSET Records, seen : [Requests -> Done \cup {None}],
            ok : BOOLEAN, orphan : BOOLEAN]
Write == [record : Records, revision : 0..MaxRevision, creates : BOOLEAN]

ASSUME NoneAssumption ==
    /\ None \notin Plan /\ None \notin Threads /\ None \notin Processes /\ None \notin Done
    /\ Torn \notin [Requests -> Done \cup {None}]

TypeOK ==
    /\ revision \in 0..MaxRevision
    /\ plans \in [Requests -> Plan \cup {None}]
    /\ thread \in [Threads -> Serving \cup {Idle}]
    /\ holder \in Threads \cup {None}
    /\ process \in [Processes -> Command \cup {Idle}]
    /\ target \in [Records -> Content]
    /\ late \subseteq Write /\ strayed \in BOOLEAN
    /\ journal \in [Requests -> Done \cup {None}] \cup {Torn}
    /\ confirmed \subseteq 0..MaxRevision
    /\ faults \in 0..MaxFaults
    /\ crashes \in 0..MaxCrashes

Init ==
    /\ revision = Start
    /\ plans = [q \in Requests |-> None]
    /\ thread = [t \in Threads |-> Idle]
    /\ holder = None
    /\ process = [p \in Processes |-> Idle]
    /\ target \in Before
    /\ late = {} /\ strayed = FALSE
    /\ journal = [q \in Requests |-> None]
    /\ confirmed = {}
    /\ faults = 0
    /\ crashes = 0

-----------------------------------------------------------------------------
\* target_plan: it reads the items that carry a source_id, and nothing else.
Conflicts(v) == {i \in Catalog[v] : target[i] = Foreign}
Extra(v)     == {i \in Items \ Catalog[v] : target[i] \in {Foreign} \cup 0..MaxRevision}
Unchanged(v) == {i \in Catalog[v] : target[i] = v}

Release(v) == Support \cup Catalog[v]

\* plan: the diff of the catalog and the target is frozen under a new request_id.
MakePlan(e, q) ==
    /\ plans[q] = None
    /\ journal # Torn => journal[q] = None
    /\ \A p \in Processes : process[p].pc # "idle" => process[p].request # q
    /\ plans' = [plans EXCEPT ![q] = [revision |-> revision, employee |-> e,
                                      conflict |-> Conflicts(revision) # {}, status |-> "pending"]]
    /\ UNCHANGED <<revision, thread, holder, process, site, history>>

\* apply, up to the release of the gate's own lock: a complete plan is answered
\* from its stored result, and every other refusal raises; neither changes a thing.
Apply(t, e, q) ==
    /\ thread[t] = Idle
    /\ plans[q] # None
    /\ plans[q].employee = e
    /\ ~plans[q].conflict
    /\ plans[q].status = "pending"
    /\ plans' = [plans EXCEPT ![q].status = "applying"]
    /\ thread' = [thread EXCEPT ![t] = [pc |-> "wait", request |-> q, process |-> None]]
    /\ confirmed' = confirmed \cup {plans[q].revision}
    /\ UNCHANGED <<revision, holder, process, site, faults, crashes>>

\* Mutation: the command is started without waiting for the lock.
StartUnlocked(t, p) ==
    LET q == thread[t].request IN
    /\ thread[t].pc = "wait"
    /\ process[p] = Idle
    /\ holder' = t
    /\ thread' = [thread EXCEPT ![t].pc = "run", ![t].process = p]
    /\ process' = [process EXCEPT ![p] =
           [pc |-> "release", request |-> q, employee |-> plans[q].employee,
            hash |-> plans[q].revision, left |-> {},
            seen |-> [r \in Requests |-> None], ok |-> FALSE, orphan |-> FALSE]]
    /\ UNCHANGED <<revision, plans, site, history>>

\* The process-wide lock is taken and the command started.
StartCommand(t, p) ==
    LET q == thread[t].request IN
    /\ thread[t].pc = "wait"
    /\ holder = None
    /\ process[p] = Idle
    /\ holder' = t
    /\ thread' = [thread EXCEPT ![t].pc = "run", ![t].process = p]
    /\ process' = [process EXCEPT ![p] =
           [pc |-> "release", request |-> q, employee |-> plans[q].employee,
            hash |-> plans[q].revision, left |-> {},
            seen |-> [r \in Requests |-> None], ok |-> FALSE, orphan |-> FALSE]]
    /\ UNCHANGED <<revision, plans, site, history>>

\* Mutation: a plan whose command failed gets a status of its own.
FinishAsFailed(t) ==
    LET p == thread[t].process IN
    /\ thread[t].pc = "run"
    /\ process[p].pc = "exit"
    /\ holder' = None
    /\ plans' = [plans EXCEPT ![thread[t].request].status = IF process[p].ok THEN "complete" ELSE "failed"]
    /\ process' = [process EXCEPT ![p] = Idle]
    /\ thread' = [thread EXCEPT ![t] = Idle]
    /\ UNCHANGED <<revision, site, history>>

\* Mutation: only a plan that completed gets a new status.
FinishIfComplete(t) ==
    LET p == thread[t].process IN
    /\ thread[t].pc = "run"
    /\ process[p].pc = "exit"
    /\ holder' = None
    /\ plans' = [plans EXCEPT ![thread[t].request].status = IF process[p].ok THEN "complete" ELSE @]
    /\ process' = [process EXCEPT ![p] = Idle]
    /\ thread' = [thread EXCEPT ![t] = Idle]
    /\ UNCHANGED <<revision, site, history>>

\* Mutation: the exit code of the command is not looked at.
FinishUnchecked(t) ==
    LET p == thread[t].process IN
    /\ thread[t].pc = "run"
    /\ process[p].pc = "exit"
    /\ holder' = None
    /\ plans' = [plans EXCEPT ![thread[t].request].status = "complete"]
    /\ process' = [process EXCEPT ![p] = Idle]
    /\ thread' = [thread EXCEPT ![t] = Idle]
    /\ UNCHANGED <<revision, site, history>>

\* Mutation: the lock is released on the successful path only.
FinishKeepsLock(t) ==
    LET p == thread[t].process IN
    /\ thread[t].pc = "run"
    /\ process[p].pc = "exit"
    /\ holder' = IF process[p].ok THEN None ELSE t
    /\ plans' = [plans EXCEPT ![thread[t].request].status = IF process[p].ok THEN "complete" ELSE "pending"]
    /\ process' = [process EXCEPT ![p] = Idle]
    /\ thread' = [thread EXCEPT ![t] = Idle]
    /\ UNCHANGED <<revision, site, history>>

\* The command ended: the plan is complete, or may be confirmed again.
FinishApply(t) ==
    LET p == thread[t].process IN
    /\ thread[t].pc = "run"
    /\ process[p].pc = "exit"
    /\ holder' = None
    /\ plans' = [plans EXCEPT ![thread[t].request].status =
                     IF process[p].ok THEN "complete" ELSE "pending"]
    /\ process' = [process EXCEPT ![p] = Idle]
    /\ thread' = [thread EXCEPT ![t] = Idle]
    /\ UNCHANGED <<revision, site, history>>

-----------------------------------------------------------------------------
(* The command.                                                             *)
Goto(p, pc) == process' = [process EXCEPT ![p].pc = pc]
Exit(p, ok) == process' = [process EXCEPT ![p] =
                   IF process[p].orphan THEN Idle
                   ELSE [process[p] EXCEPT !.pc = "exit", !.ok = ok]]

\* Mutation: whatever the catalog holds by now is taken for what was confirmed.
ReadReleaseAsIs(p) ==
    /\ process[p].pc = "release"
    /\ \/ Exit(p, FALSE)
       \/ process' = [process EXCEPT ![p].pc = "journal", ![p].hash = revision,
                                    ![p].left = Release(revision)]
    /\ UNCHANGED <<revision, gate, site, history>>

\* main: the release is built from the catalog as it is now, and must be the one
\* that was confirmed.  initialize_target may refuse the Site's schema, and adds
\* no record of a release.
ReadRelease(p) ==
    LET cmd == process[p] IN
    /\ cmd.pc = "release"
    /\ \/ Exit(p, FALSE)
       \/ /\ revision = cmd.hash
          /\ process' = [process EXCEPT ![p].pc = "journal", ![p].left = Release(revision)]
    /\ UNCHANGED <<revision, gate, site, history>>

\* apply_release: the journal is loaded, and a verified request answered from it.
LoadJournal(p) ==
    LET cmd == process[p] IN
    /\ cmd.pc = "journal"
    /\ \/ journal = Torn /\ Exit(p, FALSE)
       \/ /\ journal # Torn
          /\ journal[cmd.request] # None
          /\ Exit(p, journal[cmd.request] = [revision |-> cmd.hash, employee |-> cmd.employee])
       \/ /\ journal # Torn
          /\ journal[cmd.request] = None
          /\ process' = [process EXCEPT ![p].pc = "plan", ![p].seen = journal]
    /\ UNCHANGED <<revision, gate, site, history>>

CheckConflicts(p) ==
    /\ process[p].pc = "plan"
    /\ IF Conflicts(process[p].hash) # {} THEN Exit(p, FALSE) ELSE Goto(p, "records")
    /\ UNCHANGED <<revision, gate, site, history>>

\* Mutation: an item without a source_id is taken over.
ConflictingBySource(r) == target[r] = Foreign

\* _ensure_uom, _ensure_item_group and _apply_item: what the record becomes.
Conflicting(r) == target[r] = Foreign \/ (r \in Items /\ target[r] = Unmanaged)

Written(r, v) == IF r \in Support /\ target[r] # Absent THEN target[r] ELSE v

\* The record that is next: there is one as long as any is left.
Due(p) == {r \in process[p].left : \A o \in process[p].left : Rank[r] <= Rank[o]}

\* One record is created, updated or found, and read back.
ApplyRecord(p, r) ==
    /\ process[p].pc = "records"
    /\ r \in Due(p)
    /\ ~Conflicting(r)
    /\ target' = [target EXCEPT ![r] = Written(r, process[p].hash)]
    /\ process' = [process EXCEPT ![p].left = process[p].left \ {r}]
    /\ UNCHANGED <<revision, gate, late, strayed, journal, history>>

ConflictingRecord(p) ==
    /\ process[p].pc = "records"
    /\ \E r \in Due(p) : Conflicting(r)
    /\ Exit(p, FALSE)
    /\ UNCHANGED <<revision, gate, site, history>>

\* Mutation: only the items of the release are looked at.
VerifyWithoutExtra(p) ==
    LET v == process[p].hash IN
    /\ process[p].pc = "records"
    /\ process[p].left = {}
    /\ IF Unchanged(v) = Catalog[v] THEN Goto(p, "write") ELSE Exit(p, FALSE)
    /\ UNCHANGED <<revision, gate, site, history>>

\* The plan after the writes: all items unchanged, and none beyond the release.
VerifyTarget(p) ==
    LET v == process[p].hash IN
    /\ process[p].pc = "records"
    /\ process[p].left = {}
    /\ IF Unchanged(v) = Catalog[v] /\ Extra(v) = {} THEN Goto(p, "write") ELSE Exit(p, FALSE)
    /\ UNCHANGED <<revision, gate, site, history>>

\* _write_journal: the journal loaded at the start, with this request added.
WriteJournal(p) ==
    LET cmd == process[p] IN
    /\ cmd.pc = "write"
    /\ journal' = [cmd.seen EXCEPT ![cmd.request] =
                       [revision |-> cmd.hash, employee |-> cmd.employee]]
    /\ Exit(p, TRUE)
    /\ UNCHANGED <<revision, gate, target, late, strayed, history>>

-----------------------------------------------------------------------------
\* A REST call fails, its write applied, not applied or still on its way, or the 600
\* second timeout kills the command; a command killed as it writes the journal leaves
\* a part of it.
Fault(p) ==
    LET cmd == process[p] IN
    /\ faults < MaxFaults
    /\ cmd.pc \notin {"idle", "exit"}
    /\ faults' = faults + 1
    /\ Exit(p, FALSE)
    /\ \/ UNCHANGED site
       \/ /\ cmd.pc = "records"
          /\ \E r \in Due(p) :
                /\ ~Conflicting(r)
                /\ Written(r, cmd.hash) # target[r]
                /\ \/ target' = [target EXCEPT ![r] = cmd.hash] /\ UNCHANGED late
                   \/ /\ late' = late \cup {[record |-> r, revision |-> cmd.hash,
                                            creates |-> target[r] = Absent]}
                      /\ UNCHANGED target
          /\ UNCHANGED <<strayed, journal>>
       \/ /\ cmd.pc = "write"
          /\ journal' \in {Torn, [cmd.seen EXCEPT ![cmd.request] =
                                [revision |-> cmd.hash, employee |-> cmd.employee]]}
          /\ UNCHANGED <<target, late, strayed>>
    /\ UNCHANGED <<revision, gate, confirmed, crashes>>

\* ERPNext does what a command gave up: it updates the record, whatever became of it
\* since, but creates none that is there.
LandWrite(m) ==
    /\ m \in late
    /\ m.creates => target[m.record] = Absent
    /\ target' = [target EXCEPT ![m.record] = m.revision]
    /\ late' = late \ {m}
    /\ strayed' = (strayed \/ \E p \in Processes :
                       process[p].pc = "write" /\ target' # target)
    /\ UNCHANGED <<revision, gate, process, journal, history>>

\* The workbench dies: its plans, threads and lock go, the child processes run on.
Crash ==
    /\ crashes < MaxCrashes
    /\ crashes' = crashes + 1
    /\ plans' = [q \in Requests |-> None]
    /\ thread' = [t \in Threads |-> Idle]
    /\ holder' = None
    /\ process' = [p \in Processes |->
           IF process[p].pc \in {"idle", "exit"} THEN Idle
           ELSE [process[p] EXCEPT !.orphan = TRUE]]
    /\ UNCHANGED <<revision, site, confirmed, faults>>

\* A publication changes the catalog.
Publish ==
    /\ revision < MaxRevision
    /\ revision' = revision + 1
    /\ UNCHANGED <<gate, process, site, history>>

CommandStep(p) ==
    \/ ReadRelease(p) \/ LoadJournal(p) \/ CheckConflicts(p)
    \/ \E r \in Records : ApplyRecord(p, r)
    \/ ConflictingRecord(p) \/ VerifyTarget(p) \/ WriteJournal(p)

Next ==
    \/ \E e \in Employees, q \in Requests :
        \/ MakePlan(e, q)
        \/ \E t \in Threads : Apply(t, e, q)
    \/ \E t \in Threads : FinishApply(t) \/ \E p \in Processes : StartCommand(t, p)
    \/ \E p \in Processes : CommandStep(p) \/ Fault(p)
    \/ \E m \in late : LandWrite(m)
    \/ Crash \/ Publish

\* A started command runs until it ends, and the thread that waits for it sees it.
Fairness ==
    /\ \A p \in Processes : WF_vars(CommandStep(p))
    /\ \A t \in Threads : WF_vars(FinishApply(t))

Spec     == Init /\ [][Next]_vars
FairSpec == Spec /\ Fairness
-----------------------------------------------------------------------------
(* What the gate and the command are for.                                   *)
Running(p) == process[p].pc \notin {"idle", "exit"}

\* While the workbench lives, no two of its confirmations write at once.
GateSerialises ==
    \A p, o \in Processes :
        Running(p) /\ Running(o) /\ ~process[p].orphan /\ ~process[o].orphan => p = o

\* A plan is "applying" exactly while one thread serves it, and the lock is held
\* exactly by the thread whose command runs: no failure leaves either behind.
ApplyingIsServed ==
    /\ \A q \in Requests :
        (plans[q] # None /\ plans[q].status = "applying")
            <=> (\E t \in Threads : thread[t] # Idle /\ thread[t].request = q)
    /\ \A t, u \in Threads :
        thread[t] # Idle /\ thread[u] # Idle /\ thread[t].request = thread[u].request => t = u
    /\ \A t \in Threads : holder = t <=> thread[t].pc = "run"

\* A plan shown as complete is in the journal as its employee's, for the release
\* that employee was shown.
CompleteIsJournaled ==
    \A q \in Requests :
        plans[q] # None /\ plans[q].status = "complete" =>
            \/ journal = Torn \/ crashes > 0
            \/ journal[q] = [revision |-> plans[q].revision, employee |-> plans[q].employee]

\* The target changes only to a release somebody confirmed, and a record of other
\* origin is never overwritten, whenever it is found.
WrittenAsConfirmed ==
    [][\A r \in Records : target'[r] # target[r] =>
          target'[r] \in confirmed /\ target[r] \notin {Foreign, Unmanaged}]_vars

\* Publications and confirmations in any order do not bring back an older item,
\* unless the workbench died with a command running: nothing but a write that was
\* given up before and is done now can, and no command does.
NoOlderItem ==
    [][\A i \in Items : crashes = 0 /\ late \subseteq late' /\ target[i] >= 0 =>
          target'[i] >= target[i]]_vars

\* A request enters the journal only when the target holds its release, all of it
\* and nothing else the catalog manages, unless a write that was given up before
\* was done between the verification and the journal.
JournaledIsApplied ==
    [][\A q \in Requests :
          (crashes = 0 /\ ~strayed /\ journal # Torn /\ journal' # Torn /\ journal[q] # journal'[q]) =>
              /\ journal[q] = None
              /\ Unchanged(journal'[q].revision) = Catalog[journal'[q].revision]
              /\ Extra(journal'[q].revision) = {}]_vars

\* The lock is not held forever: a failure, a conflict or a kill releases it too.
LockIsReleased == \A t \in Threads : (holder = t) ~> (holder # t)

\* The comment on _TARGET_APPLY_LOCK: the target never receives two catalog
\* mutation runners in parallel.
OneRunner == \A p, o \in Processes : Running(p) /\ Running(o) => p = o

-----------------------------------------------------------------------------
(* Refinement: gate, command and Site keep the promise of ReleasedSite.     *)
Shown == [q \in Requests |-> IF plans[q] = None THEN None
                             ELSE [revision |-> plans[q].revision, employee |-> plans[q].employee]]

State == [q \in Requests |->
    IF plans[q] = None THEN "none"
    ELSE CASE plans[q].status = "pending"  -> "open"
           [] plans[q].status = "applying" -> "asked"
           [] OTHER                        -> "done"]

Work == {thread[t].request : t \in {u \in Threads : thread[u].pc = "run"}}

Promise == INSTANCE ReleasedSite
    WITH Releases <- Done, shown <- Shown, state <- State, work <- Work, site <- target,
         held <- journal, asked <- confirmed, loose <- late, alone <- (crashes = 0 /\ ~strayed)

\* Until the workbench dies or a late write comes behind a verification, a release is
\* brought to the Site as it was shown, after its employee asked for it, with no other
\* one at work, and called done only when the Site was seen to hold it; what was given
\* up may come later.  After that, confirmed releases are all the Site gets.
ReleasesAsPromised == Promise!Spec
=============================================================================
