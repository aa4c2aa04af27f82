-------------------------- MODULE MaterialSyncProofs --------------------------
(***************************************************************************)
(* Proofs about MaterialSync for any number of employees, plans, threads,  *)
(* processes and records, and any contents of the catalog and the Site.    *)
(***************************************************************************)
EXTENDS MaterialSync, TLAPS

-----------------------------------------------------------------------------
(* The inductive invariant.                                                 *)

\* The thread that runs a command and the command agree on what was confirmed.
RunnerOK ==
    \A t \in Threads : thread[t].pc = "run" =>
        LET p == thread[t].process
            q == thread[t].request IN
        /\ p \in Processes
        /\ process[p] \in Command
        /\ ~process[p].orphan
        /\ process[p].request = q
        /\ process[p].hash = plans[q].revision
        /\ process[p].employee = plans[q].employee

ServedOK ==
    \A t \in Threads : thread[t] # Idle =>
        plans[thread[t].request].revision \in confirmed

CommandOK ==
    \A p \in Processes : process[p] \in Command =>
        /\ process[p].hash \in confirmed
        /\ process[p].hash <= revision
        /\ process[p].orphan => crashes > 0
        /\ ~process[p].orphan =>
              \E t \in Threads : thread[t].pc = "run" /\ thread[t].process = p

RevisionOK ==
    /\ \A q \in Requests : plans[q] # None => plans[q].revision <= revision
    /\ \A r \in Records : target[r] <= revision

\* A write given up is of a confirmed release, for a record that release may write.
LateOK ==
    \A m \in late :
        /\ m.revision \in confirmed
        /\ m.revision <= revision
        /\ target[m.record] \notin {Foreign, Unmanaged}

GateInv == ApplyingIsServed /\ RunnerOK /\ ServedOK /\ CommandOK /\ RevisionOK

Entry(p) == [revision |-> process[p].hash, employee |-> process[p].employee]

\* What a command relies on while nobody writes the Site but itself and, now and then,
\* an earlier command's write that comes late.
AloneOK(p) ==
    /\ process[p].pc \in {"journal", "plan", "records", "write"} =>
          /\ \A r \in Records : target[r] <= process[p].hash
          /\ \A m \in late : m.revision <= process[p].hash
    /\ process[p].pc \in {"plan", "records", "write"} =>
          journal # Torn /\ process[p].seen = journal /\ journal[process[p].request] = None
    /\ process[p].pc = "write" /\ ~strayed =>
          /\ Unchanged(process[p].hash) = Catalog[process[p].hash]
          /\ Extra(process[p].hash) = {}
    /\ process[p].pc = "exit" /\ process[p].ok =>
          journal # Torn /\ journal[process[p].request] = Entry(p)

JournalInv ==
    crashes = 0 => \A p \in Processes : process[p] \in Command => AloneOK(p)

\* A command has records of its own release left only.
LeftInv ==
    \A p \in Processes : process[p] \in Command => process[p].left \subseteq Release(process[p].hash)

IInv == TypeOK /\ GateInv /\ LateOK /\ LeftInv /\ JournalInv /\ CompleteIsJournaled

-----------------------------------------------------------------------------
(* Types and shapes.                                                        *)

\* The program counter tells which record a thread or a process is.
LEMMA Kinds ==
    ASSUME TypeOK
    PROVE  /\ \A t \in Threads : /\ thread[t].pc = "idle" <=> thread[t] = Idle
                                 /\ thread[t].pc # "idle" => thread[t] \in Serving
           /\ \A p \in Processes : /\ process[p].pc = "idle" <=> process[p] = Idle
                                   /\ process[p].pc # "idle" => process[p] \in Command
BY DEF TypeOK, Idle, Serving, Command

\* A process that leaves the loop keeps what it was started with.
LEMMA Exits ==
    ASSUME TypeOK, NEW p \in Processes, process[p] \in Command, NEW ok \in BOOLEAN, Exit(p, ok)
    PROVE  /\ process' \in [Processes -> Command \cup {Idle}]
           /\ \A o \in Processes \ {p} : process'[o] = process[o]
           /\ process[p].orphan => process'[p] = Idle
           /\ ~process[p].orphan => /\ process'[p] \in Command
                                    /\ process'[p] = [process[p] EXCEPT !.pc = "exit", !.ok = ok]
                                    /\ process'[p].pc = "exit" /\ process'[p].ok = ok
                                    /\ process'[p].request = process[p].request
                                    /\ process'[p].employee = process[p].employee
                                    /\ process'[p].hash = process[p].hash
                                    /\ process'[p].orphan = process[p].orphan
BY DEF TypeOK, Exit, Command

\* So does one that goes on: a new program counter, records left or journal seen.
LEMMA Goes ==
    ASSUME TypeOK, NEW p \in Processes, process[p] \in Command,
           NEW pc \in {"journal", "plan", "records", "write"},
           NEW left \in SUBSET Records, NEW seen \in [Requests -> Done \cup {None}],
           \/ process' = [process EXCEPT ![p].pc = pc]
           \/ process' = [process EXCEPT ![p].pc = pc, ![p].left = left]
           \/ process' = [process EXCEPT ![p].pc = pc, ![p].seen = seen]
           \/ process[p].pc = pc /\ process' = [process EXCEPT ![p].left = left]
    PROVE  /\ process' \in [Processes -> Command \cup {Idle}]
           /\ \A o \in Processes \ {p} : process'[o] = process[o]
           /\ process'[p] \in Command
           /\ process'[p].pc = pc
           /\ process' # [process EXCEPT ![p].pc = pc, ![p].seen = seen]
                 => process'[p].seen = process[p].seen
           /\ process' = [process EXCEPT ![p].pc = pc, ![p].seen = seen]
                 => process'[p].seen = seen
           /\ process'[p].request = process[p].request
           /\ process'[p].employee = process[p].employee
           /\ process'[p].hash = process[p].hash
           /\ process'[p].orphan = process[p].orphan
<1> DEFINE c == process[p]  d == process'[p]
<1>1. /\ c \in Command
      /\ \/ d = [c EXCEPT !.pc = pc]
         \/ d = [c EXCEPT !.pc = pc, !.left = left]
         \/ d = [c EXCEPT !.pc = pc, !.seen = seen]
         \/ c.pc = pc /\ d = [c EXCEPT !.left = left]
      /\ process' = [process EXCEPT ![p].pc = pc, ![p].seen = seen]
            => d = [c EXCEPT !.pc = pc, !.seen = seen]
      /\ process' # [process EXCEPT ![p].pc = pc, ![p].seen = seen]
            => \/ d = [c EXCEPT !.pc = pc]
               \/ d = [c EXCEPT !.pc = pc, !.left = left]
               \/ c.pc = pc /\ d = [c EXCEPT !.left = left]
  BY DEF TypeOK
<1>2. /\ process' \in [Processes -> {d} \cup Command \cup {Idle}]
      /\ \A o \in Processes \ {p} : process'[o] = process[o]
  BY DEF TypeOK
<1> HIDE DEF c, d
<1>3. /\ d \in Command
      /\ d.pc = pc
      /\ d.request = c.request /\ d.employee = c.employee
      /\ d.hash = c.hash /\ d.orphan = c.orphan
  <2>1. CASE d = [c EXCEPT !.pc = pc]
    BY <1>1, <2>1 DEF Command
  <2>2. CASE d = [c EXCEPT !.pc = pc, !.left = left]
    BY <1>1, <2>2 DEF Command
  <2>3. CASE d = [c EXCEPT !.pc = pc, !.seen = seen]
    BY <1>1, <2>3 DEF Command
  <2>4. CASE c.pc = pc /\ d = [c EXCEPT !.left = left]
    BY <1>1, <2>4 DEF Command
  <2>5. QED
    BY <1>1, <2>1, <2>2, <2>3, <2>4
<1>4. d = [c EXCEPT !.pc = pc, !.seen = seen] => d.seen = seen
  BY <1>1 DEF Command
<1>5. \/ d = [c EXCEPT !.pc = pc]
      \/ d = [c EXCEPT !.pc = pc, !.left = left]
      \/ c.pc = pc /\ d = [c EXCEPT !.left = left]
      => d.seen = c.seen
  BY <1>1 DEF Command
<1>6. QED
  BY <1>1, <1>2, <1>3, <1>4, <1>5 DEF c, d

\* A thread at work serves a plan that is being applied.
LEMMA Serves ==
    ASSUME TypeOK, ApplyingIsServed, NEW t \in Threads, thread[t].pc # "idle"
    PROVE  /\ thread[t] \in Serving
           /\ thread[t].request \in Requests
           /\ plans[thread[t].request] \in Plan
           /\ plans[thread[t].request].status = "applying"
<1>1. thread[t] \in Serving /\ thread[t] # Idle
  BY Kinds
<1>2. thread[t].request \in Requests
  BY <1>1 DEF Serving
<1>3. QED
  BY <1>1, <1>2 DEF TypeOK, ApplyingIsServed

\* As long as the workbench has not crashed, one command runs at most.
LEMMA Alone ==
    ASSUME TypeOK, GateInv, crashes = 0,
           NEW p \in Processes, NEW o \in Processes,
           process[p] \in Command, process[o] \in Command
    PROVE  p = o
<1>1. /\ \E t \in Threads : thread[t].pc = "run" /\ thread[t].process = p
      /\ \E t \in Threads : thread[t].pc = "run" /\ thread[t].process = o
  BY DEF GateInv, CommandOK
<1>2. \A t, u \in Threads : thread[t].pc = "run" /\ thread[u].pc = "run" => t = u
  BY DEF GateInv, ApplyingIsServed
<1>3. QED
  BY <1>1, <1>2

\* What every step of a command, and its failure, have in common.
LEMMA CommandShape ==
    ASSUME TypeOK, NEW p \in Processes, CommandStep(p) \/ Fault(p)
    PROVE  /\ process[p] \in Command
           /\ process[p].pc \notin {"idle", "exit"}
           /\ process' \in [Processes -> Command \cup {Idle}]
           /\ \A o \in Processes \ {p} : process'[o] = process[o]
           /\ \/ process[p].orphan /\ process'[p] = Idle
              \/ /\ process'[p] \in Command
                 /\ process'[p].request = process[p].request
                 /\ process'[p].employee = process[p].employee
                 /\ process'[p].hash = process[p].hash
                 /\ process'[p].orphan = process[p].orphan
           /\ UNCHANGED <<revision, gate, confirmed, crashes>>
<1>1. process[p].pc \notin {"idle", "exit"}
  BY DEF CommandStep, Fault, ReadRelease, LoadJournal, CheckConflicts, ApplyRecord,
         ConflictingRecord, VerifyTarget, WriteJournal
<1>2. process[p] \in Command
  BY <1>1, Kinds
<1>3. UNCHANGED <<revision, gate, confirmed, crashes>>
  BY DEF CommandStep, Fault, ReadRelease, LoadJournal, CheckConflicts, ApplyRecord,
         ConflictingRecord, VerifyTarget, WriteJournal, gate, site, history
<1> DEFINE Shape ==
           /\ process' \in [Processes -> Command \cup {Idle}]
           /\ \A o \in Processes \ {p} : process'[o] = process[o]
           /\ \/ process[p].orphan /\ process'[p] = Idle
              \/ /\ process'[p] \in Command
                 /\ process'[p].request = process[p].request
                 /\ process'[p].employee = process[p].employee
                 /\ process'[p].hash = process[p].hash
                 /\ process'[p].orphan = process[p].orphan
<1> SUFFICES Shape
  BY <1>1, <1>2, <1>3
<1>4. \A ok \in BOOLEAN : Exit(p, ok) => Shape
  <2> SUFFICES ASSUME NEW ok \in BOOLEAN, Exit(p, ok) PROVE Shape
    OBVIOUS
  <2>1. CASE process[p].orphan
    BY <1>2, <2>1, Exits
  <2>2. CASE ~process[p].orphan
    BY <1>2, <2>2, Exits
  <2>3. QED
    BY <2>1, <2>2
<1>5. /\ process[p].left \in SUBSET Records
      /\ process[p].seen \in [Requests -> Done \cup {None}]
  BY <1>2 DEF Command
<1>6. ASSUME NEW pc \in {"journal", "plan", "records", "write"},
             NEW left \in SUBSET Records, NEW seen \in [Requests -> Done \cup {None}],
             \/ process' = [process EXCEPT ![p].pc = pc]
             \/ process' = [process EXCEPT ![p].pc = pc, ![p].left = left]
             \/ process' = [process EXCEPT ![p].pc = pc, ![p].seen = seen]
             \/ process[p].pc = pc /\ process' = [process EXCEPT ![p].left = left]
      PROVE  Shape
  BY <1>2, <1>6, Goes
<1> HIDE DEF Shape
<1>7. CASE ReadRelease(p)
  <2>1. Release(revision) \in SUBSET Records
    BY SyncAssumption DEF TypeOK, Release, Items
  <2>2. QED
    BY <1>4, <1>5, <1>6, <1>7, <2>1 DEF ReadRelease
<1>8. CASE LoadJournal(p)
  <2>1. journal # Torn => journal \in [Requests -> Done \cup {None}]
    BY DEF TypeOK
  <2>2. QED
    BY <1>4, <1>5, <1>6, <1>8, <2>1 DEF LoadJournal
<1>9. CASE CheckConflicts(p)
  BY <1>4, <1>5, <1>6, <1>9 DEF CheckConflicts, Goto
<1>10. ASSUME NEW r \in Records, ApplyRecord(p, r)
       PROVE  Shape
  <2>1. process[p].left \ {r} \in SUBSET Records
    BY <1>5
  <2>2. QED
    BY <1>5, <1>6, <1>10, <2>1 DEF ApplyRecord
<1>11. CASE ConflictingRecord(p)
  BY <1>4, <1>11 DEF ConflictingRecord
<1>12. CASE VerifyTarget(p)
  BY <1>4, <1>5, <1>6, <1>12 DEF VerifyTarget, Goto
<1>13. CASE WriteJournal(p)
  BY <1>4, <1>13 DEF WriteJournal
<1>14. CASE Fault(p)
  BY <1>4, <1>14 DEF Fault
<1>15. QED
  BY <1>7, <1>8, <1>9, <1>10, <1>11, <1>12, <1>13, <1>14 DEF CommandStep

\* What they do to the Site.
LEMMA SiteShape ==
    ASSUME TypeOK, NEW p \in Processes, CommandStep(p) \/ Fault(p)
    PROVE  /\ target' \in [Records -> Content]
           /\ \A r \in Records : target'[r] # target[r] =>
                 /\ process[p].pc = "records"
                 /\ target'[r] = process[p].hash
                 /\ target[r] \notin {Foreign, Unmanaged}
           /\ journal' \in [Requests -> Done \cup {None}] \cup {Torn}
           /\ journal' # journal =>
                 /\ process[p].pc = "write"
                 /\ \/ journal' = Torn
                    \/ journal' = [process[p].seen EXCEPT ![process[p].request] = Entry(p)]
           /\ faults' \in 0..MaxFaults
           /\ late \subseteq late' /\ strayed' = strayed
           /\ \A m \in late' \ late :
                 /\ m \in Write
                 /\ m.revision = process[p].hash
                 /\ target' = target /\ target[m.record] \notin {Foreign, Unmanaged}
<1>1. /\ process[p].hash \in 0..MaxRevision
      /\ process[p].request \in Requests
      /\ Entry(p) \in Done
      /\ process[p].seen \in [Requests -> Done \cup {None}]
  <2>1. process[p] \in Command
    BY CommandShape
  <2>2. QED
    BY <2>1 DEF Command, Done, Entry
<1>2. /\ target \in [Records -> Content]
      /\ journal \in [Requests -> Done \cup {None}] \cup {Torn}
      /\ faults \in 0..MaxFaults
  BY DEF TypeOK
<1>3. ASSUME NEW r \in Records, ~Conflicting(r), process[p].pc = "records",
             target' = [target EXCEPT ![r] = Written(r, process[p].hash)]
      PROVE  /\ target' \in [Records -> Content]
             /\ \A s \in Records : target'[s] # target[s] =>
                   /\ process[p].pc = "records"
                   /\ target'[s] = process[p].hash
                   /\ target[s] \notin {Foreign, Unmanaged}
  <2>1. Written(r, process[p].hash) \in Content
    BY <1>1, <1>2 DEF Written, Content
  <2>2. /\ target' \in [Records -> Content]
        /\ \A s \in Records \ {r} : target'[s] = target[s]
        /\ target'[r] = Written(r, process[p].hash)
    BY <1>2, <1>3, <2>1
  <2>3. target'[r] # target[r] =>
           target'[r] = process[p].hash /\ target[r] \notin {Foreign, Unmanaged}
    BY <1>3, <2>2, SyncAssumption DEF Written, Conflicting, Items, Absent, Foreign, Unmanaged
  <2>4. QED
    BY <1>3, <2>2, <2>3
<1>4. ASSUME journal' = [process[p].seen EXCEPT ![process[p].request] = Entry(p)]
      PROVE  journal' \in [Requests -> Done \cup {None}] \cup {Torn}
  BY <1>1, <1>4
<1> DEFINE Kept ==
           /\ late \subseteq late' /\ strayed' = strayed
           /\ \A m \in late' \ late :
                 /\ m \in Write
                 /\ m.revision = process[p].hash
                 /\ target' = target /\ target[m.record] \notin {Foreign, Unmanaged}
<1>11. UNCHANGED <<late, strayed>> => Kept
  OBVIOUS
<1> HIDE DEF Kept
<1> SUFFICES /\ target' \in [Records -> Content]
             /\ \A r \in Records : target'[r] # target[r] =>
                   /\ process[p].pc = "records"
                   /\ target'[r] = process[p].hash
                   /\ target[r] \notin {Foreign, Unmanaged}
             /\ journal' \in [Requests -> Done \cup {None}] \cup {Torn}
             /\ journal' # journal =>
                   /\ process[p].pc = "write"
                   /\ \/ journal' = Torn
                      \/ journal' = [process[p].seen EXCEPT ![process[p].request] = Entry(p)]
             /\ faults' \in 0..MaxFaults
             /\ Kept
  BY DEF Kept
<1>5. CASE WriteJournal(p)
  BY <1>2, <1>4, <1>5, <1>11 DEF WriteJournal, Entry, history
<1>6. ASSUME NEW r \in Records, ApplyRecord(p, r)
      PROVE  /\ target' \in [Records -> Content]
             /\ \A s \in Records : target'[s] # target[s] =>
                   /\ process[p].pc = "records"
                   /\ target'[s] = process[p].hash
                   /\ target[s] \notin {Foreign, Unmanaged}
             /\ journal' = journal /\ faults' = faults /\ UNCHANGED <<late, strayed>>
  BY <1>3, <1>6 DEF ApplyRecord, history
<1>7. CASE \E r \in Records : ApplyRecord(p, r)
  BY <1>2, <1>6, <1>7, <1>11
<1>8. CASE UNCHANGED <<site, history>>
  BY <1>2, <1>8, <1>11 DEF site, history
<1>9. CASE Fault(p)
  <2>1. faults' \in 0..MaxFaults
    BY <1>2, <1>9, SyncAssumption DEF Fault
  <2>2. \A r \in Due(p) : r \in Records
    <3>1. process[p] \in Command
      BY CommandShape
    <3>2. QED
      BY <3>1 DEF Due, Command
  <2>3. CASE UNCHANGED site
    BY <1>2, <1>11, <2>1, <2>3 DEF site
  <2>4. ASSUME process[p].pc = "records", NEW r \in Due(p), ~Conflicting(r),
               Written(r, process[p].hash) # target[r],
               target' = [target EXCEPT ![r] = process[p].hash],
               UNCHANGED <<late, strayed, journal>>
        PROVE  /\ target' \in [Records -> Content]
               /\ \A s \in Records : target'[s] # target[s] =>
                     /\ process[p].pc = "records"
                     /\ target'[s] = process[p].hash
                     /\ target[s] \notin {Foreign, Unmanaged}
    <3>1. Written(r, process[p].hash) = process[p].hash
      BY <2>4 DEF Written
    <3>2. QED
      BY <1>3, <2>2, <2>4, <3>1
  <2>5. CASE /\ process[p].pc = "write"
             /\ \/ journal' = Torn
                \/ journal' = [process[p].seen EXCEPT ![process[p].request] = Entry(p)]
             /\ UNCHANGED <<target, late, strayed>>
    BY <1>2, <1>4, <1>11, <2>1, <2>5
  <2>6. ASSUME NEW r \in Due(p), ~Conflicting(r), Written(r, process[p].hash) # target[r],
               late' = late \cup {[record |-> r, revision |-> process[p].hash,
                                  creates |-> target[r] = Absent]},
               UNCHANGED <<target, strayed, journal>>
        PROVE  Kept
    <3> DEFINE m == [record |-> r, revision |-> process[p].hash, creates |-> target[r] = Absent]
    <3>1. m \in Write /\ m.revision = process[p].hash /\ m.record = r
      BY <1>1, <2>2, <2>6 DEF Write
    <3>2. target[r] \notin {Foreign, Unmanaged}
      BY <2>2, <2>6, SyncAssumption DEF Written, Conflicting, Items, Absent, Foreign, Unmanaged
    <3> HIDE DEF m
    <3>3. late' = late \cup {m}
      BY <2>6 DEF m
    <3>4. QED
      BY <2>6, <3>1, <3>2, <3>3 DEF Kept
  <2>7. \/ UNCHANGED site
        \/ /\ process[p].pc = "records"
           /\ \E r \in Due(p) :
                 /\ ~Conflicting(r)
                 /\ Written(r, process[p].hash) # target[r]
                 /\ \/ /\ target' = [target EXCEPT ![r] = process[p].hash]
                       /\ UNCHANGED <<late, strayed, journal>>
                    \/ /\ late' = late \cup {[record |-> r, revision |-> process[p].hash,
                                             creates |-> target[r] = Absent]}
                       /\ UNCHANGED <<target, strayed, journal>>
        \/ /\ process[p].pc = "write"
           /\ \/ journal' = Torn
              \/ journal' = [process[p].seen EXCEPT ![process[p].request] = Entry(p)]
           /\ UNCHANGED <<target, late, strayed>>
    BY <1>9 DEF Fault, Entry
  <2>8. CASE /\ process[p].pc = "records"
             /\ \E r \in Due(p) :
                   /\ ~Conflicting(r)
                   /\ Written(r, process[p].hash) # target[r]
                   /\ \/ /\ target' = [target EXCEPT ![r] = process[p].hash]
                         /\ UNCHANGED <<late, strayed, journal>>
                      \/ /\ late' = late \cup {[record |-> r, revision |-> process[p].hash,
                                               creates |-> target[r] = Absent]}
                         /\ UNCHANGED <<target, strayed, journal>>
    <3>1. PICK r \in Due(p) :
             /\ ~Conflicting(r)
             /\ Written(r, process[p].hash) # target[r]
             /\ \/ /\ target' = [target EXCEPT ![r] = process[p].hash]
                   /\ UNCHANGED <<late, strayed, journal>>
                \/ /\ late' = late \cup {[record |-> r, revision |-> process[p].hash,
                                         creates |-> target[r] = Absent]}
                   /\ UNCHANGED <<target, strayed, journal>>
      BY <2>8
    <3>2. CASE /\ target' = [target EXCEPT ![r] = process[p].hash]
               /\ UNCHANGED <<late, strayed, journal>>
      BY <1>2, <1>11, <2>1, <2>4, <2>8, <3>1, <3>2
    <3>3. CASE /\ late' = late \cup {[record |-> r, revision |-> process[p].hash,
                                     creates |-> target[r] = Absent]}
               /\ UNCHANGED <<target, strayed, journal>>
      <4>1. Kept
        BY <2>6, <3>1, <3>3
      <4>2. QED
        BY <1>2, <2>1, <3>3, <4>1
    <3>4. QED
      BY <3>1, <3>2, <3>3
  <2>9. QED
    BY <2>3, <2>5, <2>7, <2>8
<1>10. QED
  BY <1>5, <1>7, <1>8, <1>9
     DEF CommandStep, ReadRelease, LoadJournal, CheckConflicts, ConflictingRecord, VerifyTarget

\* A write that comes late changes one record of the Site, and no plan or command.
LEMMA Landed ==
    ASSUME TypeOK, NEW m \in late, LandWrite(m)
    PROVE  /\ m \in Write
           /\ target' \in [Records -> Content]
           /\ target'[m.record] = m.revision
           /\ \A r \in Records \ {m.record} : target'[r] = target[r]
           /\ late' \subseteq late
           /\ strayed' \in BOOLEAN
           /\ UNCHANGED <<revision, plans, thread, holder, process, journal, confirmed, faults, crashes>>
<1>1. m \in Write
  BY DEF TypeOK
<1>2. m.record \in Records /\ m.revision \in Content
  BY <1>1 DEF Write, Content
<1>3. /\ target' = [target EXCEPT ![m.record] = m.revision]
      /\ late' \subseteq late
      /\ UNCHANGED <<revision, plans, thread, holder, process, journal, confirmed, faults, crashes>>
  BY DEF LandWrite, gate, history
<1>4. strayed' \in BOOLEAN
  BY DEF LandWrite, TypeOK
<1>5. QED
  BY <1>1, <1>2, <1>3, <1>4 DEF TypeOK

-----------------------------------------------------------------------------
(* The invariant, step by step.                                             *)

\* Every step keeps the types; what a thread serves is a plan and not None.
LEMMA TypeStep ==
    ASSUME TypeOK, GateInv, [Next]_vars
    PROVE  TypeOK'
<1>1. ASSUME NEW e \in Employees, NEW q \in Requests, MakePlan(e, q)
      PROVE  TypeOK'
  <2>1. [revision |-> revision, employee |-> e,
         conflict |-> Conflicts(revision) # {}, status |-> "pending"] \in Plan
    BY DEF TypeOK, Plan
  <2>2. plans' \in [Requests -> Plan \cup {None}]
    BY <1>1, <2>1 DEF MakePlan, TypeOK
  <2>3. QED
    BY <1>1, <2>2 DEF MakePlan, TypeOK, site, history
<1>2. ASSUME NEW t \in Threads, NEW e \in Employees, NEW q \in Requests, Apply(t, e, q)
      PROVE  TypeOK'
  <2>1. plans[q] \in Plan
    BY <1>2 DEF Apply, TypeOK
  <2>2. /\ plans' \in [Requests -> Plan \cup {None}]
        /\ confirmed' \subseteq 0..MaxRevision
    BY <1>2, <2>1 DEF Apply, TypeOK, Plan
  <2>3. thread' \in [Threads -> Serving \cup {Idle}]
    BY <1>2 DEF Apply, TypeOK, Serving
  <2>4. QED
    BY <1>2, <2>2, <2>3 DEF Apply, TypeOK, site
<1>3. ASSUME NEW t \in Threads, FinishApply(t)
      PROVE  TypeOK'
  <2>1. /\ thread[t].request \in Requests
        /\ plans[thread[t].request] \in Plan
    BY <1>3, Serves DEF FinishApply, GateInv
  <2>2. plans' \in [Requests -> Plan \cup {None}]
    BY <1>3, <2>1 DEF FinishApply, TypeOK, Plan
  <2>3. /\ thread' \in [Threads -> Serving \cup {Idle}]
        /\ process' \in [Processes -> Command \cup {Idle}]
        /\ holder' \in Threads \cup {None}
    BY <1>3 DEF FinishApply, TypeOK
  <2>4. QED
    BY <1>3, <2>2, <2>3 DEF FinishApply, TypeOK, site, history
<1>4. ASSUME NEW t \in Threads, NEW p \in Processes, StartCommand(t, p)
      PROVE  TypeOK'
  <2>1. /\ thread[t] \in Serving
        /\ thread[t].request \in Requests
        /\ plans[thread[t].request] \in Plan
    BY <1>4, Serves DEF StartCommand, GateInv
  <2>2. thread' \in [Threads -> Serving \cup {Idle}]
    BY <1>4, <2>1 DEF StartCommand, TypeOK, Serving
  <2>3. [pc |-> "release", request |-> thread[t].request,
         employee |-> plans[thread[t].request].employee,
         hash |-> plans[thread[t].request].revision, left |-> {},
         seen |-> [r \in Requests |-> None], ok |-> FALSE, orphan |-> FALSE] \in Command
    BY <2>1 DEF Command, Plan
  <2>4. process' \in [Processes -> Command \cup {Idle}]
    BY <1>4, <2>3 DEF StartCommand, TypeOK
  <2>5. QED
    BY <1>4, <2>2, <2>4 DEF StartCommand, TypeOK, site, history
<1>5. ASSUME NEW p \in Processes, CommandStep(p) \/ Fault(p)
      PROVE  TypeOK'
  <2>1. /\ process' \in [Processes -> Command \cup {Idle}]
        /\ UNCHANGED <<revision, gate, confirmed, crashes>>
    BY <1>5, CommandShape
  <2>2. /\ target' \in [Records -> Content]
        /\ journal' \in [Requests -> Done \cup {None}] \cup {Torn}
        /\ faults' \in 0..MaxFaults
        /\ late' \subseteq Write /\ strayed' \in BOOLEAN
    BY <1>5, SiteShape DEF TypeOK
  <2>3. QED
    BY <2>1, <2>2 DEF TypeOK, gate
<1>6. CASE Crash
  <2>1. \A p \in Processes : process[p].pc \notin {"idle", "exit"} =>
           [process[p] EXCEPT !.orphan = TRUE] \in Command
    <3> SUFFICES ASSUME NEW p \in Processes, process[p].pc \notin {"idle", "exit"}
                 PROVE  [process[p] EXCEPT !.orphan = TRUE] \in Command
      OBVIOUS
    <3>1. process[p] \in Command
      BY Kinds
    <3>2. QED
      BY <3>1 DEF Command
  <2>2. process' \in [Processes -> Command \cup {Idle}]
    BY <1>6, <2>1 DEF Crash
  <2>3. crashes' \in 0..MaxCrashes
    BY <1>6, SyncAssumption DEF Crash, TypeOK
  <2>4. QED
    BY <1>6, <2>2, <2>3 DEF Crash, TypeOK, site
<1>7. CASE Publish
  BY <1>7, SyncAssumption DEF Publish, TypeOK, gate, site, history
<1>8. CASE UNCHANGED vars
  BY <1>8 DEF vars, TypeOK
<1>9. ASSUME NEW m \in late, LandWrite(m)
      PROVE  TypeOK'
  BY <1>9, Landed DEF TypeOK
<1>10. QED
  BY <1>1, <1>2, <1>3, <1>4, <1>5, <1>6, <1>7, <1>8, <1>9 DEF Next

\* A new plan is nobody's yet.
LEMMA GateMakePlan ==
    ASSUME TypeOK, GateInv, NEW e \in Employees, NEW q \in Requests, MakePlan(e, q)
    PROVE  GateInv'
<1>1. /\ \A r \in Requests \ {q} : plans'[r] = plans[r]
      /\ plans[q] = None
      /\ plans'[q].status = "pending"
      /\ plans'[q].revision = revision
      /\ UNCHANGED <<revision, thread, holder, process, target, confirmed, crashes>>
  BY DEF MakePlan, TypeOK, site, history
<1>2. \A t \in Threads : thread[t] # Idle =>
         thread[t].request \in Requests /\ thread[t].request # q
  BY <1>1, Serves, Kinds, NoneAssumption DEF GateInv
<1>3. ApplyingIsServed'
  BY <1>1, <1>2 DEF GateInv, ApplyingIsServed
<1>4. RunnerOK' /\ ServedOK'
  BY <1>1, <1>2, Kinds DEF GateInv, RunnerOK, ServedOK
<1>5. CommandOK' /\ RevisionOK'
  BY <1>1 DEF GateInv, CommandOK, RevisionOK, TypeOK
<1>6. QED
  BY <1>3, <1>4, <1>5 DEF GateInv

\* A confirmation moves a pending plan and an idle thread together.
LEMMA GateApply ==
    ASSUME TypeOK, GateInv, NEW t \in Threads, NEW e \in Employees, NEW q \in Requests,
           Apply(t, e, q)
    PROVE  GateInv'
<1>1. /\ plans[q] \in Plan /\ plans[q].status = "pending" /\ thread[t] = Idle
      /\ UNCHANGED <<revision, holder, process, target, crashes>>
      /\ confirmed' = confirmed \cup {plans[q].revision}
  BY DEF Apply, TypeOK, site
<1>2. /\ \A r \in Requests \ {q} : plans'[r] = plans[r]
      /\ plans'[q] \in Plan
      /\ plans'[q].status = "applying"
      /\ plans'[q].revision = plans[q].revision
  BY <1>1 DEF Apply, TypeOK, Plan
<1>3. /\ \A u \in Threads \ {t} : thread'[u] = thread[u]
      /\ thread'[t].pc = "wait" /\ thread'[t].request = q /\ thread'[t] # Idle
  BY DEF Apply, TypeOK, Idle
<1>4. \A u \in Threads : thread[u] # Idle =>
         thread[u].request \in Requests /\ thread[u].request # q
  BY <1>1, Serves, Kinds DEF GateInv
<1>5. /\ plans[q] # None /\ plans'[q] # None
      /\ thread[t].pc = "idle"
  BY <1>1, <1>2, NoneAssumption DEF Idle
<1>6. ApplyingIsServed'
  BY <1>1, <1>2, <1>3, <1>4, <1>5 DEF GateInv, ApplyingIsServed
<1>7. RunnerOK' /\ ServedOK'
  BY <1>1, <1>2, <1>3, <1>4, Kinds DEF GateInv, RunnerOK, ServedOK
<1>8. CommandOK'
  BY <1>1, <1>3, <1>5 DEF GateInv, CommandOK
<1>9. RevisionOK'
  BY <1>1, <1>2, <1>5 DEF GateInv, RevisionOK
<1>10. QED
  BY <1>6, <1>7, <1>8, <1>9 DEF GateInv

\* The lock was free, so the started command is the only one with a thread.
LEMMA GateStart ==
    ASSUME TypeOK, GateInv, NEW t \in Threads, NEW p \in Processes, StartCommand(t, p)
    PROVE  GateInv'
<1> DEFINE q == thread[t].request
<1>1. /\ thread[t] \in Serving /\ thread[t] # Idle /\ thread[t].pc = "wait"
      /\ q \in Requests
      /\ plans[q] \in Plan
      /\ UNCHANGED <<plans, revision, target, confirmed, crashes>>
  BY Serves, Kinds DEF GateInv, StartCommand, site, history
<1>2. /\ \A u \in Threads \ {t} : thread'[u] = thread[u]
      /\ thread'[t].pc = "run" /\ thread'[t].request = q
      /\ thread'[t].process = p /\ thread'[t] # Idle
  BY <1>1 DEF StartCommand, TypeOK, Serving, Idle
<1>3. /\ \A o \in Processes \ {p} : process'[o] = process[o]
      /\ process'[p].request = q
      /\ process'[p].employee = plans[q].employee
      /\ process'[p].hash = plans[q].revision
      /\ process'[p].orphan = FALSE
      /\ holder' = t
  BY DEF StartCommand, TypeOK
<1>4. process'[p] \in Command
  <2>1. TypeOK'
    BY TypeStep DEF Next
  <2>2. process'[p] # Idle
    BY DEF StartCommand, TypeOK, Idle
  <2>3. QED
    BY <2>1, <2>2 DEF TypeOK
<1>5. \A u \in Threads : thread[u].pc # "run"
  BY NoneAssumption DEF StartCommand, GateInv, ApplyingIsServed
<1>6. ApplyingIsServed'
  BY <1>1, <1>2, <1>3, <1>5 DEF GateInv, ApplyingIsServed
<1>7. RunnerOK'
  BY <1>1, <1>2, <1>3, <1>4, <1>5 DEF RunnerOK
<1>8. ServedOK'
  BY <1>1, <1>2 DEF GateInv, ServedOK
<1>9. CommandOK'
  <2>1. plans[q].revision \in confirmed /\ plans[q].revision <= revision
    BY <1>1, NoneAssumption DEF GateInv, ServedOK, RevisionOK
  <2>2. \A o \in Processes \ {p} : process[o] \in Command => process[o].orphan
    BY <1>5 DEF GateInv, CommandOK
  <2>3. QED
    BY <1>1, <1>2, <1>3, <2>1, <2>2 DEF GateInv, CommandOK
<1>10. RevisionOK'
  BY <1>1 DEF GateInv, RevisionOK
<1>11. QED
  BY <1>6, <1>7, <1>8, <1>9, <1>10 DEF GateInv

\* The thread that finishes held the lock, and no other one served its plan.
LEMMA GateFinish ==
    ASSUME TypeOK, GateInv, NEW t \in Threads, FinishApply(t)
    PROVE  GateInv'
<1> DEFINE p == thread[t].process
           q == thread[t].request
<1>1. /\ thread[t] # Idle /\ thread[t].pc = "run" /\ holder = t
      /\ q \in Requests
      /\ plans[q] \in Plan
      /\ p \in Processes
      /\ UNCHANGED <<revision, target, confirmed, crashes>>
  BY Serves, Kinds DEF GateInv, ApplyingIsServed, RunnerOK, FinishApply, site, history
<1>2. /\ \A r \in Requests \ {q} : plans'[r] = plans[r]
      /\ plans'[q] \in Plan
      /\ plans'[q].status # "applying"
      /\ plans'[q].revision = plans[q].revision
  BY <1>1 DEF FinishApply, TypeOK, Plan
<1>3. /\ \A u \in Threads \ {t} : thread'[u] = thread[u]
      /\ thread'[t] = Idle /\ thread'[t].pc = "idle"
      /\ \A o \in Processes \ {p} : process'[o] = process[o]
      /\ process'[p] = Idle
      /\ holder' = None
  BY <1>1 DEF FinishApply, TypeOK, Idle
<1>4. /\ \A u \in Threads \ {t} : thread[u].pc # "run"
      /\ \A u \in Threads \ {t} : thread[u] # Idle => thread[u].request # q
  BY <1>1 DEF GateInv, ApplyingIsServed
<1>5. \A u \in Threads : thread[u] # Idle => thread[u].request \in Requests
  BY Serves, Kinds DEF GateInv
<1>6. ApplyingIsServed'
  <2>1. \A r \in Requests : (plans'[r] # None /\ plans'[r].status = "applying")
            <=> (\E u \in Threads : thread'[u] # Idle /\ thread'[u].request = r)
    BY <1>1, <1>2, <1>3, <1>4 DEF GateInv, ApplyingIsServed
  <2>2. \A u, v \in Threads :
          thread'[u] # Idle /\ thread'[v] # Idle /\ thread'[u].request = thread'[v].request => u = v
    BY <1>3 DEF GateInv, ApplyingIsServed
  <2>3. \A u \in Threads : holder' = u <=> thread'[u].pc = "run"
    BY <1>3, <1>4, NoneAssumption
  <2>4. QED
    BY <2>1, <2>2, <2>3 DEF ApplyingIsServed
<1>7. RunnerOK'
  BY <1>3, <1>4 DEF RunnerOK
<1>8. ServedOK'
  BY <1>1, <1>2, <1>3, <1>4, <1>5 DEF GateInv, ServedOK
<1>9. CommandOK'
  <2>1. Idle \notin Command
    BY DEF Idle, Command
  <2>2. \A o \in Processes \ {p} : process[o] \in Command => process[o].orphan
    BY <1>1, <1>4 DEF GateInv, CommandOK
  <2>3. QED
    BY <1>1, <1>3, <2>1, <2>2 DEF GateInv, CommandOK
<1>10. RevisionOK'
  BY <1>1, <1>2, NoneAssumption DEF GateInv, RevisionOK
<1>11. QED
  BY <1>6, <1>7, <1>8, <1>9, <1>10 DEF GateInv

\* A command's steps, and its failure, leave the gate alone.
LEMMA GateCommand ==
    ASSUME TypeOK, GateInv, NEW p \in Processes, CommandStep(p) \/ Fault(p)
    PROVE  GateInv'
<1>1. /\ process[p] \in Command
      /\ \A o \in Processes \ {p} : process'[o] = process[o]
      /\ \/ process[p].orphan /\ process'[p] = Idle
         \/ /\ process'[p] \in Command
            /\ process'[p].request = process[p].request
            /\ process'[p].employee = process[p].employee
            /\ process'[p].hash = process[p].hash
            /\ process'[p].orphan = process[p].orphan
      /\ UNCHANGED <<revision, plans, thread, holder, confirmed, crashes>>
  BY CommandShape DEF gate
<1>2. Idle \notin Command
  BY DEF Idle, Command
<1>3. ApplyingIsServed' /\ ServedOK'
  BY <1>1 DEF GateInv, ApplyingIsServed, ServedOK
<1>4. RunnerOK'
  BY <1>1 DEF GateInv, RunnerOK
<1>5. CommandOK'
  BY <1>1, <1>2 DEF GateInv, CommandOK
<1>6. RevisionOK'
  <2>1. process[p].hash <= revision
    BY <1>1 DEF GateInv, CommandOK
  <2>2. \A r \in Records : target'[r] # target[r] => target'[r] = process[p].hash
    BY SiteShape
  <2>3. QED
    BY <1>1, <2>1, <2>2 DEF GateInv, RevisionOK
<1>7. QED
  BY <1>3, <1>4, <1>5, <1>6 DEF GateInv

\* The plans, threads and the lock go; what still runs becomes an orphan.
LEMMA GateCrash ==
    ASSUME TypeOK, GateInv, Crash
    PROVE  GateInv'
<1>1. /\ \A q \in Requests : plans'[q] = None
      /\ \A t \in Threads : thread'[t] = Idle /\ thread'[t].pc = "idle"
      /\ holder' = None
      /\ UNCHANGED <<revision, target, confirmed>>
      /\ crashes' > 0
  BY DEF Crash, site, Idle, TypeOK
<1>2. ApplyingIsServed' /\ RunnerOK' /\ ServedOK' /\ RevisionOK'
  BY <1>1, NoneAssumption DEF GateInv, ApplyingIsServed, RunnerOK, ServedOK, RevisionOK
<1>3. CommandOK'
  <2> SUFFICES ASSUME NEW p \in Processes, process'[p] \in Command
               PROVE  /\ process'[p].hash \in confirmed
                      /\ process'[p].hash <= revision
                      /\ process'[p].orphan = TRUE
    BY <1>1 DEF CommandOK
  <2>1. Idle \notin Command
    BY DEF Idle, Command
  <2>2. /\ process[p].pc \notin {"idle", "exit"}
        /\ process'[p] = [process[p] EXCEPT !.orphan = TRUE]
    BY <2>1 DEF Crash
  <2>3. process[p] \in Command
    BY <2>2, Kinds
  <2>4. process'[p].hash = process[p].hash /\ process'[p].orphan = TRUE
    BY <2>2, <2>3 DEF Command
  <2>5. QED
    BY <2>3, <2>4 DEF GateInv, CommandOK
<1>4. QED
  BY <1>2, <1>3 DEF GateInv

\* What comes late is no newer than the catalog.
LEMMA GateLand ==
    ASSUME TypeOK, GateInv, LateOK, NEW m \in late, LandWrite(m)
    PROVE  GateInv'
<1>1. /\ m \in Write
      /\ target'[m.record] = m.revision
      /\ \A r \in Records \ {m.record} : target'[r] = target[r]
      /\ UNCHANGED <<revision, plans, thread, holder, process, confirmed, crashes>>
  BY Landed
<1>2. m.revision <= revision
  BY DEF LateOK
<1>3. RevisionOK'
  BY <1>1, <1>2 DEF GateInv, RevisionOK, Write
<1>4. QED
  BY <1>1, <1>3 DEF GateInv, ApplyingIsServed, RunnerOK, ServedOK, CommandOK

\* GateInv is inductive, given the types and what may come late.
LEMMA GateStep ==
    ASSUME TypeOK, GateInv, LateOK, [Next]_vars
    PROVE  GateInv'
<1>1. CASE Publish
  <2>1. UNCHANGED <<plans, thread, holder, process, target, confirmed, crashes>>
    BY <1>1 DEF Publish, gate, site, history
  <2>2. revision' = revision + 1
    BY <1>1 DEF Publish
  <2>3. /\ \A q \in Requests : plans[q] # None => plans[q].revision \in Int
        /\ \A r \in Records : target[r] \in Int
        /\ \A p \in Processes : process[p] \in Command => process[p].hash \in Int
        /\ revision \in Int
    BY DEF TypeOK, Plan, Command, Content, Absent, Foreign, Unmanaged
  <2>4. ApplyingIsServed' /\ RunnerOK' /\ ServedOK'
    BY <2>1 DEF GateInv, ApplyingIsServed, RunnerOK, ServedOK
  <2>5. CommandOK'
    BY <2>1, <2>2, <2>3 DEF GateInv, CommandOK
  <2>6. RevisionOK'
    BY <2>1, <2>2, <2>3 DEF GateInv, RevisionOK
  <2>7. QED
    BY <2>4, <2>5, <2>6 DEF GateInv
<1>2. CASE UNCHANGED vars
  BY <1>2 DEF vars, GateInv, ApplyingIsServed, RunnerOK, ServedOK, CommandOK, RevisionOK
<1>3. QED
  BY <1>1, <1>2, GateMakePlan, GateApply, GateStart, GateFinish, GateCommand, GateCrash, GateLand
     DEF Next

\* What a command gives up is its release's, and a record never becomes another's.
LEMMA LateStep ==
    ASSUME TypeOK, GateInv, LateOK, [Next]_vars
    PROVE  LateOK'
<1>1. \A m \in late : m \in Write
  BY DEF TypeOK
<1>2. ASSUME UNCHANGED <<target, late>>, confirmed \subseteq confirmed',
             revision' \in Int, revision' >= revision
      PROVE  LateOK'
  <2>1. revision \in Int /\ \A m \in late : m.revision \in Int
    BY <1>1 DEF TypeOK, Write
  <2>2. QED
    BY <1>2, <2>1 DEF LateOK
<1>3. ASSUME NEW p \in Processes, CommandStep(p) \/ Fault(p)
      PROVE  LateOK'
  <2>1. /\ process[p] \in Command /\ UNCHANGED <<revision, confirmed>>
    BY <1>3, CommandShape
  <2>2. process[p].hash \in confirmed /\ process[p].hash <= revision
        /\ process[p].hash \in 0..MaxRevision
    BY <2>1 DEF GateInv, CommandOK, Command
  <2>3. \A r \in Records : target'[r] # target[r] => target'[r] \notin {Foreign, Unmanaged}
    BY <1>3, <2>2, SiteShape DEF Foreign, Unmanaged
  <2>4. \A m \in late' : m \in late \/
           (m.revision = process[p].hash /\ target' = target /\ target[m.record] \notin {Foreign, Unmanaged})
    BY <1>3, SiteShape
  <2>5. \A m \in late : m.record \in Records
    BY <1>1 DEF Write
  <2>6. QED
    BY <2>1, <2>2, <2>3, <2>4, <2>5 DEF LateOK
<1>4. ASSUME NEW m \in late, LandWrite(m)
      PROVE  LateOK'
  <2>1. /\ m \in Write
        /\ target'[m.record] = m.revision
        /\ \A r \in Records \ {m.record} : target'[r] = target[r]
        /\ late' \subseteq late /\ UNCHANGED <<revision, confirmed>>
    BY <1>4, Landed
  <2>2. m.revision \notin {Foreign, Unmanaged}
    BY <2>1 DEF Write, Foreign, Unmanaged
  <2>3. \A o \in late : o.record \in Records
    BY <1>1 DEF Write
  <2>4. QED
    BY <2>1, <2>2, <2>3 DEF LateOK
<1>5. CASE Publish \/ Crash \/ UNCHANGED vars
  BY <1>2, <1>5 DEF Publish, Crash, site, history, vars, TypeOK
<1>6. ASSUME NEW e \in Employees, NEW q \in Requests,
             MakePlan(e, q) \/ \E t \in Threads : Apply(t, e, q)
      PROVE  LateOK'
  BY <1>2, <1>6 DEF MakePlan, Apply, site, history, TypeOK
<1>7. ASSUME NEW t \in Threads, FinishApply(t) \/ \E p \in Processes : StartCommand(t, p)
      PROVE  LateOK'
  BY <1>2, <1>7 DEF FinishApply, StartCommand, site, history, TypeOK
<1>8. QED
  BY <1>3, <1>4, <1>5, <1>6, <1>7 DEF Next

\* The records left of a release are taken from it once and only become fewer.
LEMMA LeftStep ==
    ASSUME TypeOK, LeftInv, [Next]_vars
    PROVE  LeftInv'
<1>1. Idle \notin Command
  BY DEF Idle, Command
<1>2. ASSUME \A o \in Processes : process'[o] = process[o] \/ process'[o] = Idle
                 \/ process'[o].left = {}
                 \/ /\ process[o] \in Command /\ process'[o].hash = process[o].hash
                    /\ process'[o].left \subseteq process[o].left
      PROVE  LeftInv'
  BY <1>1, <1>2 DEF LeftInv, Release
<1>3. ASSUME NEW t \in Threads, NEW p \in Processes, StartCommand(t, p)
      PROVE  LeftInv'
  BY <1>2, <1>3 DEF StartCommand, TypeOK
<1>4. ASSUME NEW t \in Threads, FinishApply(t)
      PROVE  LeftInv'
  BY <1>2, <1>4 DEF FinishApply, TypeOK
<1>5. CASE Crash
  <2>1. ASSUME NEW o \in Processes, process'[o] # Idle
        PROVE  /\ process[o] \in Command /\ process'[o].hash = process[o].hash
               /\ process'[o].left = process[o].left
    <3>1. /\ process[o].pc \notin {"idle", "exit"}
          /\ process'[o] = [process[o] EXCEPT !.orphan = TRUE]
      BY <1>5, <2>1 DEF Crash
    <3>2. process[o] \in Command
      BY <3>1, Kinds
    <3>3. QED
      BY <3>1, <3>2 DEF Command
  <2>2. QED
    BY <1>2, <2>1
<1>6. ASSUME NEW p \in Processes, CommandStep(p) \/ Fault(p)
      PROVE  LeftInv'
  <2>1. /\ process[p] \in Command /\ UNCHANGED revision
        /\ \A o \in Processes \ {p} : process'[o] = process[o]
        /\ process'[p] = Idle \/ process'[p].hash = process[p].hash
    BY <1>6, CommandShape
  <2>2. \/ \E ok \in BOOLEAN : Exit(p, ok)
        \/ /\ process[p].hash = revision
           /\ process' = [process EXCEPT ![p].pc = "journal", ![p].left = Release(revision)]
        \/ process' = [process EXCEPT ![p].pc = "plan", ![p].seen = journal]
        \/ \E pc \in {"records", "write"} : process' = [process EXCEPT ![p].pc = pc]
        \/ \E r \in Records : process' = [process EXCEPT ![p].left = process[p].left \ {r}]
    BY <1>6 DEF CommandStep, Fault, ReadRelease, LoadJournal, CheckConflicts, ApplyRecord,
           ConflictingRecord, VerifyTarget, WriteJournal, Goto
  <2>3. \/ process'[p] = Idle
        \/ process'[p].left \subseteq process[p].left
        \/ process'[p].left = Release(process[p].hash)
    <3> DEFINE c == process[p]  d == process'[p]
    <3>1. /\ c \in Command
          /\ \/ d = Idle
             \/ \E ok \in BOOLEAN : d = [c EXCEPT !.pc = "exit", !.ok = ok]
             \/ c.hash = revision /\ d = [c EXCEPT !.pc = "journal", !.left = Release(revision)]
             \/ d = [c EXCEPT !.pc = "plan", !.seen = journal]
             \/ \E pc \in {"records", "write"} : d = [c EXCEPT !.pc = pc]
             \/ \E r \in Records : d = [c EXCEPT !.left = c.left \ {r}]
      <4>1. ASSUME NEW ok \in BOOLEAN, Exit(p, ok)
            PROVE  d = Idle \/ d = [c EXCEPT !.pc = "exit", !.ok = ok]
        BY <4>1 DEF Exit, TypeOK
      <4>2. QED
        BY <2>1, <2>2, <4>1 DEF TypeOK
    <3> HIDE DEF c, d
    <3>2. d = Idle \/ d.left \subseteq c.left \/ d.left = Release(c.hash)
      <4>1. ASSUME NEW ok \in BOOLEAN, d = [c EXCEPT !.pc = "exit", !.ok = ok]
            PROVE  d.left = c.left
        BY <3>1, <4>1 DEF Command
      <4>2. ASSUME c.hash = revision, d = [c EXCEPT !.pc = "journal", !.left = Release(revision)]
            PROVE  d.left = Release(c.hash)
        BY <3>1, <4>2 DEF Command
      <4>3. ASSUME d = [c EXCEPT !.pc = "plan", !.seen = journal]
            PROVE  d.left = c.left
        BY <3>1, <4>3 DEF Command
      <4>4. ASSUME NEW pc \in {"records", "write"}, d = [c EXCEPT !.pc = pc]
            PROVE  d.left = c.left
        BY <3>1, <4>4 DEF Command
      <4>5. ASSUME NEW r \in Records, d = [c EXCEPT !.left = c.left \ {r}]
            PROVE  d.left \subseteq c.left
        BY <3>1, <4>5 DEF Command
      <4>6. QED
        BY <3>1, <4>1, <4>2, <4>3, <4>4, <4>5
    <3>3. QED
      BY <3>2 DEF c, d
  <2>4. QED
    BY <1>1, <2>1, <2>3 DEF LeftInv
<1>7. CASE UNCHANGED process
  BY <1>2, <1>7
<1>8. QED
  BY <1>3, <1>4, <1>5, <1>6, <1>7 DEF Next, MakePlan, Apply, LandWrite, Publish, gate, vars

-----------------------------------------------------------------------------
(* The Site and the journal.                                                *)

\* Only a command, going on or failing, or what it gave up changes the Site or the
\* journal.
LEMMA SiteWriters ==
    ASSUME [Next]_vars
    PROVE  \/ UNCHANGED site
           \/ \E p \in Processes : CommandStep(p) \/ Fault(p)
           \/ \E m \in late : LandWrite(m)
BY DEF Next, MakePlan, Apply, StartCommand, FinishApply, Crash, Publish, vars, site

\* What a command relies on holds where its step leads, as no other one runs.
LEMMA AloneStep ==
    ASSUME IInv, crashes = 0, NEW p \in Processes, CommandStep(p) \/ Fault(p)
    PROVE  process'[p] \in Command /\ AloneOK(p)'
<1>1. /\ TypeOK /\ GateInv /\ AloneOK(p)
      /\ process[p] \in Command
  BY CommandShape DEF IInv, JournalInv
<1>2. /\ process[p] \in Command /\ process'[p] \in Command
      /\ ~process[p].orphan
      /\ process'[p].request = process[p].request
      /\ process'[p].employee = process[p].employee
      /\ process'[p].hash = process[p].hash
      /\ process[p].left \in SUBSET Records
      /\ process[p].seen \in [Requests -> Done \cup {None}]
      /\ process[p].hash \in 0..MaxRevision
      /\ process[p].request \in Requests
  <2>1. process[p] \in Command /\ ~process[p].orphan
    BY <1>1, CommandShape DEF GateInv, CommandOK
  <2>2. QED
    BY <1>1, <2>1, CommandShape DEF Command
<1> SUFFICES AloneOK(p)'
  BY <1>2
<1>3. /\ target \in [Records -> Content]
      /\ \A r \in Records : target[r] <= revision
      /\ \A m \in late : m.revision <= revision
  BY <1>1 DEF TypeOK, GateInv, RevisionOK, IInv, LateOK
<1>4. \A ok \in BOOLEAN : Exit(p, ok) => process'[p].pc = "exit" /\ process'[p].ok = ok
  BY <1>1, <1>2, Exits
<1>5. \A ok \in BOOLEAN :
        Exit(p, ok) /\ (ok => journal' # Torn /\ journal'[process[p].request] = Entry(p))
            => AloneOK(p)'
  BY <1>2, <1>4 DEF AloneOK, Entry
<1>6. CASE ReadRelease(p)
  <2>1. CASE Exit(p, FALSE)
    BY <1>2, <1>5, <2>1
  <2>2. CASE /\ revision = process[p].hash
             /\ process' = [process EXCEPT ![p].pc = "journal", ![p].left = Release(revision)]
    <3>1. Release(revision) \in SUBSET Records
      BY <1>1, SyncAssumption DEF TypeOK, Release, Items
    <3> DEFINE c == process[p]  d == process'[p]
    <3>2. c \in Command /\ d = [c EXCEPT !.pc = "journal", !.left = Release(revision)]
      BY <1>1, <2>2 DEF TypeOK
    <3> HIDE DEF c, d
    <3>3. d.pc = "journal"
      BY <3>1, <3>2 DEF Command
    <3> USE DEF c, d
    <3>4. UNCHANGED site
      BY <1>6 DEF ReadRelease
    <3>5. QED
      BY <1>2, <1>3, <2>2, <3>3, <3>4 DEF AloneOK, site
  <2>3. QED
    BY <1>6, <2>1, <2>2 DEF ReadRelease
<1>7. CASE LoadJournal(p)
  <2>1. UNCHANGED <<target, late, journal>> /\ process[p].pc = "journal"
    BY <1>7 DEF LoadJournal, site
  <2>2. CASE journal = Torn /\ Exit(p, FALSE)
    BY <1>2, <1>5, <2>2
  <2>3. CASE journal # Torn /\ Exit(p, journal[process[p].request] = Entry(p))
    <3>1. CASE journal[process[p].request] = Entry(p)
      BY <1>2, <1>5, <2>1, <2>3, <3>1
    <3>2. CASE journal[process[p].request] # Entry(p)
      BY <1>2, <1>5, <2>3, <3>2
    <3>3. QED
      BY <3>1, <3>2
  <2>4. CASE /\ journal # Torn
             /\ journal[process[p].request] = None
             /\ process' = [process EXCEPT ![p].pc = "plan", ![p].seen = journal]
    <3>1. journal \in [Requests -> Done \cup {None}]
      BY <1>1, <2>4 DEF TypeOK
    <3> DEFINE c == process[p]  d == process'[p]
    <3>2. c \in Command /\ d = [c EXCEPT !.pc = "plan", !.seen = journal]
      BY <1>1, <2>4 DEF TypeOK
    <3> HIDE DEF c, d
    <3>3. d.pc = "plan" /\ d.seen = journal
      BY <3>1, <3>2 DEF Command
    <3> USE DEF c, d
    <3>4. QED
      BY <1>1, <1>2, <2>1, <2>4, <3>3 DEF AloneOK
  <2>5. QED
    BY <1>7, <2>2, <2>3, <2>4 DEF LoadJournal, Entry
<1>8. ASSUME NEW pc \in {"plan", "records", "write"},
             process[p].pc \in {"plan", "records"},
             process' = [process EXCEPT ![p].pc = pc],
             UNCHANGED <<target, late, journal>>,
             pc = "write" => /\ Unchanged(process[p].hash) = Catalog[process[p].hash]
                             /\ Extra(process[p].hash) = {}
      PROVE  AloneOK(p)'
  <2>1. process' # [process EXCEPT ![p].pc = pc, ![p].seen = process[p].seen]
           \/ process'[p].seen = process[p].seen
    BY <1>1, <1>2, <1>8, Goes
  <2>2. process'[p].pc = pc /\ process'[p].seen = process[p].seen
    BY <1>1, <1>2, <1>8, <2>1, Goes
  <2>3. QED
    BY <1>1, <1>2, <1>8, <2>2 DEF AloneOK, Unchanged, Extra
<1>9. CASE CheckConflicts(p)
  <2>1. CASE Exit(p, FALSE)
    BY <1>2, <1>5, <2>1
  <2>2. CASE Goto(p, "records")
    BY <1>8, <1>9, <2>2 DEF CheckConflicts, Goto, site
  <2>3. QED
    BY <1>9, <2>1, <2>2 DEF CheckConflicts
<1>10. ASSUME NEW r \in Records, ApplyRecord(p, r)
       PROVE  AloneOK(p)'
  <2>1. /\ process[p].pc = "records"
        /\ process' = [process EXCEPT ![p].left = process[p].left \ {r}]
        /\ UNCHANGED <<late, strayed, journal>>
    BY <1>10 DEF ApplyRecord
  <2>2. /\ process'[p].pc = "records"
        /\ process'[p].seen = process[p].seen
    <3> DEFINE c == process[p]  d == process'[p]
    <3>1. c \in Command /\ d = [c EXCEPT !.left = c.left \ {r}] /\ c.pc = "records"
      BY <1>1, <1>2, <2>1 DEF TypeOK
    <3> HIDE DEF c, d
    <3>2. d.pc = "records" /\ d.seen = c.seen
      BY <3>1 DEF Command
    <3>3. QED
      BY <3>2 DEF c, d
  <2>3. \A s \in Records : target'[s] <= process[p].hash
    <3>1. \A s \in Records : target'[s] # target[s] => target'[s] = process[p].hash
      BY <1>1, SiteShape
    <3>2. \A s \in Records : target[s] <= process[p].hash
      BY <1>1, <2>1 DEF AloneOK
    <3>3. QED
      BY <1>2, <3>1, <3>2
  <2>4. QED
    BY <1>1, <1>2, <2>1, <2>2, <2>3 DEF AloneOK
<1>11. CASE ConflictingRecord(p)
  BY <1>2, <1>5, <1>11 DEF ConflictingRecord
<1>12. CASE VerifyTarget(p)
  <2>1. CASE Exit(p, FALSE)
    BY <1>2, <1>5, <2>1
  <2>2. CASE /\ Goto(p, "write")
             /\ Unchanged(process[p].hash) = Catalog[process[p].hash]
             /\ Extra(process[p].hash) = {}
    BY <1>8, <1>12, <2>2 DEF VerifyTarget, Goto, site
  <2>3. QED
    BY <1>12, <2>1, <2>2 DEF VerifyTarget
<1>13. CASE WriteJournal(p)
  <2>1. journal' = [process[p].seen EXCEPT ![process[p].request] = Entry(p)]
    BY <1>13 DEF WriteJournal, Entry
  <2>2. journal' # Torn /\ journal'[process[p].request] = Entry(p)
    <3>1. Entry(p) \in Done
      BY <1>2 DEF Entry, Done, Command
    <3>2. journal' \in [Requests -> Done \cup {None}]
      BY <1>2, <2>1, <3>1
    <3>3. QED
      BY <1>2, <2>1, <3>2, NoneAssumption
  <2>3. QED
    BY <1>5, <1>13, <2>2 DEF WriteJournal
<1>14. CASE Fault(p)
  BY <1>5, <1>14 DEF Fault
<1>15. QED
  BY <1>2, <1>6, <1>7, <1>9, <1>10, <1>11, <1>12, <1>13, <1>14 DEF CommandStep

\* JournalInv is inductive: a second writer would need the lock or a crash.
LEMMA JournalStep ==
    ASSUME IInv, [Next]_vars
    PROVE  JournalInv'
<1>1. TypeOK /\ GateInv /\ JournalInv
  BY DEF IInv
<1>2. Idle \notin Command
  BY DEF Idle, Command
<1>3. ASSUME UNCHANGED site, crashes' = crashes,
             \A o \in Processes :
                \/ process'[o] = process[o] \/ process'[o] = Idle
                \/ process'[o].pc = "release"
      PROVE  JournalInv'
  BY <1>1, <1>2, <1>3 DEF JournalInv, AloneOK, Entry, Unchanged, Extra, site
<1>4. CASE Crash
  BY <1>4 DEF Crash, JournalInv, TypeOK, IInv
<1>5. ASSUME NEW t \in Threads, NEW p \in Processes, StartCommand(t, p)
      PROVE  JournalInv'
  BY <1>1, <1>3, <1>5 DEF StartCommand, TypeOK, history
<1>6. ASSUME NEW t \in Threads, FinishApply(t)
      PROVE  JournalInv'
  BY <1>1, <1>3, <1>6 DEF FinishApply, TypeOK, history
<1>7. ASSUME NEW p \in Processes, CommandStep(p) \/ Fault(p)
      PROVE  JournalInv'
  <2> SUFFICES ASSUME crashes' = 0, NEW o \in Processes, process'[o] \in Command
               PROVE  AloneOK(o)'
    BY DEF JournalInv
  <2>1. /\ crashes = 0 /\ process[p] \in Command
        /\ \A q \in Processes \ {p} : process'[q] = process[q]
    BY <1>1, <1>7, CommandShape
  <2>2. o = p
    BY <1>1, <2>1, Alone
  <2>3. QED
    BY <1>7, <2>1, <2>2, AloneStep
<1>8. CASE UNCHANGED <<process, site, crashes>>
  BY <1>3, <1>8
<1>9. ASSUME NEW m \in late, LandWrite(m)
      PROVE  JournalInv'
  <2> SUFFICES ASSUME crashes' = 0, NEW p \in Processes, process'[p] \in Command
               PROVE  AloneOK(p)'
    BY DEF JournalInv
  <2>1. /\ m \in Write
        /\ target'[m.record] = m.revision
        /\ \A r \in Records \ {m.record} : target'[r] = target[r]
        /\ late' \subseteq late
        /\ UNCHANGED <<process, journal, crashes>>
    BY <1>1, <1>9, Landed
  <2>2. AloneOK(p)
    BY <1>1, <2>1 DEF JournalInv
  <2>3. process[p].pc = "write" /\ ~strayed' => target' = target /\ ~strayed
    BY <1>9 DEF LandWrite
  <2>4. process[p].pc \in {"journal", "plan", "records", "write"} =>
           /\ \A r \in Records : target'[r] <= process[p].hash
           /\ \A o \in late' : o.revision <= process[p].hash
    BY <2>1, <2>2 DEF AloneOK
  <2>5. process[p].pc = "write" /\ ~strayed' =>
           /\ Unchanged(process[p].hash)' = Catalog[process[p].hash]
           /\ Extra(process[p].hash)' = {}
    BY <2>1, <2>2, <2>3 DEF AloneOK, Unchanged, Extra
  <2>6. QED
    BY <2>1, <2>2, <2>4, <2>5 DEF AloneOK, Entry
<1>10. QED
  BY <1>4, <1>5, <1>6, <1>7, <1>8, <1>9 DEF Next, MakePlan, Apply, Publish, history, vars, site

\* A complete plan's journal entry outlives the writes of later commands.
LEMMA CompleteStep ==
    ASSUME IInv, [Next]_vars
    PROVE  CompleteIsJournaled'
<1>1. TypeOK /\ GateInv /\ JournalInv /\ CompleteIsJournaled
  BY DEF IInv
<1>2. ASSUME UNCHANGED <<journal, crashes>>,
             \A q \in Requests :
                plans'[q] = plans[q] \/ plans'[q] = None \/ plans'[q].status # "complete"
      PROVE  CompleteIsJournaled'
  BY <1>1, <1>2 DEF CompleteIsJournaled
<1>3. ASSUME NEW e \in Employees, NEW q \in Requests, MakePlan(e, q)
      PROVE  CompleteIsJournaled'
  <2>1. \A r \in Requests : plans'[r] = plans[r] \/ plans'[r].status = "pending"
    BY <1>1, <1>3 DEF MakePlan, TypeOK
  <2>2. QED
    BY <1>2, <1>3, <2>1 DEF MakePlan, site, history
<1>4. ASSUME NEW t \in Threads, NEW e \in Employees, NEW q \in Requests, Apply(t, e, q)
      PROVE  CompleteIsJournaled'
  <2>1. plans[q] \in Plan
    BY <1>1, <1>4 DEF Apply, TypeOK
  <2>2. \A r \in Requests : plans'[r] = plans[r] \/ plans'[r].status = "applying"
    BY <1>1, <1>4, <2>1 DEF Apply, TypeOK, Plan
  <2>3. QED
    BY <1>2, <1>4, <2>2 DEF Apply, site
<1>5. ASSUME NEW t \in Threads, FinishApply(t)
      PROVE  CompleteIsJournaled'
  <2> DEFINE p == thread[t].process
             q == thread[t].request
  <2>1. /\ p \in Processes /\ process[p] \in Command
        /\ process[p].request = q
        /\ Entry(p) = [revision |-> plans[q].revision, employee |-> plans[q].employee]
        /\ process[p].pc = "exit"
        /\ plans[q] \in Plan /\ q \in Requests
        /\ UNCHANGED <<journal, crashes>>
    BY <1>1, <1>5, Serves DEF FinishApply, GateInv, RunnerOK, Entry, site, history
  <2>2. /\ \A r \in Requests \ {q} : plans'[r] = plans[r]
        /\ plans'[q] = [plans[q] EXCEPT !.status = IF process[p].ok THEN "complete" ELSE "pending"]
    BY <1>1, <1>5, <2>1 DEF FinishApply, TypeOK
  <2>3. CASE process[p].ok /\ crashes = 0
    <3>1. journal[q] = Entry(p)
      BY <1>1, <2>1, <2>3 DEF JournalInv, AloneOK
    <3>2. /\ plans'[q].revision = plans[q].revision
          /\ plans'[q].employee = plans[q].employee
      BY <2>1, <2>2 DEF Plan
    <3>3. QED
      BY <1>1, <2>1, <2>2, <3>1, <3>2 DEF CompleteIsJournaled
  <2>4. CASE ~process[p].ok
    <3>1. plans'[q].status = "pending"
      BY <2>1, <2>2, <2>4 DEF Plan
    <3>2. QED
      BY <1>2, <2>1, <2>2, <3>1
  <2>5. CASE crashes > 0
    BY <2>1, <2>5 DEF CompleteIsJournaled
  <2>6. QED
    BY <1>1, <2>3, <2>4, <2>5 DEF TypeOK
<1>6. CASE Crash
  BY <1>2, <1>6, SyncAssumption DEF Crash, CompleteIsJournaled, TypeOK, IInv
<1>7. ASSUME NEW p \in Processes, CommandStep(p) \/ Fault(p)
      PROVE  CompleteIsJournaled'
  <2>1. /\ process[p] \in Command
        /\ UNCHANGED <<plans, crashes>>
    BY <1>1, <1>7, CommandShape DEF gate
  <2>2. CASE UNCHANGED journal
    BY <1>2, <2>1, <2>2
  <2>3. CASE crashes > 0 \/ journal' = Torn
    BY <2>1, <2>3 DEF CompleteIsJournaled
  <2>4. CASE /\ crashes = 0
             /\ process[p].pc = "write"
             /\ journal' = [process[p].seen EXCEPT ![process[p].request] = Entry(p)]
    <3>1. process[p].seen = journal /\ journal # Torn
      BY <1>1, <2>1, <2>4 DEF JournalInv, AloneOK
    <3>2. \A q \in Requests : q # process[p].request => journal'[q] = journal[q]
      BY <1>1, <2>4, <3>1 DEF TypeOK
    <3>3. plans[process[p].request].status = "applying"
      <4>1. ~process[p].orphan
        BY <1>1, <2>1, <2>4 DEF GateInv, CommandOK
      <4>2. PICK t \in Threads : thread[t].pc = "run" /\ thread[t].process = p
        BY <1>1, <2>1, <4>1 DEF GateInv, CommandOK
      <4>3. process[p].request = thread[t].request
        BY <1>1, <4>2 DEF GateInv, RunnerOK
      <4>4. QED
        BY <1>1, <4>2, <4>3, Serves DEF GateInv
    <3>4. QED
      BY <1>1, <2>1, <3>1, <3>2, <3>3 DEF CompleteIsJournaled
  <2>5. QED
    BY <1>1, <1>7, <2>2, <2>3, <2>4, SiteShape DEF TypeOK
<1>8. CASE UNCHANGED <<plans, journal, crashes>>
  BY <1>2, <1>8
<1>9. QED
  BY <1>3, <1>4, <1>5, <1>6, <1>7, <1>8
     DEF Next, StartCommand, LandWrite, Publish, gate, history, vars, site

-----------------------------------------------------------------------------
(* The theorems.                                                            *)

\* The invariant holds of a workbench that has just started.
LEMMA Initial == Init => IInv
<1> SUFFICES ASSUME Init PROVE IInv
  OBVIOUS
<1>1. /\ \A q \in Requests : plans[q] = None
      /\ \A t \in Threads : thread[t] = Idle /\ thread[t].pc = "idle"
      /\ \A p \in Processes : process[p] = Idle /\ process[p] \notin Command
      /\ holder = None /\ revision \in 0..MaxRevision
  BY SyncAssumption DEF Init, Idle, Command
<1>2. target \in [Records -> {Absent, Foreign, Unmanaged, 0}] /\ late = {}
  BY SyncAssumption DEF Init
<1>3. TypeOK
  <2>1. target \in [Records -> Content]
    BY <1>2, SyncAssumption DEF Content
  <2>2. revision \in 0..MaxRevision /\ faults \in 0..MaxFaults /\ crashes \in 0..MaxCrashes
    BY SyncAssumption DEF Init
  <2>3. late \subseteq Write /\ strayed \in BOOLEAN
    BY DEF Init
  <2>4. QED
    BY <2>1, <2>2, <2>3 DEF Init, TypeOK
<1>4. ApplyingIsServed /\ RunnerOK /\ ServedOK /\ CommandOK
  BY <1>1, NoneAssumption DEF ApplyingIsServed, RunnerOK, ServedOK, CommandOK
<1>5. RevisionOK /\ LateOK
  BY <1>1, <1>2, SyncAssumption DEF RevisionOK, LateOK, Absent, Foreign, Unmanaged
<1>6. LeftInv /\ JournalInv /\ CompleteIsJournaled
  BY <1>1 DEF LeftInv, JournalInv, CompleteIsJournaled
<1>7. QED
  BY <1>3, <1>4, <1>5, <1>6 DEF IInv, GateInv

\* It holds always.
LEMMA Inductive == Spec => []IInv
<1>1. IInv /\ [Next]_vars => IInv'
  BY TypeStep, GateStep, LateStep, LeftStep, JournalStep, CompleteStep DEF IInv
<1>2. QED
  BY Initial, <1>1, PTL DEF Spec

\* Every variable of the gate, the command and the Site keeps its type: a step
\* never looks up a plan or a process that is not there.
THEOREM TypeCorrect == Spec => []TypeOK
<1>1. IInv => TypeOK
  BY DEF IInv
<1>2. QED
  BY Inductive, <1>1, PTL

\* _TARGET_APPLY_LOCK does its work: while the workbench lives, no two of its
\* confirmations run the command at once.
THEOREM OneAtATime == Spec => []GateSerialises
<1>1. IInv => GateSerialises
  <2> SUFFICES ASSUME IInv, NEW p \in Processes, NEW o \in Processes,
                      Running(p), Running(o), ~process[p].orphan, ~process[o].orphan
               PROVE  p = o
    BY DEF GateSerialises
  <2>1. process[p] \in Command /\ process[o] \in Command
    BY Kinds DEF IInv, Running
  <2>2. /\ \E t \in Threads : thread[t].pc = "run" /\ thread[t].process = p
        /\ \E t \in Threads : thread[t].pc = "run" /\ thread[t].process = o
    BY <2>1 DEF IInv, GateInv, CommandOK
  <2>3. \A t, u \in Threads : thread[t].pc = "run" /\ thread[u].pc = "run" => t = u
    BY DEF IInv, GateInv, ApplyingIsServed
  <2>4. QED
    BY <2>2, <2>3
<1>2. QED
  BY Inductive, <1>1, PTL

\* The finally of apply: no failure, kill or crash leaves a plan in "applying" or
\* the lock held without a thread that will release it.
THEOREM NothingLeftBehind == Spec => []ApplyingIsServed
<1>1. IInv => ApplyingIsServed
  BY DEF IInv, GateInv
<1>2. QED
  BY Inductive, <1>1, PTL

\* An employee who is told that a release is applied finds it in the journal,
\* under the employee's own name.
THEOREM CompleteMeansJournaled == Spec => []CompleteIsJournaled
<1>1. IInv => CompleteIsJournaled
  BY DEF IInv
<1>2. QED
  BY Inductive, <1>1, PTL

\* The Site is changed to confirmed releases only, and a record of another origin
\* is never overwritten, whichever step of the command finds it.
THEOREM OnlyConfirmedWrites == Spec => WrittenAsConfirmed
<1>1. IInv /\ [Next]_vars =>
         \A r \in Records : target'[r] # target[r] =>
             target'[r] \in confirmed /\ target[r] \notin {Foreign, Unmanaged}
  <2> SUFFICES ASSUME IInv, [Next]_vars, NEW r \in Records, target'[r] # target[r]
               PROVE  target'[r] \in confirmed /\ target[r] \notin {Foreign, Unmanaged}
    OBVIOUS
  <2>1. CASE \E p \in Processes : CommandStep(p) \/ Fault(p)
    <3>1. PICK p \in Processes : CommandStep(p) \/ Fault(p)
      BY <2>1
    <3>2. target'[r] = process[p].hash /\ target[r] \notin {Foreign, Unmanaged}
      BY <3>1, SiteShape DEF IInv
    <3>3. process[p] \in Command
      BY <3>1, CommandShape DEF IInv
    <3>4. process[p].hash \in confirmed
      BY <3>3 DEF IInv, GateInv, CommandOK
    <3>5. QED
      BY <3>2, <3>4
  <2>2. ASSUME NEW m \in late, LandWrite(m)
        PROVE  target'[r] \in confirmed /\ target[r] \notin {Foreign, Unmanaged}
    <3>1. m.record = r /\ target'[r] = m.revision
      BY <2>2, Landed DEF IInv
    <3>2. QED
      BY <3>1 DEF IInv, LateOK
  <2>3. QED
    BY <2>1, <2>2, SiteWriters DEF site
<1>2. QED
  BY Inductive, <1>1, PTL DEF Spec, WrittenAsConfirmed

\* Publications and confirmations in any order never bring back an older item, as
\* long as the workbench has not died with a command running: no step of a command
\* does, however many writes that were given up have come late before.
THEOREM NeverOlder == Spec => NoOlderItem
<1>1. IInv /\ [Next]_vars =>
         \A i \in Items : crashes = 0 /\ late \subseteq late' /\ target[i] >= 0 =>
             target'[i] >= target[i]
  <2> SUFFICES ASSUME IInv, [Next]_vars, NEW i \in Items, crashes = 0, late \subseteq late'
               PROVE  target'[i] >= target[i]
    OBVIOUS
  <2>1. i \in Records /\ target[i] \in Int
    BY DEF Items, IInv, TypeOK, Content, Absent, Foreign, Unmanaged
  <2>2. CASE target'[i] = target[i]
    BY <2>1, <2>2
  <2>3. CASE target'[i] # target[i]
    <3>1. PICK p \in Processes : CommandStep(p) \/ Fault(p)
      BY <2>3, SiteWriters DEF site, LandWrite
    <3>2. process[p].pc = "records" /\ target'[i] = process[p].hash
      BY <2>1, <2>3, <3>1, SiteShape DEF IInv
    <3>3. process[p] \in Command
      BY <3>1, CommandShape DEF IInv
    <3>4. process[p].hash \in Int
      BY <3>3 DEF Command
    <3>5. target[i] <= process[p].hash
      BY <2>1, <3>2, <3>3 DEF IInv, JournalInv, AloneOK
    <3>6. QED
      BY <2>1, <3>2, <3>4, <3>5
  <2>4. QED
    BY <2>2, <2>3
<1>2. QED
  BY Inductive, <1>1, PTL DEF Spec, NoOlderItem

\* The journal never claims a release that is not on the Site, and never answers
\* a request a second time with another one, unless a write that was given up came
\* between a verification and its entry.
THEOREM JournalIsTrue == Spec => JournaledIsApplied
<1> DEFINE A == \A q \in Requests :
          (crashes = 0 /\ ~strayed /\ journal # Torn /\ journal' # Torn /\ journal[q] # journal'[q]) =>
              /\ journal[q] = None
              /\ Unchanged(journal'[q].revision) = Catalog[journal'[q].revision]
              /\ Extra(journal'[q].revision) = {}
<1>1. IInv /\ [Next]_vars => A
  <2> SUFFICES ASSUME IInv, [Next]_vars, NEW q \in Requests, crashes = 0, ~strayed,
                      journal # Torn, journal' # Torn, journal[q] # journal'[q]
               PROVE  /\ journal[q] = None
                      /\ Unchanged(journal'[q].revision) = Catalog[journal'[q].revision]
                      /\ Extra(journal'[q].revision) = {}
    OBVIOUS
  <2>1. PICK p \in Processes : CommandStep(p) \/ Fault(p)
    BY SiteWriters DEF site, LandWrite
  <2>2. /\ process[p].pc = "write"
        /\ journal' = [process[p].seen EXCEPT ![process[p].request] = Entry(p)]
    BY <2>1, SiteShape DEF IInv
  <2>3. process[p] \in Command
    BY <2>1, CommandShape DEF IInv
  <2>4. /\ process[p].seen = journal
        /\ journal[process[p].request] = None
        /\ Unchanged(process[p].hash) = Catalog[process[p].hash]
        /\ Extra(process[p].hash) = {}
    BY <2>2, <2>3 DEF IInv, JournalInv, AloneOK
  <2>5. journal \in [Requests -> Done \cup {None}]
    BY DEF IInv, TypeOK
  <2>6. q = process[p].request /\ journal'[q] = Entry(p)
    BY <2>2, <2>4, <2>5
  <2>7. journal'[q].revision = process[p].hash
    BY <2>6 DEF Entry
  <2>8. QED
    BY <2>4, <2>6, <2>7
<1>2. QED
  BY Inductive, <1>1, PTL DEF Spec, JournaledIsApplied

-----------------------------------------------------------------------------
(* Refinement of ReleasedSite.                                              *)

\* As long as the workbench lives, the release of a command is the one release that
\* is being brought, as its employee was shown it.
LEMMA AtWork ==
    ASSUME IInv, crashes = 0, NEW p \in Processes, process[p] \in Command
    PROVE  /\ process[p].request \in Requests
           /\ Work = {process[p].request}
           /\ Shown[process[p].request] = Entry(p)
           /\ process[p].hash \in 0..MaxRevision
<1>1. PICK t \in Threads : thread[t].pc = "run" /\ thread[t].process = p
  BY DEF IInv, GateInv, CommandOK
<1>2. /\ process[p].request = thread[t].request
      /\ process[p].hash = plans[thread[t].request].revision
      /\ process[p].employee = plans[thread[t].request].employee
  BY <1>1 DEF IInv, GateInv, RunnerOK
<1>3. thread[t].request \in Requests /\ plans[thread[t].request] # None
  BY <1>1, Serves, NoneAssumption DEF IInv, GateInv
<1>4. \A u \in Threads : thread[u].pc = "run" => u = t
  BY <1>1 DEF IInv, GateInv, ApplyingIsServed
<1>5. QED
  BY <1>1, <1>2, <1>3, <1>4 DEF Work, Shown, Entry, Command

\* What the gate does not change shows the same.
LEMMA SameGate ==
    ASSUME UNCHANGED <<plans, thread>>
    PROVE  UNCHANGED <<Shown, State, Work>>
BY DEF Shown, State, Work

\* A new plan is shown.
LEMMA PromiseShow ==
    ASSUME IInv, NEW e \in Employees, NEW q \in Requests, MakePlan(e, q)
    PROVE  \E s \in Done : Promise!Show(q, s)
<1> DEFINE s == [revision |-> revision, employee |-> e]
<1>1. s \in Done
  BY DEF Done, IInv, TypeOK
<1>2. /\ plans[q] = None
      /\ plans' = [plans EXCEPT ![q] = [revision |-> revision, employee |-> e,
              conflict |-> Conflicts(revision) # {}, status |-> "pending"]]
      /\ UNCHANGED <<thread, target, late, strayed, journal, confirmed, crashes>>
  BY DEF MakePlan, site, history
<1>3. /\ plans'[q].revision = revision /\ plans'[q].employee = e
      /\ plans'[q].status = "pending" /\ plans'[q] \in Plan
      /\ \A r \in Requests \ {q} : plans'[r] = plans[r]
  BY <1>2 DEF IInv, TypeOK, Plan
<1>4. Shown' = [Shown EXCEPT ![q] = s]
  BY <1>3, NoneAssumption DEF Shown
<1>5. State[q] = "none" /\ State' = [State EXCEPT ![q] = "open"]
  BY <1>2, <1>3, NoneAssumption DEF State
<1>6. Work' = Work
  BY <1>2 DEF Work
<1>7. QED
  BY <1>1, <1>2, <1>4, <1>5, <1>6 DEF Promise!Show

\* A confirmation asks for what the plan shows.
LEMMA PromiseAsk ==
    ASSUME IInv, NEW t \in Threads, NEW e \in Employees, NEW q \in Requests, Apply(t, e, q)
    PROVE  Promise!Ask(q)
<1>1. /\ plans[q] \in Plan /\ plans[q] # None /\ plans[q].status = "pending"
      /\ plans' = [plans EXCEPT ![q].status = "applying"]
      /\ thread[t] = Idle
      /\ confirmed' = confirmed \cup {plans[q].revision}
      /\ UNCHANGED <<target, late, strayed, journal, crashes>>
  BY DEF Apply, IInv, TypeOK, site
<1>2. /\ plans'[q].revision = plans[q].revision /\ plans'[q].employee = plans[q].employee
      /\ plans'[q].status = "applying" /\ plans'[q] \in Plan
      /\ \A r \in Requests \ {q} : plans'[r] = plans[r]
  BY <1>1 DEF IInv, TypeOK, Plan
<1>3. Shown' = Shown /\ Shown[q].revision = plans[q].revision
  BY <1>1, <1>2, NoneAssumption DEF Shown
<1>4. State[q] = "open" /\ State' = [State EXCEPT ![q] = "asked"]
  BY <1>1, <1>2, NoneAssumption DEF State
<1>5. /\ \A u \in Threads \ {t} : thread'[u] = thread[u]
      /\ thread[t].pc # "run" /\ thread'[t].pc # "run"
  BY <1>1 DEF Apply, IInv, TypeOK, Idle
<1>6. Work' = Work
  BY <1>5 DEF Work
<1>7. QED
  BY <1>1, <1>3, <1>4, <1>6 DEF Promise!Ask

\* The lock is what keeps releases apart.
LEMMA PromiseBegin ==
    ASSUME IInv, NEW t \in Threads, NEW p \in Processes, StartCommand(t, p)
    PROVE  thread[t].request \in Requests /\ Promise!Begin(thread[t].request)
<1> DEFINE q == thread[t].request
<1>1. /\ thread[t] \in Serving /\ q \in Requests
      /\ plans[q] \in Plan /\ plans[q].status = "applying"
      /\ UNCHANGED <<plans, target, late, strayed, journal, confirmed, crashes>>
  BY Serves DEF StartCommand, IInv, GateInv, site, history
<1>2. \A u \in Threads : thread[u].pc # "run"
  BY NoneAssumption DEF StartCommand, IInv, GateInv, ApplyingIsServed
<1>3. /\ \A u \in Threads \ {t} : thread'[u] = thread[u]
      /\ thread'[t].pc = "run" /\ thread'[t].request = q
  BY <1>1 DEF StartCommand, IInv, TypeOK, Serving
<1>4. Work = {} /\ Work' = {q}
  BY <1>2, <1>3 DEF Work
<1>5. State[q] = "asked"
  BY <1>1, NoneAssumption DEF State
<1>6. UNCHANGED <<Shown, State>>
  BY <1>1 DEF Shown, State
<1>7. QED
  BY <1>1, <1>4, <1>5, <1>6 DEF Promise!Begin

\* A command that ended well has put its release into the journal.
LEMMA PromiseFinish ==
    ASSUME IInv, crashes = 0, NEW t \in Threads, FinishApply(t)
    PROVE  /\ thread[t].request \in Requests
           /\ \/ Promise!Succeed(thread[t].request)
              \/ Promise!GiveUp(thread[t].request)
<1> DEFINE q == thread[t].request
           p == thread[t].process
           st == IF process[p].ok THEN "complete" ELSE "pending"
<1>1. /\ thread[t].pc = "run" /\ process[p].pc = "exit"
      /\ plans' = [plans EXCEPT ![q].status = st]
      /\ thread' = [thread EXCEPT ![t] = Idle]
      /\ UNCHANGED <<target, late, strayed, journal, confirmed, crashes>>
  BY DEF FinishApply, site, history
<1>2. /\ p \in Processes /\ process[p] \in Command /\ process[p].request = q
  BY <1>1 DEF IInv, GateInv, RunnerOK
<1>3. q \in Requests /\ plans[q] \in Plan /\ plans[q].status = "applying"
  BY <1>1, Serves DEF IInv, GateInv
<1>4. Work = {q} /\ Shown[q] = Entry(p)
  BY <1>2, AtWork
<1>5. Work' = {}
  <2>1. \A u \in Threads : thread[u].pc = "run" => u = t
    BY <1>1 DEF IInv, GateInv, ApplyingIsServed
  <2>2. \A u \in Threads : thread'[u].pc # "run"
    BY <1>1, <2>1 DEF IInv, TypeOK, Idle
  <2>3. QED
    BY <2>2 DEF Work
<1>6. /\ plans'[q].revision = plans[q].revision /\ plans'[q].employee = plans[q].employee
      /\ plans'[q].status = st /\ plans'[q] \in Plan
      /\ \A r \in Requests \ {q} : plans'[r] = plans[r]
  BY <1>1, <1>3 DEF IInv, TypeOK, Plan
<1>7. Shown' = Shown
  BY <1>3, <1>6, NoneAssumption DEF Shown
<1>8. State' = [State EXCEPT ![q] = IF process[p].ok THEN "done" ELSE "open"]
  BY <1>3, <1>6, NoneAssumption DEF State
<1>9. CASE process[p].ok
  <2>1. journal # Torn /\ journal[q] = Entry(p)
    BY <1>1, <1>2, <1>9 DEF IInv, JournalInv, AloneOK
  <2>2. QED
    BY <1>1, <1>3, <1>4, <1>5, <1>7, <1>8, <1>9, <2>1 DEF Promise!Succeed
<1>10. CASE ~process[p].ok
  BY <1>1, <1>3, <1>4, <1>5, <1>7, <1>8, <1>10 DEF Promise!GiveUp
<1>11. QED
  BY <1>9, <1>10

\* A step of the command writes one of the records it has left, and nothing else.
LEMMA OneRecord ==
    ASSUME TypeOK, NEW p \in Processes, CommandStep(p) \/ Fault(p), target' # target
    PROVE  /\ UNCHANGED <<late, strayed, journal>>
           /\ process[p].pc = "records"
           /\ \E r \in process[p].left :
                 /\ target[r] \notin {Foreign, Unmanaged}
                 /\ target'[r] # target[r]
                 /\ target' = [target EXCEPT ![r] = process[p].hash]
<1>1. \E r \in Due(p) : /\ UNCHANGED <<late, strayed, journal>>
                        /\ process[p].pc = "records"
                        /\ \/ target' = [target EXCEPT ![r] = Written(r, process[p].hash)]
                           \/ target' = [target EXCEPT ![r] = process[p].hash]
  BY DEF CommandStep, Fault, ReadRelease, LoadJournal, CheckConflicts, ApplyRecord,
         ConflictingRecord, VerifyTarget, WriteJournal, site
<1>2. PICK r \in process[p].left :
         /\ UNCHANGED <<late, strayed, journal>>
         /\ process[p].pc = "records"
         /\ \/ target' = [target EXCEPT ![r] = Written(r, process[p].hash)]
            \/ target' = [target EXCEPT ![r] = process[p].hash]
  BY <1>1 DEF Due
<1>3. r \in Records
  BY CommandShape DEF Command
<1>4. target'[r] # target[r]
  BY <1>2, <1>3 DEF TypeOK
<1>5. target' = [target EXCEPT ![r] = process[p].hash]
  BY <1>2, <1>3, <1>4 DEF TypeOK, Written
<1>6. target[r] \notin {Foreign, Unmanaged}
  BY <1>3, <1>4, SiteShape
<1>7. QED
  BY <1>2, <1>4, <1>5, <1>6

\* What it gives up is the write of one of them.
LEMMA OneLost ==
    ASSUME TypeOK, NEW p \in Processes, CommandStep(p) \/ Fault(p), late' # late
    PROVE  /\ UNCHANGED <<target, strayed, journal>>
           /\ process[p].pc = "records"
           /\ \E r \in process[p].left :
                 /\ target[r] \notin {Foreign, Unmanaged}
                 /\ target[r] # process[p].hash
                 /\ late' = late \cup {[record |-> r, revision |-> process[p].hash,
                                       creates |-> target[r] = Absent]}
<1>1. \E r \in Due(p) : /\ UNCHANGED <<target, strayed, journal>>
                        /\ process[p].pc = "records"
                        /\ ~Conflicting(r)
                        /\ Written(r, process[p].hash) # target[r]
                        /\ late' = late \cup {[record |-> r, revision |-> process[p].hash,
                                              creates |-> target[r] = Absent]}
  BY DEF CommandStep, Fault, ReadRelease, LoadJournal, CheckConflicts, ApplyRecord,
         ConflictingRecord, VerifyTarget, WriteJournal, site
<1>2. PICK r \in process[p].left :
         /\ UNCHANGED <<target, strayed, journal>>
         /\ process[p].pc = "records"
         /\ ~Conflicting(r)
         /\ Written(r, process[p].hash) # target[r]
         /\ late' = late \cup {[record |-> r, revision |-> process[p].hash,
                               creates |-> target[r] = Absent]}
  BY <1>1 DEF Due
<1>3. r \in Records
  BY CommandShape DEF Command
<1>4. target[r] \notin {Foreign, Unmanaged} /\ target[r] # process[p].hash
  BY <1>2, <1>3, SyncAssumption DEF Written, Conflicting, Items, Absent, Foreign, Unmanaged
<1>5. QED
  BY <1>2, <1>4

\* The command brings its release, record by record, and then sees it there.
LEMMA PromiseCommand ==
    ASSUME IInv, crashes = 0, ~strayed, NEW p \in Processes, CommandStep(p) \/ Fault(p)
    PROVE  [Promise!Attended]_(Promise!vars)
<1> DEFINE q == process[p].request
<1>1. /\ process[p] \in Command
      /\ UNCHANGED <<plans, thread, confirmed, crashes>>
  BY CommandShape DEF IInv, gate
<1>2. /\ q \in Requests /\ Work = {q} /\ Shown[q] = Entry(p)
      /\ process[p].hash \in 0..MaxRevision
  BY <1>1, AtWork
<1>3. UNCHANGED <<Shown, State, Work>>
  BY <1>1, SameGate
<1>4. AloneOK(p) /\ process[p].left \subseteq Release(process[p].hash)
  BY <1>1 DEF IInv, JournalInv, LeftInv
<1>5. Shown[q].revision = process[p].hash
  BY <1>2 DEF Entry
<1>6. CASE target' # target
  <2>1. PICK r \in process[p].left :
           /\ UNCHANGED <<late, strayed, journal>>
           /\ process[p].pc = "records"
           /\ target[r] \notin {Foreign, Unmanaged}
           /\ target'[r] # target[r]
           /\ target' = [target EXCEPT ![r] = process[p].hash]
    BY <1>6, OneRecord DEF IInv
  <2>2. r \in Records /\ r \in Support \cup Catalog[process[p].hash]
    BY <1>1, <1>4 DEF Command, Release
  <2>3. target[r] <= process[p].hash /\ target[r] # process[p].hash
    BY <1>4, <2>1, <2>2 DEF AloneOK, IInv, TypeOK
  <2>4. target[r] \in Int
    BY <2>2 DEF IInv, TypeOK, Content, Absent, Foreign, Unmanaged
  <2>5. target[r] < process[p].hash
    BY <1>2, <2>3, <2>4
  <2>6. Promise!Bring(q, r)
    BY <1>1, <1>2, <1>3, <1>5, <2>1, <2>2, <2>5 DEF Promise!Bring
  <2>7. QED
    BY <1>2, <2>2, <2>6 DEF Promise!Attended
<1>7. CASE target' = target /\ journal' # journal
  <2>1. /\ process[p].pc = "write"
        /\ \/ journal' = Torn
           \/ journal' = [process[p].seen EXCEPT ![q] = Entry(p)]
        /\ UNCHANGED <<late, strayed>>
    BY <1>7, SiteShape, OneLost DEF IInv
  <2>2. CASE journal' = Torn
    <3>1. Promise!Forget
      BY <1>1, <1>2, <1>3, <1>7, <2>1, <2>2 DEF Promise!Forget
    <3>2. QED
      BY <3>1 DEF Promise!Attended
  <2>3. CASE journal' = [process[p].seen EXCEPT ![q] = Entry(p)]
    <3>1. /\ journal # Torn /\ process[p].seen = journal /\ journal[q] = None
          /\ Unchanged(process[p].hash) = Catalog[process[p].hash]
          /\ Extra(process[p].hash) = {}
      BY <1>4, <2>1 DEF AloneOK
    <3>2. Promise!Holds(process[p].hash)
      <4>1. \A i \in Catalog[process[p].hash] : target[i] = process[p].hash
        BY <3>1 DEF Unchanged
      <4>2. \A i \in Items \ Catalog[process[p].hash] :
               target[i] \in {Absent, Unmanaged}
        BY <3>1 DEF Extra, Items, IInv, TypeOK, Content
      <4>3. QED
        BY <4>1, <4>2 DEF Promise!Holds
    <3>3. Promise!Hold(q)
      BY <1>1, <1>2, <1>3, <1>5, <1>7, <2>1, <2>3, <3>1, <3>2 DEF Promise!Hold
    <3>4. QED
      BY <1>2, <3>3 DEF Promise!Attended
  <2>4. QED
    BY <2>1, <2>2, <2>3
<1>8. CASE target' = target /\ journal' = journal /\ late' = late
  BY <1>1, <1>3, <1>8, SiteShape DEF Promise!vars, IInv
<1>9. CASE late' # late
  <2>1. PICK r \in process[p].left :
           /\ UNCHANGED <<target, strayed, journal>>
           /\ process[p].pc = "records"
           /\ target[r] \notin {Foreign, Unmanaged}
           /\ target[r] # process[p].hash
           /\ late' = late \cup {[record |-> r, revision |-> process[p].hash,
                                 creates |-> target[r] = Absent]}
    BY <1>9, OneLost DEF IInv
  <2>2. r \in Records /\ r \in Support \cup Catalog[process[p].hash]
    BY <1>1, <1>4 DEF Command, Release
  <2>3. target[r] <= process[p].hash /\ target[r] \in Int
    BY <1>4, <2>1, <2>2 DEF AloneOK, IInv, TypeOK, Content, Absent, Foreign, Unmanaged
  <2>4. target[r] < process[p].hash
    BY <1>2, <2>1, <2>3
  <2>5. Promise!Lose(q, r)
    BY <1>1, <1>2, <1>3, <1>5, <2>1, <2>2, <2>4 DEF Promise!Lose
  <2>6. QED
    BY <1>2, <2>2, <2>5 DEF Promise!Attended
<1>10. QED
  BY <1>6, <1>7, <1>8, <1>9

\* Once the workbench has died or a write has come behind a verification, whoever
\* writes the Site writes confirmed releases.
LEMMA PromiseUnattended ==
    ASSUME IInv, [Next]_vars, crashes' # 0 \/ strayed'
    PROVE  Promise!Unattended \/ UNCHANGED vars
<1>1. CASE \E p \in Processes : CommandStep(p) \/ Fault(p)
  <2>1. PICK p \in Processes : CommandStep(p) \/ Fault(p)
    BY <1>1
  <2>2. process[p] \in Command /\ confirmed' = confirmed
    BY <2>1, CommandShape DEF IInv
  <2>3. process[p].hash \in confirmed
    BY <2>2 DEF IInv, GateInv, CommandOK
  <2>4. \A r \in Records : target'[r] # target[r] =>
           target'[r] \in confirmed /\ target[r] \notin {Foreign, Unmanaged}
    BY <2>1, <2>3, SiteShape DEF IInv
  <2>5. QED
    BY <2>2, <2>4 DEF Promise!Unattended
<1>2. ASSUME NEW m \in late, LandWrite(m)
      PROVE  Promise!Unattended
  <2>1. /\ target'[m.record] = m.revision
        /\ \A r \in Records \ {m.record} : target'[r] = target[r]
        /\ confirmed' = confirmed
    BY <1>2, Landed DEF IInv
  <2>2. m.revision \in confirmed /\ target[m.record] \notin {Foreign, Unmanaged}
    BY DEF IInv, LateOK
  <2>3. \A r \in Records : target'[r] # target[r] =>
           target'[r] \in confirmed /\ target[r] \notin {Foreign, Unmanaged}
    BY <2>1, <2>2
  <2>4. QED
    BY <2>1, <2>3 DEF Promise!Unattended
<1>3. CASE /\ ~\E p \in Processes : CommandStep(p) \/ Fault(p)
           /\ ~\E m \in late : LandWrite(m)
  <2>1. target' = target
    BY <1>3, SiteWriters DEF site
  <2>2. confirmed \subseteq confirmed'
    BY <1>3 DEF Next, MakePlan, Apply, StartCommand, FinishApply, Crash, Publish, vars,
                history
  <2>3. QED
    BY <2>1, <2>2 DEF Promise!Unattended
<1>4. QED
  BY <1>1, <1>2, <1>3

\* Every step of the system is a step of the promise, or none of its business.
LEMMA PromiseStep ==
    ASSUME IInv, [Next]_vars
    PROVE  [Promise!Next]_(Promise!vars)
<1>1. CASE crashes' # 0 \/ strayed'
  <2>1. CASE Promise!Unattended
    BY <2>1 DEF Promise!Next
  <2>2. CASE UNCHANGED vars
    BY <2>2, SameGate DEF vars, Promise!vars
  <2>3. QED
    BY <1>1, <2>1, <2>2, PromiseUnattended
<1>2. CASE crashes' = 0 /\ ~strayed'
  <2> USE <1>2
  <2>1. crashes = 0 /\ ~strayed
    <3>1. CASE \E p \in Processes : CommandStep(p) \/ Fault(p)
      BY <3>1, CommandShape, SiteShape DEF IInv
    <3>2. CASE Crash
      BY <3>2 DEF Crash, IInv, TypeOK
    <3>3. CASE \E m \in late : LandWrite(m)
      BY <3>3 DEF LandWrite, history
    <3>4. CASE /\ ~Crash /\ ~\E m \in late : LandWrite(m)
               /\ ~\E p \in Processes : CommandStep(p) \/ Fault(p)
      <4>1. UNCHANGED site
        BY <3>4, SiteWriters
      <4>2. crashes' = crashes
        BY <3>4 DEF Next, MakePlan, Apply, StartCommand, FinishApply, Publish, vars, history
      <4>3. QED
        BY <4>1, <4>2 DEF site
    <3>5. QED
      BY <3>1, <3>2, <3>3, <3>4
  <2>2. CASE \E p \in Processes : CommandStep(p) \/ Fault(p)
    BY <2>1, <2>2, PromiseCommand DEF Promise!Next
  <2>3. ASSUME NEW e \in Employees, NEW q \in Requests, MakePlan(e, q)
        PROVE  Promise!Next
    BY <2>1, <2>3, PromiseShow DEF Promise!Next, Promise!Attended
  <2>4. ASSUME NEW t \in Threads, NEW e \in Employees, NEW q \in Requests, Apply(t, e, q)
        PROVE  Promise!Next
    BY <2>1, <2>4, PromiseAsk DEF Promise!Next, Promise!Attended
  <2>5. ASSUME NEW t \in Threads, NEW p \in Processes, StartCommand(t, p)
        PROVE  Promise!Next
    BY <2>1, <2>5, PromiseBegin DEF Promise!Next, Promise!Attended
  <2>6. ASSUME NEW t \in Threads, FinishApply(t)
        PROVE  Promise!Next
    BY <2>1, <2>6, PromiseFinish DEF Promise!Next, Promise!Attended
  <2>7. ASSUME NEW m \in late, LandWrite(m)
        PROVE  Promise!Next
    <3>1. /\ UNCHANGED <<Shown, State, Work>>
          /\ UNCHANGED <<journal, confirmed, crashes>>
      BY <2>7, SameGate DEF LandWrite, gate, history
    <3>2. Promise!Arrive(m)
      BY <2>1, <2>7, <3>1 DEF LandWrite, Promise!Arrive
    <3>3. QED
      BY <2>1, <3>2 DEF Promise!Next, Promise!Attended
  <2>8. CASE Publish \/ UNCHANGED vars
    BY <2>8, SameGate DEF Publish, gate, site, history, vars, Promise!vars
  <2>9. ~Crash
    BY <2>1 DEF Crash, IInv, TypeOK
  <2>10. QED
    BY <2>2, <2>3, <2>4, <2>5, <2>6, <2>7, <2>8, <2>9 DEF Next
<1>3. QED
  BY <1>1, <1>2

\* The gate, the command it runs and the Site keep the promise: until the workbench
\* dies or a late write comes behind a verification, one release at a time is brought
\* to the Site, the one its employee was shown and asked for, and none is called done
\* before the Site was seen to hold it; a write that was given up may still come.
THEOREM Refinement == Spec => ReleasesAsPromised
<1>1. Init => Promise!Init
  <2> SUFFICES ASSUME Init PROVE Promise!Init
    OBVIOUS
  <2>1. /\ Shown = [q \in Requests |-> None]
        /\ State = [q \in Requests |-> "none"]
    BY DEF Init, Shown, State
  <2>2. Work = {}
    BY DEF Init, Work, Idle
  <2>3. QED
    BY <2>1, <2>2 DEF Init, Promise!Init
<1>2. QED
  BY Inductive, <1>1, PromiseStep, PTL DEF Spec, ReleasesAsPromised, Promise!Spec
=============================================================================
