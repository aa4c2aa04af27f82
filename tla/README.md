# Verification of Nexterp Agent

Nexterp Agent puts an assistant and a web workbench in front of ERPNext. Whatever an employee or a
language model wants to change goes through one idea: the change is *prepared*, *shown*,
*confirmed* and then *executed exactly as shown*. This directory models the places where the
program implements that idea, and the shared files, caches and background work around them; it
checks the models with TLC and proves the main results with TLAPS for every value of the
constants.

Paths below are relative to the repository; `P/` stands for `src/nexterp_agent/`.

## 1. The system

| Component | State it keeps | Operations | Modelled by |
|---|---|---|---|
| **Capability API** (`P/capability_service`) | PostgreSQL: prepared operations, identities, catalog revisions, manual pages | `prepare`, `execute`, search, guides; one thread per HTTP request | `PreparedOperation` |
| **Tool gateway, policy, ERPNext client** (`P/agent_runtime/tool_gateway.py`, `P/erpnext`) | none | policy and identity checks, one REST call with a 90 s timeout | `PreparedOperation` |
| **Business portal** (`P/workbench/business_portal.py`, `server.py`) | commands and results in memory, one session file per user and conversation | `business_preview`, `business_confirm` and the writers it calls | `BusinessPortal` |
| **Material test sync** (`P/workbench/material_test_sync.py`, `scripts/erpnext/sync_gpc_materials_to_test_site.py`) | plans and a process-wide lock in memory; journal file; the test Site | `plan`, `apply`; the command `apply` as a child process | `MaterialSync` |
| **Agent runs and confirm proxy** (`P/workbench/server.py`, `openclaw_runtime.py`, `tools/workbench/workbench.js`) | runs in memory (100), session file with the pending action, the page | start, run, poll, confirm (95 s timeout), reset | `AgentRun` |
| **In-process agent runtime** (`P/agent_runtime/deepseek_agent_runtime.py`, `session.py`) | one session file per employee | `run_once`: plan, offer, execute | `RuntimeTurn` |
| **Material intake** (`P/workbench/server.py`, `P/item_master/intake_drafts.py`, `runtime_publications.py`) | intake batches in memory, results in the session file, runtime publications | prepare, revise, confirm, publish | `MaterialIntake` |
| **Batch review** (`P/item_master/procurement_batch_review.py`) | reviews and release of a job, two files and their temporary files | save, freeze, status | `BatchReview` |
| **Reference catalog** (`P/item_master/reference_catalog*.py`, `procurement_batch_publication.py`, the material scripts) | SQLite with a revision and triggers, files beside it, an index cached per revision, a page that polls | publish, import, normalise, maintain, poll, build a release | `CatalogRevision` |
| **Tariff jobs** (`P/item_master/tariff_*.py`) | jobs in memory, a directory per job | start, cancel, run, resolve the newest tree | `TariffJobs` |
| Manual search, tool modules, agent bridge, OpenClaw plugin, batch pilot, batch scripts | little or none | listed with reasons in PROJECT.json | - |

**How they interact.** Browsers and the OpenClaw plugin call HTTP handlers, which are threads of a
`ThreadingHTTPServer`; handlers of one process share memory (the command store, the gate, the run
registry, the intake batches, the index cache), handlers of different processes share PostgreSQL,
SQLite, session files, job files, the journal and, above all, ERPNext, which no lock of this
program covers. ERPNext is reached by REST calls whose answer may be late or lost after the write
was applied. The sync command is a child process that outlives its parent; a turn goes on inside
OpenClaw after the workbench restarts.

**What is hard.** Two confirmations of one thing at once; a write whose answer is lost; a crash
between a write and the record of it; something read before a wait and used after it (identity,
clock, session file, catalog revision, item codes); a file rewritten in place or through a
temporary file two threads share; an identifier chosen by the caller and used twice; a lock that
lives in the process while the work does not. The hazards of PROJECT.json give each of these at
its line, with the properties that catch it.

**What makes each component correct.**

* Capability API: a row is written to ERPNext at most once, only after its owner claimed it in
  time, only as it was frozen; "completed" is true; every claim is settled.
* Business portal: what is remembered or answered is a real document of that request; what is
  settled or answered is not written again, restarts included.
* Material test sync: one command at a time; the Site receives only confirmed releases, no command
  brings an item back, and records of another origin are left alone; the journal is true; no
  failure leaves the lock or a plan behind.
* Agent runs: the record of a working run is never dropped, its outcome is saved before it is
  shown and never overwritten; no settled operation is offered for confirmation; every wait of a
  page ends.
* In-process runtime: an offer is executed where it was made, before it expires, and once.
* Material intake: every Item it wrote is a confirmed draft; what is published or reported as
  created is in ERPNext; one draft is never published twice.
* Batch review: no decision that was saved alone is missing from the frozen release.
* Reference catalog: a script that completes leaves files and database with the same materials,
  but for tables that SQL has changed behind its transaction; a release that is applied was a
  state of the catalog; a page shows nothing older than the revision it has seen.
* Tariff jobs: the page is never given half a tree.

## 2. Modules

| Module | What it is | Proofs |
|---|---|---|
| `ConfirmedWrite` | the promise of ADR-004 in six actions: ask, lapse, consent, write, and two answers | the target of `Refinement` |
| `PreparedOperation` | the protocol of the Capability API; instantiates `ConfirmedWrite` as `Promise` | `PreparedOperationProofs` |
| `BusinessPortal` | preview and confirm of the portal with its writers and session files | `BusinessPortalProofs` |
| `ReleasedSite` | what the sync promises an employee: show, ask, begin, bring (or lose, and arrive later), hold, and an end | the target of `Refinement` |
| `MaterialSync` | gate, child process, Site and journal; instantiates `ReleasedSite` as `Promise` | `MaterialSyncProofs` |
| `AgentRun` | run registry, session, confirm proxy, OpenClaw and the page | `AgentRunProofs` |
| `MaterialIntake` | drafts, revisions, confirmations, ERPNext, publications | `MaterialIntakeProofs` |
| `CatalogRevision` | database, scripts, cache, polling page, release | `CatalogRevisionProofs` |
| `TariffJobs` | jobs, their files and the resolver | `JobFilesProofs` |
| `RuntimeTurn` | turns of the in-process runtime over one session file | `RuntimeTurnProofs` |
| `BatchReview` | save and freeze over two files and their temporary files | `JobFilesProofs` |
| `MC...` | instances for TLC: values of function constants, symmetry | - |

`MCMaterialIntake` runs three specifications (intake, catalog, tariff), `MCPortalWriters` the portal
in two instances and the review, and `MCConfirmations` the Capability API and the in-process
runtime: the parts share no state, so a variable `part` chooses one for each behaviour and the
variables of the others rest. `JobFilesProofs` holds the proofs of the two components that keep
files per job.

Definitions whose comment starts with "Mutation:" are defects a change could plausibly introduce
into the definition that follows; replacing that definition by its mutation breaks the property
PROJECT.json names. No behaviour of a specification uses them.

### PreparedOperation

`rows` is the table `prepared_operation`; `thread` the handlers; `requested` and `copies`
ERPNext's side: calls on their way, and how often each was applied; `shown` what answers
displayed. A ToolCall and its summary are one value of `Calls`, since one request computes both
from the same facts; a session is the triple of subject, agent and session key.

* `prepare` is two steps: `Prepare` (checks, expiry, revision) and the INSERT, which finds the key
  `(employee_user, request_id)` free (`InsertPending`) or taken (`ReusePending`).
* `execute` is `Execute` (identity and clock are read), the claiming transaction (`ClaimRefused`,
  `ClaimExpired`, `ClaimPending`), the checks, the REST call (`SendToolCall`, `ReceiveOk`,
  `ReceiveFailure`), the readback and `finish_pending`, whose UPDATE and reread are separate steps
  because a fault may fall between them. The except clause is `SalvageFailed`. A handler keeps the
  clock it read as `at`, which is what `ConsentInTime` compares with the row's expiry.
* The environment: ERPNext applies, refuses or loses a call at any time, the timeout included; the
  database fails; the process dies; the clock, the catalog and the profiles change.

### BusinessPortal

`command`, `stored` and `results` are the memory of `BusinessCommandStore`; `files` the session
files; `docs` what ERPNext wrote. `Purge` is part of every method of the store that runs it.
`RuntimeSessionStore.save` truncates a file and writes it, hence two steps; two overlapping saves
may leave a torn text. The four `Writers` differ in what they look up before writing and what they
remember after. `RecheckWriter` takes the file load and the memory lookup of a writer as one step,
and the portal is that of one account and one project. `business_confirm` marks the command only
in `CompleteCommand`, after the write: the code's order, and the cause of a finding. A full session
forgets its oldest result for a new one (`Forgotten`). `excused` is a history variable: the pairs
of user and request that `AnsweredOnce` says nothing of, because another user confirmed the same
request_id, confirmations of the user ran at once, or a full file dropped the request.

### MaterialSync

`plans`, `thread` and `holder` are the gate; `process` the child processes; `target` and `journal`
outlive everything. A record of the Site is the revision that wrote it, or `Absent`, `Foreign`
(another `source_id`) or `Unmanaged` (no `source_id`, invisible to the plan). The command writes
record by record in the order of `Rank`, can fail or be killed at each step (`Fault`), and goes on
as an `orphan` when the workbench dies. The write of a call that failed is applied, is not, or is
still on its way in `late`: the client gives up after 60 s and ERPNext does not. `LandWrite` is
ERPNext doing it at any later time, an update over whatever the record has become, a creation only
where there is still no record. `strayed` is a history variable: such a write changed the Site
while a command stood between its verification and its journal. `Start` is the revision the
catalog has when the workbench starts. `FinishApply` takes the release of the
lock and the new status of the plan as one step: nothing reads the status under the lock only. A
release is the catalog revision it was built from, its hash included. `build_material_release`
reads the catalog in three SELECTs, and `AppliedIsCommitted` of `CatalogRevision` is what makes
one value per revision right: a release that mixes two states is never confirmed by an equal
second build. Request ids are fresh, as `uuid4` makes them.

### AgentRun

One conversation. `registry` and `record` are `WorkbenchService._runs` with the order of insertion
that decides who is evicted; `run` and `answer` the background threads; `pending` the pending
action of the session file; `turn`, `transcript` and `operation` OpenClaw and the capability API;
`call` and `api` the two ends of a confirmation; `page` what a browser shows and waits for.

* A run is `SendTurn`, `LaunchOpenClaw`, `OpenClawReplied` or `RunFails`, `SaveTurn` (the session
  is loaded and saved whole) and `Report`; its progress thread is `AdvanceStage`, which may come
  late. `SaveTurn` takes the load and the save that follows it at once (`server.py:4946-4964`) as one
  step: the save sets the pending action whatever was loaded, and only the turns, which are left
  out, come from the copy. A load that fails on half a file is `RunFails`.
* A confirmation names no operation: `PostPending` takes the one the session file holds,
  `SaveConfirmed` saves the session as it was loaded before the call, without it, and
  `ConfirmFails` stands for the 95 s timeout with the API still at work. The capability API is
  `ApiClaims` to `ApiSettles`, what `PreparedOperation` shows of it.
* What OpenClaw reports is the operation prepared last in the transcript; after a restart that may
  be one a lost turn prepared. Turns, labels and messages of the session are data and left out.

### RuntimeTurn

`saved` is the session file of one employee, `offers` the bound pending actions, `turn` the calls
of `run_once` with their copy of the session, `writes` what ERPNext applied. `StartTurn` is the
load and the change of conversation or project, which drops the offer; `RefuseOffer`, `WriteOffer`
and `OfferFails` are the execute branch; `PlanOn`, `Propose`, `AskUser` and `EndTurn` the planning
loop with the choice of the language model left open; a save truncates and writes. Employee,
profile and `session_id` of a binding are the file's; `erpnext_project` goes with `project_code`;
an offer does not change, so its hash matches; what a turn answers is not modelled.

### MaterialIntake

One analysis of one standard type, so that codes share a prefix and a code is its number. `batch`
is `_material_draft_batches`; `thread` the handlers; `items` and `late` ERPNext; `published` and
`results` the two files; `confirmed`, `written` and `produced` (the frozen drafts whose
publication succeeded) remember the past, `overlap` that a confirmation had another handler beside
it, and `again` that a draft already done was confirmed once more. A content stands for the fields
an Item is compared by; a frozen hash covers line, id, revision, code and content. `Revise` reads
the batch and `PutRevised` stores it after the codes were fetched; `Confirm` checks hashes and
then works draft by draft: `CheckExists`, `CreateItem`, `Publish`, their failures, and
`StoreOutcome`. `CountCodes` and `Prepare` are the two halves of a compilation: the first code is
computed from what ERPNext and the release rows hold, and the batch stored later, over whatever
the batch is by then. `StoreOutcome` is the one step that merges two adjacent ones of the code:
the batch copy is put into memory and the session saved right after. Whoever would come in between
finds here the old batch or the saved result; the combination of the new batch with the old
results is left out. Items are never edited or deleted by others, revisions without a change are
left out, and the append of a publication is one step.

### BatchReview

`disk` and `scratch` are the two files of a job and their temporary files, of a fixed name; a
handler's descriptor writes `into` its temporary file, or into the file itself once another
handler has moved it. Rows reach a file when it is closed. The candidates of a completed job never
change, so their hashes match.

### CatalogRevision

`history` lists every committed state; `package` is the files beside the database; a content is
the `edition` it was given. A committed state has three parts, as the triggers have: the nodes
with what hangs on them, `procurement_type_profiles` and `material_placements`. `Maintain` is SQL
by hand on any of them, at least one row in each table it changes; the triggers raise the revision
by one for every row. `edited` is a history variable: the tables of materials that maintenance has
changed since a script replaced them, which no file learns of. A publication is `StartPublish`,
two file moves, the SELECT of the revision and one transaction; the normalisation commits and
moves afterwards. Readers answer from the cache or load two tables in two statements (`ReadNodes`,
`ReadMaterials`), each seeing the last commit of its moment; the page notes the revision before it
refreshes. `StartBuild`, `BuildNodes`, `BuildPlacements` are the three SELECTs of a release, which
reads no profiles, at the plan and again at the apply. One script runs at a time; a poll is
answered before the next is sent; one request stands for those of the tree's levels, and the page
shows the GPC catalog.

### TariffJobs

`job` is `_jobs`, `output` the directories, `resolved` and `tree` what a request of the page chose
and was given. The files of a full job are written one after the other; a job may be cancelled,
fail or die at any page or in the middle of a file, and its directory stays.

## 3. Runs

| Run | Instance | What it shows |
|---|---|---|
| `PreparedOperation` | capability: 2 sessions of one employee, 2 threads, 1 row, 2 calls, 1 fault, clock and revision of 2 values; runtime: 2 turns, 2 conversations, 1 project, 2 offers, 1 planning step, 2 writes, 1 death (1.1 million states) | all safety properties of the protocol and its refinement; offers are written where they were made and once |
| `PreparedOperationLive` | the capability instance with 1 call, with fairness (0.2 million states) | every claimed operation is settled |
| `PortalWriters` | one file: a material request and a plain action, 2 request_ids, 2 threads, clock to 3, 1 crash; two files: a buying and an approval action, session files full with one result, 1 crash; review: 2 clusters, 2 choices, 2 handlers, any number of crashes (1.9 million states) | results are real, settled is settled, answered requests are not written again; decisions saved alone are kept |
| `MaterialSync` | 2 employees, plans, threads, processes; 3 records; a publication that drops one; 1 fault, whose write may come late, 1 crash; five Sites (0.72 million states) | all properties of the sync, its refinement and the liveness of the lock included |
| `AgentRun` | 2 turns, 2 confirmations, 1 page that reloads, capacity 1, 1 restart (0.46 million states) | the registry, the session and the page's waits, with liveness |
| `MaterialIntake` | intake: 1 or 2 lines, 2 contents, 2 threads, codes to 3, 1 revision, 2 confirmations, 2 drafts, 1 Item of others or restart; catalog: 3 commits, 2 editions, 2 rows a transaction, 1 failure, 2 threads; tariff: 2 jobs of 2 pages (2.4 million states) | Items, publications and results agree; the catalog's readers follow it; the tree is whole |
| `ShownIsFrozen`, `ClaimedOnItsRevision`, `ConfirmedOnce`, `OwnAnswer`, `OneRunner`, `PublishedStaysPut` | as small as the behaviour allows | violations: see section 6 |

**Why the bounds are enough to meet the hazards.** Every hazard listed needs two actors on one
row, command, plan, batch or file, and at most one fault: two threads and one fault reach them.
The clock passes the expiry (`TTL` = 1 and `MaxTime` = 1 put a claim on the boundary, where the
code counts it as expired; in the portal `MaxTime` = 3 exceeds twice the `TTL`, so commands expire
*and* are purged). `MaxDocs` = 2 allows a second document where one is right. In `MaterialSync`
the Site may hold revision 0, the workbench starts at revision 1 and the publication of revision 2
drops an item: an older release applied late would show, and what the Site then holds of that item
is extra. The one fault may be a call whose write is still on its way. The five Sites contain a
Site that is empty, one that is older, and a conflict seen by the plan, one seen only by the
command at an item, and one at an item group. `Capacity` of the portal is the number of requests
in one instance and 1 in the other, where every second request evicts the first from its file, as
the hundred-and-first does in the code. `Capacity` = 1 of `AgentRun` makes the second run meet the
first one's record at the limit. In `MaterialIntake` three codes allow a revised draft, a draft
beside it and an Item of somebody else; a third confirmation takes TLC past five minutes, and what
it adds (an older version of `PublishedAsOne` held with two and fails with three) is covered by
the proofs, which know no bound. Three commits put one between each two statements of a reader,
and two builds around them; two rows a transaction let maintenance change any one table, or two of
them at once. In the runtime part of `PreparedOperation` the clock stands still, so that no offer
expires: that case is covered by the proof alone; in `CatalogRevision`, two parts of the instance
are explored together with the intake: the page while only maintenance of the nodes commits (what
it shows is known by the commits it was read from, whichever table they changed), and the release
while maintenance changes any table and all scripts run. Deadlock is not checked anywhere, as
every instance stops legitimately once its bounded clock, ids or documents are used up.

**Fairness.** `PreparedOperation`: weak fairness of a handler's own steps; Python schedules a
thread and the client's timeout bounds its wait. Nothing is assumed of ERPNext, the clock or of
employees. `MaterialSync`: weak fairness of a command's steps (a started process runs, and
`subprocess.run` kills it after 600 s) and of the thread that waits for it. Nobody is assumed to
confirm, and no lock is assumed to be granted. `AgentRun`: weak fairness of each background
thread, whose wait for OpenClaw is bounded, of each confirmation in the workbench, whose wait for
the API is 95 s, and of the polls of an open page. Nothing is assumed of OpenClaw, the API or the
employee.

## 4. Proofs

tlapm checks every obligation of the eight proof modules; nothing is assumed but the named
assumptions on constants: bounds are naturals (`BoundsAssumption`, `PortalAssumption`,
`AgentBoundsAssumption`, `IntakeBoundsAssumption`, `CommitsAssumption`, `JobsAssumption`,
`RuntimeAssumption`), "nothing" is none of the things (`NoRowAssumption`, `TornAssumption`,
`NoneAssumption`, `ReviewAssumption`), runs are finitely many (`RunsAssumption`), and the catalog,
the ranks and the initial Site have their types (`SyncAssumption`). TLC evaluates all of them.

**PreparedOperation.** None of the safety properties is inductive: "at most one write" needs to
know who may still write. `IInv` adds what a handler past the claim relies on (`WorkerOK`: its row
is claimed, has its session and call, had not expired when the handler read the clock, is still
`executing` until it finishes, and is untouched until it sends), that a message on its way is the
only one of a row without a copy (`MessageOK`), and that a copy is the frozen call's (`CopiesOK`).
With `OneClaimant` these carry each other: the claim makes a claimant unique because every other
worker's row is claimed, uniqueness keeps the row's status under its worker's control, and the
status keeps a second claim out. From `IInv` follow `TypeCorrect`, `AtMostOneWrite`,
`ConsentFirst`, `Authority`, `CompletedIsTrue`, `MutualExclusion` and, as an action property,
`RowsAreFrozen`. `Refinement` shows that each step is one of `ConfirmedWrite` under the mapping
`Offer`, `Consent`, `copies`, `Answer`, or a stutter.

**BusinessPortal.** `PortalInv` says of every handler what it relies on between its steps
(`ThreadOK`): the two session copies it carries name real documents only, its command is still
known while it writes or remembers, and a handler that arrived when its request or command was
settled (`replay`) can only still be looking it up. Since a copy loaded before a write is saved
after it, "the file is real" is inductive only together with "every copy is real"; a torn file is
no text at all. `NeverRerun` rests on the fact that `results` and "completed" only grow while the
process lives, and that a crash leaves no handler behind. `SettledForGood` is an action property,
one case per handler step.

`AnsweredStays` is about what survives: after a crash only the session file knows what was
answered, and every handler saves the session it loaded before it wrote. `PairInv` says it for one
user and request that nothing excuses: the user has one handler at a time, what was answered or is
remembered for the request is in the user's file, unless the file is torn (then nobody gets past
it) or the handler about to save it is still there, and that handler holds the file's text until
it truncates it (`Informed`). A write then finds no answer of its request in the session it was
begun with, hence none at all. The proof is why the exceptions are what they are: with "another
user wrote under the request_id" instead of "confirmed" the property is false. Two overlapping
confirmations of *another* user can leave a result in memory, not in a file, from which the user
is answered; the next crash loses it, and confirming again writes. That takes two users and two
crashes, more than the run has.

**MaterialSync.** The invariant has two layers. `GateInv` needs no assumption about crashes: a
plan is "applying" iff one thread serves it, the lock is held iff a thread runs a command
(`ApplyingIsServed`), that thread and its command agree on request, employee and release
(`RunnerOK`), and a command without such a thread is an orphan, which a crash explains
(`CommandOK`). Hence `Alone`: before any crash at most one command exists, and `JournalInv` may
then state what it relies on between its steps (`AloneOK`): neither the Site nor any write that
may still come late is newer than its release, the journal is as it was loaded, and after the
verification the Site is exactly the release, unless a late write has `strayed` behind it. A late
write is of a confirmed release and of a record that release may write (`LateOK`), which no step
undoes, as nothing makes a record foreign. `TypeCorrect`, `OneAtATime`, `NothingLeftBehind` and
`OnlyConfirmedWrites` hold with any number of crashes and late writes; `CompleteMeansJournaled`,
`NeverOlder` and `JournalIsTrue` say what they say until the first crash, because with an orphan
about they are false (section 6, `OneRunner`). `NeverOlder` does not speak of the step in which
ERPNext does a late write, nor `JournalIsTrue` of a Site one has strayed into: both would be
false.

`Refinement` puts them together: a plan that is pending, applying or complete is a release that is
open, asked for or done, the request of the running thread is the `Work`, the target is the Site
and the journal what it was seen to hold. `ReleasedSite` has no processes, no lock and no records
left to do; it says that a release is brought record by record with no other at work, over missing
or older records only, and is done when the Site held exactly it; a write given up is lost
(`Lose`) and may arrive later (`Arrive`). One lemma per step maps it (`PromiseShow` to
`PromiseCommand`); `AtWork` says which release a command may be bringing, and `LeftInv`, that a
command has records of its own release left only, is what the older theorems did not need. A
record that is as it should be is a stutter. After a crash `PromiseUnattended` needs `CommandOK`
alone: an orphan still writes nothing but what was confirmed.

**AgentRun.** `RunInv` adds to the two invariants of the registry that a run that was not started
has no record and one that reports has saved. `OffersOpen` needs the history of an operation:
`AnswerInv` says that it is executed only after a turn that answered with it was saved, and that
what a saved turn answered never changes; so a later turn can put a settled operation back only by
answering with it as well, one of the exceptions the property names.

**MaterialIntake.** Every copy of the batch or the session may be stored at any later time, so
`IntakeInv` says of all copies, stored or carried, that what they call done is real, and of each
thread that the drafts it works on are confirmed. Confirmed drafts, Items and publications only
grow, which lets the invariant survive every step that does not touch a copy (one lemma).
`NextCodeIsNew` shows that the next code exceeds all that are in use.

`PublishedOnce` needs a second invariant, `DraftInv`. As long as no confirmation has company and
none takes a done draft again, the copy that counts is the confirmation's own while one is at
work, and the batch otherwise; it calls every published draft done and has it as it was published
(`AloneInv`). `Revise` refuses done drafts and a confirmation leaves them out of what it publishes,
so nothing can publish one a second time; and a new compilation cannot bring an old one back, as
its ids are new (`PlacedInv`). An earlier form of the property excused only overlapping
confirmations and passed with two of them; the proof failed at a confirmation that finds a done
draft, and with three confirmations TLC has the counterexample, the finding `PublishedStaysPut`.

**CatalogRevision.** History only grows, so facts about commits are stated for a prefix of it and
kept for longer ones. `FilesInv` says what the running script has already brought together; after
its transaction that is "the database holds its materials but for the tables in `edited`"
(`Holds`), which maintenance keeps by adding to `edited` what it changes, and the next transaction
by replacing all materials; `AppliedInv` that two equal builds, the second begun after the first
ended, read nodes and materials of states that were current at its start, hence of one state;
`PageInv` that an index under a revision has no table from before it, that a page's request began
no earlier than the revision it noted, and that there is one such request. `AppliedIsCommitted`
and `PageFollows` hold as long as no revision is given out twice (`Distinct`).

**TariffJobs.** Half a tree is out of reach because a full job's nodes are its first file, a
manifest is written after them, and only a whole manifest calls the tree complete (`TariffInv`).

**BatchReview.** What a release may say of a cluster is decided in the history (`live`), and
`ReviewInv` says that no copy anywhere says more: the two files, the temporary ones once a handler
has truncated them, and the rows each handler carries (`Permitted`). A handler that is alone also
has its decision where its step has brought it (`SavesAlone`): in its rows, then in the temporary
file, then in the file. The step that matters is the last one of a handler that was *not* alone:
it may move another handler's half-written temporary file, or write through its old descriptor
into the file itself, and must still leave nothing but permitted rows.

**RuntimeTurn.** That writes fit their offers (`WritesFit`) is inductive with the fact that named
offers exist, however turns overlap. That an offer is written once holds while turns follow one
another (`Sequential`): what the file or a turn may still offer lies above everything written
(`Above`), but for the offer the turn at work has just written and not yet saved
(`AboveOrWriting`), which becomes one of the `unsaved` when that turn dies.

**Only model-checked.** Every safety and action property of the passing runs is stated by a theorem.
The three liveness properties `EveryClaimSettles`, `LockIsReleased` and `EveryWaitEnds` are not:
liveness under fairness is outside the prover's reach. That `NextCode` and the other operators
compute what the code's functions compute is a translation, not a theorem.

## 5. Properties and what breaks them

| Property | A change that breaks it |
|---|---|
| `WrittenOnceAsFrozen`, `OneClaimant` | the status is not read again, or not set, under the row lock |
| `ConsentInTime` | the claim does not compare the expiry with the clock |
| `SentWithAuthority` | ownership compared by employee only |
| `CompletedIsWritten` | a send without an error counts as written |
| `FrozenForGood` | the conflict clause updates the call |
| `KeepsPromise` | a failed operation may be confirmed again |
| `EveryClaimSettles` | the except clause leaves the row |
| `ResultIsReal`, `NoRerun`, `CompletedForGood`, `AnsweredOnce` | an error completes the command; a stored command is accepted whatever its status; a purge that expires completed ones; a lookup in memory only |
| `GateSerialises`, `NoOlderItem` | the command starts without the lock |
| `ApplyingIsServed`, `CompleteIsJournaled`, `LockIsReleased` | the finishing step forgets the failed plan, the exit code, or the lock |
| `ReleasesAsPromised` | the command takes the catalog as it is by now for what was confirmed |
| `WrittenAsConfirmed` (sync), `JournaledIsApplied` | an item without `source_id` is taken over; extra items are not looked at |
| `LiveRunsAreRegistered` | the registry evicts the oldest run, finished or not |
| `OutcomesAreRecorded` | the outcome is reported before the turn is saved |
| `TerminalForGood` | the progress thread writes its label without looking at the status |
| `OfferedIsOpen` | a confirmation saves its turn and not the cleared pending action |
| `EveryWaitEnds` | a failing run ends its thread without a report |
| `WrittenAsConfirmed` (intake) | the Item is built from the batch as it is now, not from the draft that was confirmed |
| `PublishedIsReal` | an Item that exists counts as the draft's own without comparing it |
| `ReportedIsReal` | the outcome sets the statuses in the batch of now instead of storing the copy it worked on |
| `PublishedAsOne` | a published draft may be revised |
| `AppliedIsCommitted` | the apply does not compare its build with the confirmed hash |
| `PageFollows` | the cache is signed with the revision read after the load |
| `FilesMatchDatabase` | a script skips its transaction when the placements it brings are already there |
| `TreeIsWhole` | the manifest is written before the nodes |
| `SavedAloneIsKept` | the temporary file is opened without truncating what a crash left |
| `WrittenAsOffered` | the offer is dropped only when the execution was answered as ok |

## 6. Disagreements between code and documents

Each is a run that TLC ends with a counterexample; PROJECT.json quotes the lines.

1. `ShownIsFrozen`: a `request_id` used for a second request answers with the *old* pending_id and
   the *new* summary: what is shown is not what confirming executes (ADR-004).
2. `ClaimedOnItsRevision`: the operations guide says a confirmation on another catalog revision is
   refused; the claim does not compare revisions.
3. `ConfirmedOnce`: two confirmations of one command, at once or after a lost answer, create two
   documents, where the portal's document lists "a repeated request_id does not".
4. `OwnAnswer`: results are looked up by account and `request_id`, not by identity; the comment
   says by both.
5. `OneRunner`: the lock against two parallel runners dies with the workbench, the runner does
   not.
6. `PublishedStaysPut`: a draft whose publication is done "cannot be changed any more", says the
   refusal of a revision; confirmed again while ERPNext is not reached it becomes "failed", may be
   revised, gets another code, and is published a second time.

**Weaknesses the models make visible.** No document promises otherwise, so they are conditions in
the properties or notes of hazards, not findings.

* Maintenance in SQL that commits between a script's SELECT of the revision and its transaction
  makes a revision be given out twice, or go back (`Distinct`).
* What maintenance in SQL changes in a table of materials after a script's transaction lives in the
  database only. No file learns of it, and the next publication, import or normalisation, which
  starts from the files, overwrites it (`edited`).
* A REST write the sync has given up may be done by ERPNext later: it can bring back an older item,
  or come between the verification of a release and its journal (`late`, `strayed`).
* The first poll of the page may take its revision for that of a tree loaded before it, and a
  failed refresh is not tried again (`page.fresh`).
* Two saves of a review at once, or a save during a freeze, lose a decision; a freeze can
  overwrite another one (`live` of `BatchReview`).
* A revision stores its batch over a confirmation that ended meanwhile, so that a published draft
  may become a second Item (`overlap` of `MaterialIntake`).
* The portal answers a user from memory with a result that is in no file of that user, because
  another user's confirmation remembered it; a restart forgets it (`excused` of `BusinessPortal`).
* The confirmation of the agent page executes what the session file holds, whatever the card on
  the page says (`PostPending`).
* In the in-process runtime, a turn that dies before it saves leaves an executed offer to be
  executed again, overlapping turns can restore a used one, a torn file stops the employee, and a
  failed write followed by a successful query may be answered as executed.

## 7. What is not modelled, and what is left

Left aside for good: the search and ranking of manual pages, the stateless translation of tool
calls to REST calls, Frappe's own transactions, the two earlier runtimes, the OpenClaw plugin and
the offline batch scripts: they keep little or no state between calls. Inside the modelled
components: the extraction of an analysis and of tariff pages, the content checks of reviews,
publications, manifests and the code map, the compilation of requests and ToolCalls, and wording.
Scripts that run at the same time are left out, as each is started by hand.

The batch pilot is not modelled because its default run cannot get past its start:
`procurement_batch_pilot.py:1183` creates, with `exist_ok=False`, the directory `_persist_job` has
created.

What would come next:

1. Item code suffixes at their limit of 999 in the release, as a function checked against a
   reference definition.
2. `AgentRun` composed with `PreparedOperation`, whose outcome it takes as one step, and the
   session's turns.
