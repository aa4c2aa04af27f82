-------------------------- MODULE CatalogRevision --------------------------
(***************************************************************************)
(* The reference catalog in SQLite and everyone who follows its revision:  *)
(* the scripts that publish, import and normalise it together with the     *)
(* files they keep beside it, maintenance in SQL, whose row triggers raise *)
(* the revision, the workbench that caches an index per revision, the page *)
(* that polls the revision, and the build of the release for the material  *)
(* test Site, at the plan and again at the apply.                          *)
(*                                                                         *)
(* A transaction commits at once; everyone else reads the tables in        *)
(* separate statements, each of which sees the last commit of its moment.  *)
(* The content of a table or a file is the edition it was given.  One      *)
(* script runs at a time; a poll of the page is answered before the next   *)
(* one is sent.  "nodes" stands for catalog_nodes and the three tables     *)
(* that hang on it, "profiles" for procurement_type_profiles, "placements" *)
(* for material_placements.                                                *)
(***************************************************************************)
EXTENDS Integers, Sequences, FiniteSets

CONSTANTS
    Readers,        \* handler threads of the workbench that answer from the index
    MaxCommits,     \* bound on the committed states of the database
    MaxEdition,     \* bound on the editions of any content
    MaxRows,        \* bound on the rows one transaction of maintenance changes
    MaxFailures,    \* bound on stopped scripts and failing requests
    Unset           \* no index cached, no revision seen, no release

ASSUME CommitsAssumption ==
    /\ MaxCommits \in Nat \ {0} /\ MaxEdition \in Nat
    /\ MaxRows \in Nat /\ MaxFailures \in Nat
    /\ Unset \notin Nat

VARIABLES
    history,    \* every committed state of the catalog, the last one the current one
    package,    \* the files the scripts keep beside it, by name
    edited,     \* history: tables of materials changed in SQL since a script replaced them
    edition,    \* the last edition of any content
    script,     \* the script that runs, or how the last one ended
    cache,      \* the workbench's _gpc_reference_cache
    request,    \* the requests for the index, by thread
    page,       \* the page: the revision it has seen and the tree it shows
    build,      \* build_material_release of the material test sync
    planned,    \* the release the last plan showed, whose hash is confirmed
    applied,    \* the release the last apply froze
    failures

database  == <<history, edited, package, edition, script>>
workbench == <<cache, request, page>>
releases  == <<build, planned, applied>>
catalogVars == <<history, edited, package, edition, script, cache, request, page,
                 build, planned, applied, failures>>

-----------------------------------------------------------------------------
Editions  == 0..MaxEdition
Commits   == 1..MaxCommits
Revisions == Nat \ {0}
Materials == [profiles : Editions, placements : Editions]
Tables    == {"nodes", "profiles", "placements"}
Committed == [revision : Revisions, nodes : Editions, materials : Materials]
Package   == [profiles : Editions, placements : Editions, extensions : Editions]

Kinds   == {"publish", "sync", "normalize"}
Running == [pc : {"profiles", "placements", "select", "commit", "move"}, kind : Kinds,
            materials : Materials, nodes : Editions, revision : Revisions]
EndedAs(how) == [pc |-> how]
Ended   == {EndedAs("completed"), EndedAs("stopped")}

\* A reading names, for each table, the commit it was read from.
Reading == [pc : {"cache", "nodes", "materials", "store"}, revision : Revisions,
            nodes : Commits, materials : Commits, ofPage : BOOLEAN]
Index   == [revision : Revisions, nodes : Commits, materials : Commits]
Quiet    == [pc |-> "quiet"]
Build   == [pc : {"nodes", "placements", "built"}, revision : Revisions,
            nodes : Editions, placements : Editions, apply : BOOLEAN]
Release == [revision : Revisions, nodes : Editions, placements : Editions]
Page    == [pc : {"closed", "load", "idle", "refresh"}, seen : {Unset} \cup Revisions,
            tree : Index \cup {Unset}, fresh : BOOLEAN]

CatalogTypeOK ==
    /\ history \in Seq(Committed) /\ Len(history) \in Commits
    /\ edited \subseteq Tables \ {"nodes"}
    /\ package \in Package
    /\ edition \in Editions
    /\ script \in Running \cup Ended
    /\ cache \in Index \cup {Unset}
    /\ request \in [Readers -> Reading \cup {Quiet}]
    /\ page \in Page
    /\ build \in Build \cup {Quiet}
    /\ planned \in Release \cup {Unset}
    /\ applied \in Release \cup {Unset}
    /\ failures \in 0..MaxFailures

CatalogInit ==
    /\ history = <<[revision |-> 1, nodes |-> 0,
                    materials |-> [profiles |-> 0, placements |-> 0]]>>
    /\ edited = {}
    /\ package = [profiles |-> 0, placements |-> 0, extensions |-> 0]
    /\ edition = 0
    /\ script = EndedAs("completed")
    /\ cache = Unset
    /\ request = [t \in Readers |-> Quiet]
    /\ page = [pc |-> "closed", seen |-> Unset, tree |-> Unset, fresh |-> FALSE]
    /\ build = Quiet
    /\ planned = Unset
    /\ applied = Unset
    /\ failures = 0

-----------------------------------------------------------------------------
Now     == Len(history)
Current == history[Now]

Commit(state) ==
    /\ Now < MaxCommits
    /\ history' = Append(history, state)

\* Statements of an administrator on any of the tables, one transaction: a row that
\* is inserted, updated or deleted raises the revision by one.
Maintained(rows, tables, content) ==
    [revision  |-> Current.revision + rows,
     nodes     |-> IF "nodes" \in tables THEN content ELSE Current.nodes,
     materials |-> [profiles   |-> IF "profiles" \in tables THEN content
                                   ELSE Current.materials.profiles,
                    placements |-> IF "placements" \in tables THEN content
                                   ELSE Current.materials.placements]]

Maintain(rows, tables) ==
    /\ Cardinality(tables) <= rows
    /\ edition < MaxEdition
    /\ edition' = edition + 1
    /\ Commit(Maintained(rows, tables, edition'))
    /\ edited' = edited \cup (tables \ {"nodes"})
    /\ UNCHANGED <<package, script, failures>> /\ UNCHANGED workbench /\ UNCHANGED releases

Begin(kind, first, materials, nodes) ==
    script' = [pc |-> first, kind |-> kind, materials |-> materials, nodes |-> nodes,
               revision |-> 1]

InPackage == [profiles |-> package.profiles, placements |-> package.placements]

\* publish and normalize work out new rows from the ones in the files.
StartNew(kind, first) ==
    /\ script \in Ended
    /\ edition < MaxEdition
    /\ edition' = edition + 1
    /\ Begin(kind, first, [profiles |-> edition', placements |-> edition'], edition')
    /\ UNCHANGED <<history, edited, package, failures>> /\ UNCHANGED workbench /\ UNCHANGED releases

StartPublish   == StartNew("publish", "profiles")
StartNormalize == StartNew("normalize", "select")

\* sync_reference_catalog_database reads the files as they are.
StartSync ==
    /\ script \in Ended
    /\ Begin("sync", "select", InPackage, package.extensions)
    /\ UNCHANGED <<history, edited, package, edition, failures>>
    /\ UNCHANGED workbench /\ UNCHANGED releases

\* publish moves its two files into place before it turns to the database.
MoveProfiles ==
    /\ script.pc = "profiles"
    /\ package' = [package EXCEPT !.profiles = script.materials.profiles]
    /\ script' = [script EXCEPT !.pc = "placements"]
    /\ UNCHANGED <<history, edited, edition, failures>> /\ UNCHANGED workbench /\ UNCHANGED releases

MovePlacements ==
    /\ script.pc = "placements"
    /\ package' = [package EXCEPT !.placements = script.materials.placements]
    /\ script' = [script EXCEPT !.pc = "select"]
    /\ UNCHANGED <<history, edited, edition, failures>> /\ UNCHANGED workbench /\ UNCHANGED releases

\* The revision is read before the transaction begins.
SelectRevision ==
    /\ script.pc = "select"
    /\ script' = [script EXCEPT !.pc = "commit", !.revision = Current.revision]
    /\ UNCHANGED <<history, edited, package, edition, failures>>
    /\ UNCHANGED workbench /\ UNCHANGED releases

\* replace_material_publication replaces the rows of the materials,
\* sync_from_runtime those of the nodes as well.
Replaced == [revision |-> script.revision + 1, materials |-> script.materials,
             nodes |-> IF script.kind = "publish" THEN Current.nodes ELSE script.nodes]

\* The script ends with it; normalize still has its three files to move.
EndCommit ==
    /\ script' = IF script.kind = "normalize" THEN [script EXCEPT !.pc = "move"]
                 ELSE EndedAs("completed")
    /\ UNCHANGED <<package, edition, failures>> /\ UNCHANGED workbench /\ UNCHANGED releases

\* Mutation: rows whose placements are already there are not written again.
CommitScriptNeeded ==
    /\ script.pc = "commit"
    /\ IF Current.materials.placements = script.materials.placements
       THEN UNCHANGED <<history, edited>>
       ELSE Commit(Replaced) /\ edited' = {}
    /\ EndCommit

CommitScript ==
    /\ script.pc = "commit"
    /\ Commit(Replaced)
    /\ edited' = {}
    /\ EndCommit

\* One after the other: a script that is stopped leaves the first of them behind.
MoveNormalized ==
    /\ script.pc = "move"
    /\ \E last \in {"placements", "profiles", "extensions"} :
        /\ package' = [placements |-> script.materials.placements,
                       profiles   |-> IF last = "placements" THEN package.profiles
                                      ELSE script.materials.profiles,
                       extensions |-> IF last = "extensions" THEN script.nodes
                                      ELSE package.extensions]
        /\ IF last = "extensions"
           THEN script' = EndedAs("completed") /\ UNCHANGED failures
           ELSE script' = EndedAs("stopped") /\ failures < MaxFailures /\ failures' = failures + 1
    /\ UNCHANGED <<history, edited, edition>> /\ UNCHANGED workbench /\ UNCHANGED releases

\* Killed, refused by a check, or locked out of the database.
StopScript ==
    /\ script \notin Ended
    /\ failures < MaxFailures
    /\ failures' = failures + 1
    /\ script' = EndedAs("stopped")
    /\ UNCHANGED <<history, edited, package, edition>> /\ UNCHANGED workbench /\ UNCHANGED releases

-----------------------------------------------------------------------------
\* _gpc_reference_index: the signature first, then the cache, then the tables.
Request(t, ofPage) ==
    /\ request[t] = Quiet
    /\ request' = [request EXCEPT ![t] = [pc |-> "cache", revision |-> Current.revision,
                                          nodes |-> 1, materials |-> 1, ofPage |-> ofPage]]

Ask(t) ==
    /\ Request(t, FALSE)
    /\ UNCHANGED <<cache, page, failures>> /\ UNCHANGED database /\ UNCHANGED releases

\* initialize loads the tree, then polls for the first time.
OpenPage(t) ==
    /\ page.pc = "closed"
    /\ Request(t, TRUE)
    /\ page' = [pc |-> "load", seen |-> Unset, tree |-> Unset, fresh |-> FALSE]
    /\ UNCHANGED <<cache, failures>> /\ UNCHANGED database /\ UNCHANGED releases

\* pollCatalogRevision: the first revision seen is taken for the tree's.
Poll ==
    /\ page.pc = "idle"
    /\ page.seen # Current.revision
    /\ page' = IF page.seen = Unset THEN [page EXCEPT !.seen = Current.revision]
               ELSE [page EXCEPT !.pc = "refresh", !.seen = Current.revision,
                                 !.tree = Unset, !.fresh = TRUE]
    /\ UNCHANGED <<cache, request, failures>> /\ UNCHANGED database /\ UNCHANGED releases

\* refreshCatalogRevision asks for the tree when the poll has been answered.
Refresh(t) ==
    /\ page.pc = "refresh"
    /\ Request(t, TRUE)
    /\ page' = [page EXCEPT !.pc = "load"]
    /\ UNCHANGED <<cache, failures>> /\ UNCHANGED database /\ UNCHANGED releases

\* The tree the page shows: one request stands for those of its levels.
Shown(t, index) ==
    page' = IF request[t].ofPage THEN [page EXCEPT !.pc = "idle", !.tree = index] ELSE page

CacheHit(t) ==
    /\ request[t] # Quiet /\ request[t].pc = "cache"
    /\ cache # Unset
    /\ cache.revision = request[t].revision
    /\ Shown(t, cache)
    /\ request' = [request EXCEPT ![t] = Quiet]
    /\ UNCHANGED <<cache, failures>> /\ UNCHANGED database /\ UNCHANGED releases

CacheMiss(t) ==
    /\ request[t] # Quiet /\ request[t].pc = "cache"
    /\ cache # Unset => cache.revision # request[t].revision
    /\ request' = [request EXCEPT ![t] = [@ EXCEPT !.pc = "nodes"]]
    /\ UNCHANGED <<cache, page, failures>> /\ UNCHANGED database /\ UNCHANGED releases

ReadNodes(t) ==
    /\ request[t] # Quiet /\ request[t].pc = "nodes"
    /\ request' = [request EXCEPT ![t] = [@ EXCEPT !.pc = "materials", !.nodes = Now]]
    /\ UNCHANGED <<cache, page, failures>> /\ UNCHANGED database /\ UNCHANGED releases

ReadMaterials(t) ==
    /\ request[t] # Quiet /\ request[t].pc = "materials"
    /\ request' = [request EXCEPT ![t] = [@ EXCEPT !.pc = "store", !.materials = Now]]
    /\ UNCHANGED <<cache, page, failures>> /\ UNCHANGED database /\ UNCHANGED releases

Store(t, revision) ==
    /\ request[t] # Quiet /\ request[t].pc = "store"
    /\ cache' = [revision |-> revision, nodes |-> request[t].nodes,
                 materials |-> request[t].materials]
    /\ Shown(t, cache')
    /\ request' = [request EXCEPT ![t] = Quiet]
    /\ UNCHANGED failures /\ UNCHANGED database /\ UNCHANGED releases

\* Mutation: the signature is taken when the index has been loaded.
StoreIndexSignedNow(t) == Store(t, Current.revision)

StoreIndex(t) == Store(t, request[t].revision)

\* A request that fails is not tried again: the page keeps the revision it has seen.
FailRequest(t) ==
    /\ request[t] # Quiet
    /\ failures < MaxFailures
    /\ failures' = failures + 1
    /\ page' = IF ~request[t].ofPage THEN page
               ELSE IF page.seen = Unset THEN [page EXCEPT !.pc = "closed"]
               ELSE [page EXCEPT !.pc = "idle", !.fresh = FALSE]
    /\ request' = [request EXCEPT ![t] = Quiet]
    /\ UNCHANGED cache /\ UNCHANGED database /\ UNCHANGED releases

-----------------------------------------------------------------------------
\* build_material_release: the state, the nodes and the placements of a release.
StartBuild(apply) ==
    /\ build = Quiet
    /\ apply => planned # Unset
    /\ build' = [pc |-> "nodes", revision |-> Current.revision, nodes |-> 0,
                 placements |-> 0, apply |-> apply]
    /\ UNCHANGED <<planned, applied, failures>> /\ UNCHANGED database /\ UNCHANGED workbench

BuildNodes ==
    /\ build.pc = "nodes"
    /\ build' = [build EXCEPT !.pc = "placements", !.nodes = Current.nodes]
    /\ UNCHANGED <<planned, applied, failures>> /\ UNCHANGED database /\ UNCHANGED workbench

BuildPlacements ==
    /\ build.pc = "placements"
    /\ build' = [build EXCEPT !.pc = "built", !.placements = Current.materials.placements]
    /\ UNCHANGED <<planned, applied, failures>> /\ UNCHANGED database /\ UNCHANGED workbench

Built == [revision |-> build.revision, nodes |-> build.nodes,
          placements |-> build.placements]

ShowPlan ==
    /\ build.pc = "built" /\ ~build.apply
    /\ planned' = Built
    /\ build' = Quiet
    /\ UNCHANGED <<applied, failures>> /\ UNCHANGED database /\ UNCHANGED workbench

\* Mutation: apply takes the release it has just built, whatever was confirmed.
FreezeReleaseUnconfirmed ==
    /\ build.pc = "built" /\ build.apply
    /\ applied' = Built
    /\ build' = Quiet
    /\ UNCHANGED <<planned, failures>> /\ UNCHANGED database /\ UNCHANGED workbench

\* apply goes on only with a release of the hash that was confirmed.
FreezeRelease ==
    /\ build.pc = "built" /\ build.apply
    /\ applied' = IF Built = planned THEN Built ELSE applied
    /\ build' = Quiet
    /\ UNCHANGED <<planned, failures>> /\ UNCHANGED database /\ UNCHANGED workbench

-----------------------------------------------------------------------------
CatalogNext ==
    \/ \E rows \in 1..MaxRows, tables \in SUBSET Tables \ {{}} : Maintain(rows, tables)
    \/ StartPublish \/ StartNormalize \/ StartSync
    \/ MoveProfiles \/ MovePlacements \/ SelectRevision \/ CommitScript
    \/ MoveNormalized \/ StopScript
    \/ \E t \in Readers :
        \/ Ask(t) \/ OpenPage(t) \/ Refresh(t)
        \/ CacheHit(t) \/ CacheMiss(t) \/ ReadNodes(t) \/ ReadMaterials(t)
        \/ StoreIndex(t) \/ FailRequest(t)
    \/ Poll
    \/ \E apply \in BOOLEAN : StartBuild(apply)
    \/ BuildNodes \/ BuildPlacements \/ ShowPlan \/ FreezeRelease

CatalogSpec == CatalogInit /\ [][CatalogNext]_catalogVars

-----------------------------------------------------------------------------
\* Maintenance that commits between a script's SELECT and its transaction makes the
\* script give a revision out a second time, or go back behind it.
Distinct == \A i, j \in DOMAIN history : history[i].revision = history[j].revision => i = j

\* The part of a committed state that a release is built from.
ReleaseOf(state) == [revision |-> state.revision, nodes |-> state.nodes,
                     placements |-> state.materials.placements]

\* The release that is applied is one committed state of the catalog, whatever was
\* committed between the three statements of either build: a release that mixes two
\* states is never built twice.
AppliedIsCommitted ==
    Distinct /\ applied # Unset => \E i \in DOMAIN history : ReleaseOf(history[i]) = applied

\* A page that has refreshed shows no table from before the revision it has seen:
\* an index that another thread started to load earlier never reaches it.
PageFollows ==
    Distinct /\ page.pc = "idle" /\ page.fresh =>
        \A i \in DOMAIN history : history[i].revision = page.seen =>
            page.tree.nodes >= i /\ page.tree.materials >= i

\* The database holds these materials, but for the tables maintenance has changed.
Holds(materials) ==
    /\ "profiles" \notin edited => Current.materials.profiles = materials.profiles
    /\ "placements" \notin edited => Current.materials.placements = materials.placements

\* When a script has completed, wherever earlier ones were stopped, files and database
\* hold the same materials, but for a table that maintenance in SQL has changed since
\* the last transaction of a script: no file learns of such a change.
FilesMatchDatabase == script = EndedAs("completed") => Holds(InPackage)
=============================================================================
