----------------------- MODULE CatalogRevisionProofs -----------------------
(***************************************************************************)
(* Proofs about CatalogRevision, for any number of commits, editions,      *)
(* failures and threads of the workbench.                                  *)
(***************************************************************************)
EXTENDS CatalogRevision, SequenceTheorems, TLAPS

ScriptStep == \/ \E rows \in 1..MaxRows, tables \in SUBSET Tables \ {{}} :
                    Maintain(rows, tables)
              \/ StartPublish \/ StartNormalize \/ StartSync
              \/ MoveProfiles \/ MovePlacements \/ SelectRevision \/ CommitScript
              \/ MoveNormalized \/ StopScript

RequestStep(t) == \/ Ask(t) \/ OpenPage(t) \/ Refresh(t)
                  \/ CacheHit(t) \/ CacheMiss(t) \/ ReadNodes(t) \/ ReadMaterials(t)
                  \/ StoreIndex(t) \/ FailRequest(t)

ReleaseStep == \/ \E apply \in BOOLEAN : StartBuild(apply)
               \/ BuildNodes \/ BuildPlacements \/ ShowPlan \/ FreezeRelease

\* The parts of the types, by who writes the variables.
DatabaseType  == /\ history \in Seq(Committed) /\ Len(history) \in Commits
                 /\ edited \subseteq Tables \ {"nodes"}
                 /\ package \in Package /\ edition \in Editions
                 /\ script \in Running \cup Ended
WorkbenchType == /\ cache \in Index \cup {Unset}
                 /\ request \in [Readers -> Reading \cup {Quiet}]
                 /\ page \in Page
ReleaseType   == /\ build \in Build \cup {Quiet}
                 /\ planned \in Release \cup {Unset}
                 /\ applied \in Release \cup {Unset}

LEMMA Types == CatalogTypeOK <=> /\ DatabaseType /\ WorkbenchType /\ ReleaseType
                                 /\ failures \in 0..MaxFailures
  BY DEF CatalogTypeOK, DatabaseType, WorkbenchType, ReleaseType

\* A commit is added at the end and nothing committed is ever changed.
Grown == \/ history' = history
         \/ \E s \in Committed : history' = Append(history, s) /\ Now < MaxCommits

-----------------------------------------------------------------------------
(* Types *)

LEMMA TypesInitially == CatalogInit => CatalogTypeOK
<1> SUFFICES ASSUME CatalogInit PROVE CatalogTypeOK
  OBVIOUS
<1> USE CommitsAssumption
<1>1. PICK m : m = [profiles |-> 0, placements |-> 0]
  OBVIOUS
<1>2. m \in Materials
  BY <1>1, SMT DEF Materials, Editions
<1>3. PICK s : s = [revision |-> 1, nodes |-> 0, materials |-> m]
  OBVIOUS
<1>4. s \in Committed
  BY <1>2, <1>3, SMT DEF Committed, Editions, Revisions
<1>5. history = <<s>>
  BY <1>1, <1>3, Zenon DEF CatalogInit
<1>6. history \in Seq(Committed) /\ Len(history) = 1
  BY <1>4, <1>5
<1>7. DatabaseType
  BY <1>6, SMT DEF CatalogInit, DatabaseType, Commits, Package, Editions, Ended, EndedAs
<1>8. WorkbenchType
  BY SMT DEF CatalogInit, WorkbenchType, Page
<1>9. ReleaseType /\ failures \in 0..MaxFailures
  BY SMT DEF CatalogInit, ReleaseType
<1> QED BY <1>7, <1>8, <1>9, Types

LEMMA CurrentType ==
  ASSUME DatabaseType
  PROVE  /\ Now \in Nat \ {0} /\ Now \in 1..Now /\ Now \in Commits
         /\ \A i \in 1..Now : history[i] \in Committed
         /\ Current \in Committed
         /\ Current.revision \in Revisions /\ Current.nodes \in Editions
         /\ Current.materials \in Materials
<1>1. Now \in Nat \ {0} /\ Now \in 1..Now /\ Now \in Commits
  BY SMT DEF DatabaseType, Now, Commits
<1>2. \A i \in 1..Now : history[i] \in Committed
  BY DEF DatabaseType, Now
<1>3. Current \in Committed
  BY <1>1, <1>2 DEF Current
<1> QED BY <1>1, <1>2, <1>3 DEF Committed

LEMMA CommitGrows ==
  ASSUME DatabaseType, NEW s \in Committed, Commit(s)
  PROVE  Grown /\ history' \in Seq(Committed) /\ Len(history') \in Commits
<1>1. history' = Append(history, s) /\ Now < MaxCommits
  BY DEF Commit
<1>2. history' \in Seq(Committed) /\ Len(history') = Now + 1
  BY <1>1 DEF DatabaseType, Now
<1>3. Now \in Nat \ {0}
  BY CurrentType
<1> QED BY <1>1, <1>2, <1>3, CommitsAssumption, SMT DEF Grown, Commits

LEMMA MaintainedType ==
  ASSUME DatabaseType, NEW rows \in 1..MaxRows, NEW tables, NEW content \in Editions
  PROVE  Maintained(rows, tables, content) \in Committed
<1>1. PICK v : v = Current.revision + rows
  OBVIOUS
<1>2. v \in Revisions
  BY <1>1, CurrentType, CommitsAssumption, SMT DEF Revisions
<1>3. PICK n : n = IF "nodes" \in tables THEN content ELSE Current.nodes
  OBVIOUS
<1>4. PICK m : m = [profiles   |-> IF "profiles" \in tables THEN content
                                   ELSE Current.materials.profiles,
                    placements |-> IF "placements" \in tables THEN content
                                   ELSE Current.materials.placements]
  OBVIOUS
<1>5. n \in Editions
  BY <1>3, CurrentType
<1>6. Current.materials.profiles \in Editions /\ Current.materials.placements \in Editions
  BY CurrentType DEF Materials
<1>7. m \in Materials
  BY <1>4, <1>6 DEF Materials
<1>8. Maintained(rows, tables, content) = [revision |-> v, nodes |-> n, materials |-> m]
  BY <1>1, <1>3, <1>4, Zenon DEF Maintained
<1> QED BY <1>2, <1>5, <1>7, <1>8, SMT DEF Committed

LEMMA ScriptTypes ==
  ASSUME CatalogTypeOK, ScriptStep
  PROVE  CatalogTypeOK' /\ Grown
<1> USE CommitsAssumption
<1>1. /\ DatabaseType /\ WorkbenchType /\ ReleaseType /\ failures \in 0..MaxFailures
      /\ failures \in Nat /\ edition \in Nat
  BY Types, SMT DEF DatabaseType, Editions
<1>2. ASSUME DatabaseType', UNCHANGED workbench, UNCHANGED releases,
             \/ UNCHANGED failures
             \/ failures < MaxFailures /\ failures' = failures + 1
      PROVE  CatalogTypeOK'
  <2>1. WorkbenchType' /\ ReleaseType'
    BY <1>1, <1>2 DEF WorkbenchType, ReleaseType, workbench, releases
  <2>2. failures' \in 0..MaxFailures
    BY <1>1, <1>2, SMT
  <2> QED BY <1>2, <2>1, <2>2, Types DEF CatalogTypeOK, DatabaseType, WorkbenchType, ReleaseType
<1>3. InPackage \in Materials /\ package.extensions \in Editions
  BY <1>1, SMT DEF InPackage, DatabaseType, Package, Materials
<1>4. ASSUME NEW rows \in 1..MaxRows, NEW tables \in SUBSET Tables \ {{}},
             Maintain(rows, tables)
      PROVE  CatalogTypeOK' /\ Grown
  <2>1. edition' \in Editions
    BY <1>1, <1>4, SMT DEF Maintain, Editions
  <2>2. PICK s : s = Maintained(rows, tables, edition')
    OBVIOUS
  <2>3. s \in Committed
    BY <1>1, <2>1, <2>2, MaintainedType
  <2>4. Commit(s) /\ edited' = edited \cup (tables \ {"nodes"})
    BY <1>4, <2>2, Zenon DEF Maintain
  <2>5. edited' \subseteq Tables \ {"nodes"}
    BY <1>1, <2>4 DEF DatabaseType
  <2>6. Grown /\ DatabaseType'
    BY <1>1, <1>4, <2>1, <2>3, <2>4, <2>5, CommitGrows DEF Maintain, DatabaseType
  <2> QED BY <1>2, <1>4, <2>6 DEF Maintain
<1>5. ASSUME NEW kind \in Kinds, NEW first \in {"profiles", "select"},
             NEW m \in Materials, NEW n \in Editions, Begin(kind, first, m, n)
      PROVE  script' \in Running
  BY <1>5, SMT DEF Begin, Running, Kinds, Revisions
<1>6. ASSUME NEW kind \in Kinds, NEW first \in {"profiles", "select"}, StartNew(kind, first)
      PROVE  CatalogTypeOK' /\ Grown
  <2>1. edition' \in Editions
    BY <1>1, <1>6, SMT DEF StartNew, Editions
  <2>2. [profiles |-> edition', placements |-> edition'] \in Materials
    BY <2>1, SMT DEF Materials
  <2>3. script' \in Running
    BY <1>5, <1>6, <2>1, <2>2 DEF StartNew
  <2> QED BY <1>1, <1>2, <1>6, <2>1, <2>3 DEF StartNew, DatabaseType, Grown
<1>7. CASE StartPublish
  BY <1>6, <1>7 DEF StartPublish, Kinds
<1>8. CASE StartNormalize
  BY <1>6, <1>8 DEF StartNormalize, Kinds
<1>9. CASE StartSync
  <2>1. script' \in Running
    BY <1>3, <1>5, <1>9 DEF StartSync, Kinds
  <2> QED BY <1>1, <1>2, <1>9, <2>1 DEF StartSync, DatabaseType, Grown
<1>10. script.pc \notin {"completed", "stopped"} => script \in Running
  BY <1>1 DEF DatabaseType, Ended, EndedAs
<1>11. PICK c : c = script
  OBVIOUS
<1>12. ASSUME c \in Running, NEW pc \in {"placements", "select", "commit", "move"},
              NEW v \in Revisions
       PROVE  /\ [c EXCEPT !.pc = pc] \in Running
              /\ [c EXCEPT !.pc = pc, !.revision = v] \in Running
  <2>1. PICK d : d = [c EXCEPT !.pc = pc]
    OBVIOUS
  <2>2. d \in Running
    BY <1>12, <2>1, SMT DEF Running
  <2>3. [c EXCEPT !.pc = pc, !.revision = v] = [d EXCEPT !.revision = v]
    BY <2>1, Zenon
  <2>4. [d EXCEPT !.revision = v] \in Running
    BY <2>2, SMT DEF Running
  <2> QED BY <2>1, <2>2, <2>3, <2>4
<1>13. 1 \in Revisions
  BY SMT DEF Revisions
<1>14. CASE MoveProfiles
  <2>1. c \in Running /\ c.materials.profiles \in Editions
    BY <1>10, <1>11, <1>14 DEF MoveProfiles, Running, Materials
  <2>2. package' \in Package
    BY <1>1, <1>11, <1>14, <2>1, SMT DEF MoveProfiles, Package, DatabaseType
  <2>3. script' \in Running
    BY <1>11, <1>12, <1>13, <1>14, <2>1 DEF MoveProfiles
  <2> QED BY <1>1, <1>2, <1>14, <2>2, <2>3 DEF MoveProfiles, DatabaseType, Grown
<1>15. CASE MovePlacements
  <2>1. c \in Running /\ c.materials.placements \in Editions
    BY <1>10, <1>11, <1>15 DEF MovePlacements, Running, Materials
  <2>2. package' \in Package
    BY <1>1, <1>11, <1>15, <2>1, SMT DEF MovePlacements, Package, DatabaseType
  <2>3. script' \in Running
    BY <1>11, <1>12, <1>13, <1>15, <2>1 DEF MovePlacements
  <2> QED BY <1>1, <1>2, <1>15, <2>2, <2>3 DEF MovePlacements, DatabaseType, Grown
<1>16. CASE SelectRevision
  <2>1. c \in Running
    BY <1>10, <1>11, <1>16 DEF SelectRevision
  <2>2. script' \in Running
    BY <1>1, <1>11, <1>12, <1>16, <2>1, CurrentType DEF SelectRevision
  <2> QED BY <1>1, <1>2, <1>16, <2>2 DEF SelectRevision, DatabaseType, Grown
<1>17. EndedAs("completed") \in Ended /\ EndedAs("stopped") \in Ended
  BY DEF Ended
<1>18. CASE CommitScript
  <2>1. c \in Running
    BY <1>10, <1>11, <1>18 DEF CommitScript
  <2>2. Replaced \in Committed
    <3>1. PICK v : v = c.revision + 1
      OBVIOUS
    <3>2. v \in Revisions
      BY <2>1, <3>1, SMT DEF Running, Revisions
    <3>3. PICK n : n = IF c.kind = "publish" THEN Current.nodes ELSE c.nodes
      OBVIOUS
    <3>4. n \in Editions /\ c.materials \in Materials
      BY <1>1, <2>1, <3>3, CurrentType DEF Running
    <3>5. Replaced = [revision |-> v, materials |-> c.materials, nodes |-> n]
      BY <1>11, <3>1, <3>3 DEF Replaced
    <3> QED BY <3>2, <3>4, <3>5, SMT DEF Committed
  <2>3. Grown /\ history' \in Seq(Committed) /\ Len(history') \in Commits
    BY <1>1, <1>18, <2>2, CommitGrows DEF CommitScript
  <2>4. script' \in Running \cup Ended
    BY <1>11, <1>12, <1>13, <1>17, <1>18, <2>1 DEF CommitScript, EndCommit
  <2>5. edited' \subseteq Tables \ {"nodes"}
    BY <1>18 DEF CommitScript
  <2> QED BY <1>1, <1>2, <1>18, <2>3, <2>4, <2>5 DEF CommitScript, EndCommit, DatabaseType
<1>19. CASE MoveNormalized
  <2>1. /\ c \in Running /\ c.nodes \in Editions
        /\ c.materials.placements \in Editions /\ c.materials.profiles \in Editions
    BY <1>10, <1>11, <1>19 DEF MoveNormalized, Running, Materials
  <2>2. package' \in Package
    BY <1>1, <1>11, <1>19, <2>1, SMT DEF MoveNormalized, Package, DatabaseType
  <2>3. /\ script' \in Ended
        /\ \/ UNCHANGED failures
           \/ failures < MaxFailures /\ failures' = failures + 1
    BY <1>17, <1>19 DEF MoveNormalized
  <2> QED BY <1>1, <1>2, <1>19, <2>2, <2>3 DEF MoveNormalized, DatabaseType, Grown
<1>20. CASE StopScript
  BY <1>1, <1>2, <1>17, <1>20 DEF StopScript, DatabaseType, Grown
<1> QED BY <1>4, <1>7, <1>8, <1>9, <1>14, <1>15, <1>16, <1>18, <1>19, <1>20 DEF ScriptStep

-----------------------------------------------------------------------------
\* A request keeps its shape from statement to statement.
LEMMA NextReading ==
  ASSUME NEW r \in Reading, NEW n \in Commits
  PROVE  /\ [r EXCEPT !.pc = "nodes"] \in Reading
         /\ [r EXCEPT !.pc = "materials", !.nodes = n] \in Reading
         /\ [r EXCEPT !.pc = "store", !.materials = n] \in Reading
<1>1. [r EXCEPT !.pc = "nodes"] \in Reading
  BY SMT DEF Reading
<1>2. PICK a : a = [r EXCEPT !.pc = "materials"]
  OBVIOUS
<1>3. a \in Reading
  BY <1>2, SMT DEF Reading
<1>4. [a EXCEPT !.nodes = n] \in Reading
  BY <1>3, SMT DEF Reading
<1>5. PICK b : b = [r EXCEPT !.pc = "store"]
  OBVIOUS
<1>6. b \in Reading
  BY <1>5, SMT DEF Reading
<1>7. [b EXCEPT !.materials = n] \in Reading
  BY <1>6, SMT DEF Reading
<1>8. /\ [r EXCEPT !.pc = "materials", !.nodes = n] = [a EXCEPT !.nodes = n]
      /\ [r EXCEPT !.pc = "store", !.materials = n] = [b EXCEPT !.materials = n]
  BY <1>2, <1>5, Zenon
<1> QED BY <1>1, <1>4, <1>7, <1>8

LEMMA RequestTypes ==
  ASSUME CatalogTypeOK, NEW t \in Readers, RequestStep(t)
  PROVE  CatalogTypeOK' /\ UNCHANGED <<database, releases>>
<1> USE CommitsAssumption
<1>1. /\ DatabaseType /\ WorkbenchType /\ ReleaseType /\ failures \in 0..MaxFailures
      /\ failures \in Nat
  BY Types, SMT
<1>2. ASSUME WorkbenchType', UNCHANGED database, UNCHANGED releases,
             \/ UNCHANGED failures
             \/ failures < MaxFailures /\ failures' = failures + 1
      PROVE  CatalogTypeOK' /\ UNCHANGED <<database, releases>>
  <2>1. DatabaseType' /\ ReleaseType'
    BY <1>1, <1>2 DEF DatabaseType, ReleaseType, database, releases
  <2>2. failures' \in 0..MaxFailures
    BY <1>1, <1>2, SMT
  <2> QED BY <1>2, <2>1, <2>2, Types DEF CatalogTypeOK, DatabaseType, WorkbenchType, ReleaseType
<1>3. PICK r : r = request[t]
  OBVIOUS
<1>4. r # Quiet => r \in Reading
  BY <1>1, <1>3 DEF WorkbenchType
<1>5. ASSUME NEW n \in Reading \cup {Quiet}, request' = [request EXCEPT ![t] = n]
      PROVE  request' \in [Readers -> Reading \cup {Quiet}]
  BY <1>1, <1>5 DEF WorkbenchType
<1>6. ASSUME NEW ofPage \in BOOLEAN, Request(t, ofPage)
      PROVE  request' \in [Readers -> Reading \cup {Quiet}]
  <2>1. PICK v : v = Current.revision
    OBVIOUS
  <2>2. v \in Revisions /\ 1 \in Commits
    BY <1>1, <2>1, CurrentType, SMT DEF Commits
  <2>3. PICK n : n = [pc |-> "cache", revision |-> v, nodes |-> 1, materials |-> 1,
                      ofPage |-> ofPage]
    OBVIOUS
  <2>4. n \in Reading
    BY <2>2, <2>3, SMT DEF Reading
  <2> QED BY <1>5, <1>6, <2>1, <2>3, <2>4 DEF Request
<1>7. PICK p : p = page
  OBVIOUS
<1>8. p \in Page
  BY <1>1, <1>7 DEF WorkbenchType
<1>9. ASSUME NEW index \in Index, Shown(t, index)
      PROVE  page' \in Page
  <2>1. PICK a : a = [p EXCEPT !.pc = "idle"]
    OBVIOUS
  <2>2. a \in Page
    BY <1>8, <2>1, SMT DEF Page
  <2>3. [a EXCEPT !.tree = index] \in Page
    BY <2>2, SMT DEF Page
  <2>4. [p EXCEPT !.pc = "idle", !.tree = index] = [a EXCEPT !.tree = index]
    BY <2>1, Zenon
  <2> QED BY <1>7, <1>8, <1>9, <2>3, <2>4 DEF Shown
<1>10. Quiet \in Reading \cup {Quiet}
  OBVIOUS
<1>11. CASE Ask(t)
  <2>1. WorkbenchType'
    BY <1>1, <1>6, <1>11 DEF Ask, WorkbenchType
  <2> QED BY <1>2, <1>11, <2>1 DEF Ask
<1>12. CASE OpenPage(t)
  <2>1. page' \in Page
    BY <1>12, SMT DEF OpenPage, Page
  <2>2. WorkbenchType'
    BY <1>1, <1>6, <1>12, <2>1 DEF OpenPage, WorkbenchType
  <2> QED BY <1>2, <1>12, <2>2 DEF OpenPage
<1>13. CASE Refresh(t)
  <2>1. page' = [p EXCEPT !.pc = "load"]
    BY <1>7, <1>13 DEF Refresh
  <2>2. page' \in Page
    BY <1>8, <2>1, SMT DEF Page
  <2>3. WorkbenchType'
    BY <1>1, <1>6, <1>13, <2>2 DEF Refresh, WorkbenchType
  <2> QED BY <1>2, <1>13, <2>3 DEF Refresh
<1>14. CASE CacheHit(t)
  <2>1. cache \in Index
    BY <1>1, <1>14 DEF CacheHit, WorkbenchType
  <2>2. WorkbenchType'
    BY <1>1, <1>5, <1>9, <1>10, <1>14, <2>1 DEF CacheHit, WorkbenchType
  <2> QED BY <1>2, <1>14, <2>2 DEF CacheHit
<1>15. Now \in Commits
  BY <1>1, CurrentType
<1>16. CASE CacheMiss(t)
  <2>1. request' = [request EXCEPT ![t] = [r EXCEPT !.pc = "nodes"]] /\ r \in Reading
    BY <1>3, <1>4, <1>16 DEF CacheMiss
  <2>2. WorkbenchType'
    BY <1>1, <1>5, <1>15, <1>16, <2>1, NextReading DEF CacheMiss, WorkbenchType
  <2> QED BY <1>2, <1>16, <2>2 DEF CacheMiss
<1>17. CASE ReadNodes(t)
  <2>1. /\ request' = [request EXCEPT ![t] = [r EXCEPT !.pc = "materials", !.nodes = Now]]
        /\ r \in Reading
    BY <1>3, <1>4, <1>17 DEF ReadNodes
  <2>2. WorkbenchType'
    BY <1>1, <1>5, <1>15, <1>17, <2>1, NextReading DEF ReadNodes, WorkbenchType
  <2> QED BY <1>2, <1>17, <2>2 DEF ReadNodes
<1>18. CASE ReadMaterials(t)
  <2>1. /\ request' = [request EXCEPT ![t] = [r EXCEPT !.pc = "store", !.materials = Now]]
        /\ r \in Reading
    BY <1>3, <1>4, <1>18 DEF ReadMaterials
  <2>2. WorkbenchType'
    BY <1>1, <1>5, <1>15, <1>18, <2>1, NextReading DEF ReadMaterials, WorkbenchType
  <2> QED BY <1>2, <1>18, <2>2 DEF ReadMaterials
<1>19. CASE StoreIndex(t)
  <2>1. r \in Reading
    BY <1>3, <1>4, <1>19 DEF StoreIndex, Store
  <2>2. cache' \in Index
    BY <1>3, <1>19, <2>1, SMT DEF StoreIndex, Store, Index, Reading
  <2>3. page' \in Page
    BY <1>9, <1>19, <2>2 DEF StoreIndex, Store
  <2>4. WorkbenchType'
    BY <1>1, <1>5, <1>10, <1>19, <2>2, <2>3 DEF StoreIndex, Store, WorkbenchType
  <2> QED BY <1>2, <1>19, <2>4 DEF StoreIndex, Store
<1>20. CASE FailRequest(t)
  <2>1. [p EXCEPT !.pc = "closed"] \in Page
    BY <1>8, SMT DEF Page
  <2>2. [p EXCEPT !.pc = "idle", !.fresh = FALSE] \in Page
    <3>1. PICK a : a = [p EXCEPT !.pc = "idle"]
      OBVIOUS
    <3>2. a \in Page
      BY <1>8, <3>1, SMT DEF Page
    <3>3. [a EXCEPT !.fresh = FALSE] \in Page
      <4>1. PICK e \in BOOLEAN : e = FALSE
        OBVIOUS
      <4>2. [a EXCEPT !.fresh = e] \in Page
        BY <3>2, SMT DEF Page
      <4> QED BY <4>1, <4>2, Zenon
    <3>4. [p EXCEPT !.pc = "idle", !.fresh = FALSE] = [a EXCEPT !.fresh = FALSE]
      BY <3>1, Zenon
    <3> QED BY <3>3, <3>4
  <2>3. page' \in Page
    BY <1>7, <1>8, <1>20, <2>1, <2>2 DEF FailRequest
  <2>4. WorkbenchType'
    BY <1>1, <1>5, <1>10, <1>20, <2>3 DEF FailRequest, WorkbenchType
  <2> QED BY <1>2, <1>20, <2>4 DEF FailRequest
<1> QED BY <1>11, <1>12, <1>13, <1>14, <1>16, <1>17, <1>18, <1>19, <1>20 DEF RequestStep

LEMMA PollTypes ==
  ASSUME CatalogTypeOK, Poll
  PROVE  CatalogTypeOK' /\ UNCHANGED <<database, releases>>
<1>1. DatabaseType /\ WorkbenchType /\ ReleaseType /\ failures \in 0..MaxFailures
  BY Types
<1>2. PICK p : p = page
  OBVIOUS
<1>3. PICK v : v = Current.revision
  OBVIOUS
<1>4. p \in Page /\ v \in Revisions
  BY <1>1, <1>2, <1>3, CurrentType DEF WorkbenchType
<1>5. PICK a : a = [p EXCEPT !.pc = "refresh"]
  OBVIOUS
<1>6. PICK b : b = [a EXCEPT !.seen = v]
  OBVIOUS
<1>7. PICK c : c = [b EXCEPT !.tree = Unset]
  OBVIOUS
<1>8. a \in Page
  BY <1>4, <1>5, SMT DEF Page
<1>9. b \in Page /\ [p EXCEPT !.seen = v] \in Page
  BY <1>4, <1>6, <1>8, SMT DEF Page
<1>10. c \in Page
  BY <1>7, <1>9, SMT DEF Page
<1>11. [c EXCEPT !.fresh = TRUE] \in Page
  <2>1. PICK e \in BOOLEAN : e = TRUE
    OBVIOUS
  <2>2. [c EXCEPT !.fresh = e] \in Page
    BY <1>10, SMT DEF Page
  <2> QED BY <2>1, <2>2, Zenon
<1>12. [p EXCEPT !.pc = "refresh", !.seen = v, !.tree = Unset, !.fresh = TRUE]
         = [c EXCEPT !.fresh = TRUE]
  BY <1>5, <1>6, <1>7, Zenon
<1>13. page' \in Page
  BY <1>2, <1>3, <1>9, <1>11, <1>12 DEF Poll
<1>14. DatabaseType' /\ WorkbenchType' /\ ReleaseType'
  BY <1>1, <1>13 DEF Poll, DatabaseType, WorkbenchType, ReleaseType, database, releases
<1> QED BY <1>1, <1>14 DEF Poll, CatalogTypeOK, DatabaseType, WorkbenchType, ReleaseType

LEMMA ReleaseTypes ==
  ASSUME CatalogTypeOK, ReleaseStep
  PROVE  CatalogTypeOK' /\ UNCHANGED <<database, workbench>>
<1> USE CommitsAssumption
<1>1. DatabaseType /\ WorkbenchType /\ ReleaseType /\ failures \in 0..MaxFailures
  BY Types
<1>2. ASSUME ReleaseType', UNCHANGED database, UNCHANGED workbench, UNCHANGED failures
      PROVE  CatalogTypeOK' /\ UNCHANGED <<database, workbench>>
  <2>1. DatabaseType' /\ WorkbenchType'
    BY <1>1, <1>2 DEF DatabaseType, WorkbenchType, database, workbench
  <2> QED BY <1>1, <1>2, <2>1 DEF CatalogTypeOK, DatabaseType, WorkbenchType, ReleaseType
<1>3. PICK b : b = build
  OBVIOUS
<1>4. build.pc \in {"nodes", "placements", "built"} => b \in Build
  BY <1>1, <1>3 DEF ReleaseType, Quiet
<1>5. /\ Current.revision \in Revisions /\ Current.nodes \in Editions
      /\ Current.materials.placements \in Editions
  BY <1>1, CurrentType DEF Materials
<1>6. 0 \in Editions
  BY SMT DEF Editions
<1>7. ASSUME NEW apply \in BOOLEAN, StartBuild(apply)
      PROVE  CatalogTypeOK' /\ UNCHANGED <<database, workbench>>
  <2>1. build' \in Build
    BY <1>5, <1>6, <1>7, SMT DEF StartBuild, Build
  <2> QED BY <1>1, <1>2, <1>7, <2>1 DEF StartBuild, ReleaseType
<1>8. CASE BuildNodes
  <2>1. b \in Build
    BY <1>4, <1>8 DEF BuildNodes
  <2>2. PICK a : a = [b EXCEPT !.pc = "placements"]
    OBVIOUS
  <2>3. a \in Build
    BY <2>1, <2>2, SMT DEF Build
  <2>4. [a EXCEPT !.nodes = Current.nodes] \in Build
    BY <1>5, <2>3, SMT DEF Build
  <2>5. build' = [a EXCEPT !.nodes = Current.nodes]
    BY <1>3, <1>8, <2>2, Zenon DEF BuildNodes
  <2> QED BY <1>1, <1>2, <1>8, <2>4, <2>5 DEF BuildNodes, ReleaseType
<1>9. CASE BuildPlacements
  <2>1. b \in Build
    BY <1>4, <1>9 DEF BuildPlacements
  <2>2. PICK a : a = [b EXCEPT !.pc = "built"]
    OBVIOUS
  <2>3. a \in Build
    BY <2>1, <2>2, SMT DEF Build
  <2>4. [a EXCEPT !.placements = Current.materials.placements] \in Build
    BY <1>5, <2>3, SMT DEF Build
  <2>5. build' = [a EXCEPT !.placements = Current.materials.placements]
    BY <1>3, <1>9, <2>2, Zenon DEF BuildPlacements
  <2> QED BY <1>1, <1>2, <1>9, <2>4, <2>5 DEF BuildPlacements, ReleaseType
<1>10. build.pc = "built" => Built \in Release
  <2>1. SUFFICES ASSUME b \in Build PROVE Built \in Release
    BY <1>4
  <2>2. b.revision \in Revisions /\ b.nodes \in Editions /\ b.placements \in Editions
    BY <2>1, SMT DEF Build
  <2> QED BY <1>3, <2>2, SMT DEF Built, Release
<1>11. CASE ShowPlan
  BY <1>1, <1>2, <1>10, <1>11 DEF ShowPlan, ReleaseType
<1>12. CASE FreezeRelease
  BY <1>1, <1>2, <1>10, <1>12 DEF FreezeRelease, ReleaseType
<1> QED BY <1>7, <1>8, <1>9, <1>11, <1>12 DEF ReleaseStep

LEMMA Steps == CatalogNext => \/ ScriptStep \/ (\E t \in Readers : RequestStep(t))
                              \/ Poll \/ ReleaseStep
  BY DEF CatalogNext, ScriptStep, RequestStep, ReleaseStep

LEMMA TypesPreserved == CatalogTypeOK /\ [CatalogNext]_catalogVars => CatalogTypeOK'
<1> SUFFICES ASSUME CatalogTypeOK, [CatalogNext]_catalogVars PROVE CatalogTypeOK'
  OBVIOUS
<1>1. CASE CatalogNext
  BY <1>1, Steps, ScriptTypes, RequestTypes, PollTypes, ReleaseTypes
<1>2. CASE UNCHANGED catalogVars
  BY <1>2 DEF CatalogTypeOK, catalogVars
<1> QED BY <1>1, <1>2

\* Type correctness of the catalog, its files and everyone who reads them, for any
\* number of commits, threads and failures: no reader looks into a table that is not there.
THEOREM CatalogTypeCorrect == CatalogSpec => []CatalogTypeOK
<1>1. CatalogInit => CatalogTypeOK
  BY TypesInitially
<1>2. CatalogTypeOK /\ [CatalogNext]_catalogVars => CatalogTypeOK'
  BY TypesPreserved
<1> QED BY <1>1, <1>2, PTL DEF CatalogSpec

-----------------------------------------------------------------------------
(* What a commit leaves alone *)

LEMMA HistoryKept ==
  ASSUME DatabaseType, Grown
  PROVE  /\ DOMAIN history = 1..Now /\ DOMAIN history' = 1..Len(history')
         /\ Len(history') \in Nat /\ Now <= Len(history')
         /\ DOMAIN history \subseteq DOMAIN history'
         /\ \A i \in DOMAIN history : history'[i] = history[i]
         /\ Distinct' => Distinct
<1>1. history \in Seq(Committed) /\ Now \in Nat /\ DOMAIN history = 1..Now
  BY DEF DatabaseType, Now
<1>2. /\ DOMAIN history' = 1..Len(history') /\ Len(history') \in Nat
      /\ Now <= Len(history')
      /\ \A i \in DOMAIN history : history'[i] = history[i]
  <2>1. CASE history' = history
    BY <1>1, <2>1, SMT DEF Now
  <2>2. ASSUME NEW s \in Committed, history' = Append(history, s)
        PROVE  <1>2!1 /\ <1>2!2 /\ <1>2!3
    BY <1>1, <2>2, SMT DEF Now
  <2> QED BY <1>1, <2>1, <2>2, SMT DEF Grown, Now
<1>3. DOMAIN history \subseteq DOMAIN history'
  BY <1>1, <1>2, SMT
<1>4. Distinct' => Distinct
  BY <1>2, <1>3 DEF Distinct
<1> QED BY <1>1, <1>2, <1>3, <1>4

LEMMA CommitIsCurrent ==
  ASSUME DatabaseType, NEW s \in Committed, Commit(s)
  PROVE  Current' = s
BY SMT DEF DatabaseType, Commit, Current, Now

-----------------------------------------------------------------------------
(* Files and database *)

\* What the script that runs has already brought together.
FilesInv ==
    /\ FilesMatchDatabase
    /\ script \in Running =>
        /\ script.pc \in {"profiles", "placements"} => script.kind = "publish"
        /\ script.pc = "placements" => package.profiles = script.materials.profiles
        /\ script.pc \in {"select", "commit"} /\ script.kind # "normalize" =>
                InPackage = script.materials
        /\ script.pc = "move" => Holds(script.materials)

LEMMA FilesInitially == CatalogInit => FilesInv
<1> SUFFICES ASSUME CatalogInit PROVE FilesInv
  OBVIOUS
<1>1. script \notin Running
  BY DEF CatalogInit, EndedAs, Running
<1>2. PICK m : m = [profiles |-> 0, placements |-> 0]
  OBVIOUS
<1>3. PICK s : s = [revision |-> 1, nodes |-> 0, materials |-> m]
  OBVIOUS
<1>4. history = <<s>> /\ package.profiles = 0 /\ package.placements = 0
  BY <1>2, <1>3, Zenon DEF CatalogInit
<1>5. Current = s /\ InPackage = m
  BY <1>2, <1>4, SMT DEF Current, Now, InPackage
<1> QED BY <1>1, <1>3, <1>5 DEF FilesInv, FilesMatchDatabase, Holds

LEMMA FilesPreserved ==
  ASSUME CatalogTypeOK, CatalogTypeOK', FilesInv, ScriptStep
  PROVE  FilesInv'
<1>1. DatabaseType /\ DatabaseType'
  BY Types DEF CatalogTypeOK, DatabaseType
<1>2. /\ script \in Running => script \notin Ended
      /\ script' \in Running => script' \notin Ended
      /\ script.pc \notin {"completed", "stopped"} => script \in Running
      /\ EndedAs("stopped") # EndedAs("completed")
      /\ EndedAs("stopped") \in Ended /\ EndedAs("completed") \in Ended
  BY <1>1 DEF Running, Ended, EndedAs, DatabaseType
<1>3. ASSUME NEW rows \in 1..MaxRows, NEW tables \in SUBSET Tables \ {{}},
             Maintain(rows, tables)
      PROVE  FilesInv'
  <2>1. PICK s : s = Maintained(rows, tables, edition')
    OBVIOUS
  <2>2. /\ "profiles" \notin tables => s.materials.profiles = Current.materials.profiles
        /\ "placements" \notin tables => s.materials.placements = Current.materials.placements
    BY <2>1 DEF Maintained
  <2>3. s \in Committed /\ Commit(s)
    <3>1. edition' \in Editions
      BY <1>1 DEF DatabaseType
    <3> QED BY <1>1, <1>3, <2>1, <3>1, MaintainedType, Zenon DEF Maintain
  <2>4. Current' = s
    BY <1>1, <2>3, CommitIsCurrent
  <2>5. /\ InPackage' = InPackage /\ script' = script /\ package' = package
        /\ edited' = edited \cup (tables \ {"nodes"})
    BY <1>3 DEF Maintain, InPackage
  <2>6. Holds(InPackage) => Holds(InPackage)'
    BY <2>2, <2>4, <2>5 DEF Holds
  <2> QED BY <2>2, <2>4, <2>5, <2>6 DEF FilesInv, FilesMatchDatabase, Holds
<1>4. ASSUME NEW kind \in Kinds, NEW m, NEW n, NEW first,
             Begin(kind, first, m, n), UNCHANGED <<history, package>>,
             first = "profiles" => kind = "publish",
             first \in {"profiles", "select"},
             kind = "sync" => InPackage = m,
             first = "select" /\ kind = "publish" => FALSE
      PROVE  FilesInv'
  <2>1. script'.pc = first /\ script'.kind = kind /\ script'.materials = m
    BY <1>4 DEF Begin
  <2>2. script' # EndedAs("completed")
    BY <1>4, <2>1 DEF EndedAs
  <2>3. InPackage' = InPackage
    BY <1>4 DEF InPackage
  <2> QED BY <1>4, <2>1, <2>2, <2>3 DEF FilesInv, FilesMatchDatabase, Kinds
<1>5. CASE StartPublish
  <2>1. PICK m : Begin("publish", "profiles", m, edition')
    BY <1>5 DEF StartPublish, StartNew
  <2> QED BY <1>4, <1>5, <2>1, Zenon DEF StartPublish, StartNew, Kinds
<1>6. CASE StartNormalize
  <2>1. PICK m : Begin("normalize", "select", m, edition')
    BY <1>6 DEF StartNormalize, StartNew
  <2> QED BY <1>4, <1>6, <2>1, Zenon DEF StartNormalize, StartNew, Kinds
<1>7. CASE StartSync
  BY <1>4, <1>7, Zenon DEF StartSync, Kinds
<1>8. PICK c : c = script
  OBVIOUS
<1>9. c.pc \notin {"completed", "stopped"} =>
        /\ c \in Running /\ c.materials \in Materials
        /\ c.materials = [profiles |-> c.materials.profiles,
                          placements |-> c.materials.placements]
  BY <1>2, <1>8, SMT DEF Running, Materials
<1>10. package = [profiles |-> package.profiles, placements |-> package.placements,
                  extensions |-> package.extensions]
  BY <1>1, SMT DEF DatabaseType, Package
<1>11. CASE MoveProfiles
  <2>1. c \in Running /\ c.pc = "profiles" /\ c.kind = "publish"
    BY <1>8, <1>9, <1>11 DEF MoveProfiles, FilesInv
  <2>2. PICK d : d = [c EXCEPT !.pc = "placements"]
    OBVIOUS
  <2>3. d.pc = "placements" /\ d.materials = c.materials /\ d.kind = c.kind
    BY <2>1, <2>2, SMT DEF Running
  <2>4. script' = d /\ package' = [package EXCEPT !.profiles = c.materials.profiles]
    BY <1>8, <1>11, <2>2 DEF MoveProfiles
  <2>5. package'.profiles = c.materials.profiles
    BY <1>10, <2>4, SMT
  <2>6. script' # EndedAs("completed")
    BY <2>3, <2>4 DEF EndedAs
  <2> QED BY <2>1, <2>3, <2>4, <2>5, <2>6 DEF FilesInv, FilesMatchDatabase
<1>12. CASE MovePlacements
  <2>1. /\ c \in Running /\ c.pc = "placements" /\ c.kind = "publish"
        /\ package.profiles = c.materials.profiles
    BY <1>8, <1>9, <1>12 DEF MovePlacements, FilesInv
  <2>2. PICK d : d = [c EXCEPT !.pc = "select"]
    OBVIOUS
  <2>3. d.pc = "select" /\ d.materials = c.materials /\ d.kind = c.kind
    BY <2>1, <2>2, SMT DEF Running
  <2>4. script' = d /\ package' = [package EXCEPT !.placements = c.materials.placements]
    BY <1>8, <1>12, <2>2 DEF MovePlacements
  <2>5. package'.profiles = c.materials.profiles /\ package'.placements = c.materials.placements
    BY <1>10, <2>1, <2>4, SMT
  <2>6. InPackage' = c.materials
    BY <1>9, <2>1, <2>5 DEF InPackage
  <2>7. script' # EndedAs("completed")
    BY <2>3, <2>4 DEF EndedAs
  <2> QED BY <2>1, <2>3, <2>4, <2>6, <2>7 DEF FilesInv, FilesMatchDatabase
<1>13. CASE SelectRevision
  <2>1. c \in Running /\ c.pc = "select"
    BY <1>8, <1>9, <1>13 DEF SelectRevision
  <2>2. PICK d : d = [c EXCEPT !.pc = "commit", !.revision = Current.revision]
    OBVIOUS
  <2>3. d.pc = "commit" /\ d.materials = c.materials /\ d.kind = c.kind
    BY <2>1, <2>2, SMT DEF Running
  <2>4. script' = d /\ package' = package /\ history' = history /\ InPackage' = InPackage
    BY <1>8, <1>13, <2>2 DEF SelectRevision, InPackage
  <2>5. script' # EndedAs("completed")
    BY <2>3, <2>4 DEF EndedAs
  <2> QED BY <1>8, <2>1, <2>3, <2>4, <2>5 DEF FilesInv, FilesMatchDatabase
<1>14. CASE CommitScript
  <2>1. c \in Running /\ c.pc = "commit"
    BY <1>8, <1>9, <1>14 DEF CommitScript
  <2>2. Current' = Replaced
    BY <1>1, <1>14, SMT DEF CommitScript, DatabaseType, Commit, Current, Now
  <2>3. Current'.materials = c.materials
    BY <1>8, <2>2 DEF Replaced
  <2>4. InPackage' = InPackage
    BY <1>14 DEF CommitScript, EndCommit, InPackage
  <2>5. CASE c.kind = "normalize"
    <3>1. PICK d : d = [c EXCEPT !.pc = "move"]
      OBVIOUS
    <3>2. d.pc = "move" /\ d.materials = c.materials
      BY <2>1, <3>1, SMT DEF Running
    <3>3. script' = d
      BY <1>8, <1>14, <2>5, <3>1 DEF CommitScript, EndCommit
    <3>4. script' # EndedAs("completed")
      BY <3>2, <3>3 DEF EndedAs
    <3> QED BY <2>3, <3>2, <3>3, <3>4 DEF FilesInv, FilesMatchDatabase, Holds
  <2>6. CASE c.kind # "normalize"
    <3>1. script' = EndedAs("completed")
      BY <1>8, <1>14, <2>6 DEF CommitScript, EndCommit
    <3>2. script' \notin Running
      BY <1>2, <3>1
    <3>3. InPackage = c.materials
      BY <1>8, <2>1, <2>6 DEF FilesInv
    <3> QED BY <2>3, <2>4, <3>2, <3>3 DEF FilesInv, FilesMatchDatabase, Holds
  <2> QED BY <2>5, <2>6
<1>15. CASE MoveNormalized
  <2>1. /\ c \in Running /\ Holds(c.materials)
        /\ history' = history /\ edited' = edited
    BY <1>8, <1>9, <1>15 DEF MoveNormalized, FilesInv
  <2>2. script' \in Ended
    BY <1>2, <1>15 DEF MoveNormalized
  <2>3. script' \notin Running
    BY <1>2, <2>2
  <2>4. ASSUME script' = EndedAs("completed") PROVE Holds(InPackage)'
    <3>1. /\ package'.placements = c.materials.placements
          /\ package'.profiles = c.materials.profiles
      BY <1>2, <1>8, <1>15, <2>4 DEF MoveNormalized
    <3>2. InPackage' = c.materials
      BY <1>9, <1>8, <1>15, <3>1 DEF InPackage, MoveNormalized
    <3>3. Current' = Current
      BY <2>1 DEF Current, Now
    <3> QED BY <2>1, <3>2, <3>3 DEF Holds
  <2> QED BY <2>3, <2>4 DEF FilesInv, FilesMatchDatabase
<1>16. CASE StopScript
  BY <1>2, <1>16 DEF StopScript, FilesInv, FilesMatchDatabase
<1> QED BY <1>3, <1>5, <1>6, <1>7, <1>11, <1>12, <1>13, <1>14, <1>15, <1>16 DEF ScriptStep

\* Files and database hold the same materials when a script has completed, wherever
\* earlier scripts were stopped, but for the tables that maintenance in SQL has changed
\* since the last transaction of a script.
THEOREM FilesMatch == CatalogSpec => []FilesMatchDatabase
<1>1. CatalogInit => CatalogTypeOK /\ FilesInv
  BY TypesInitially, FilesInitially
<1>2. CatalogTypeOK /\ FilesInv /\ [CatalogNext]_catalogVars => (CatalogTypeOK /\ FilesInv)'
  <2> SUFFICES ASSUME CatalogTypeOK, FilesInv, [CatalogNext]_catalogVars
               PROVE  (CatalogTypeOK /\ FilesInv)'
    OBVIOUS
  <2>1. CatalogTypeOK'
    BY TypesPreserved
  <2>2. CASE ScriptStep
    BY <2>1, <2>2, FilesPreserved
  <2>3. ASSUME UNCHANGED database PROVE FilesInv'
    BY <2>3 DEF database, FilesInv, FilesMatchDatabase, Holds, InPackage, Current, Now
  <2>4. CASE UNCHANGED catalogVars
    BY <2>1, <2>3, <2>4 DEF catalogVars, database
  <2>5. CASE \E t \in Readers : RequestStep(t)
    BY <2>1, <2>3, <2>5, RequestTypes
  <2>6. CASE Poll \/ ReleaseStep
    BY <2>1, <2>3, <2>6, PollTypes, ReleaseTypes
  <2> QED BY <2>2, <2>4, <2>5, <2>6, Steps
<1>3. FilesInv => FilesMatchDatabase
  BY DEF FilesInv
<1> QED BY <1>1, <1>2, <1>3, PTL DEF CatalogSpec

-----------------------------------------------------------------------------
(* The release that is applied *)

\* x was put together from three of the first n commits, none older than the one before.
Mixed(h, n, x) ==
    \E i, j, k \in 1..n :
        /\ i <= j /\ j <= k
        /\ x.revision = h[i].revision /\ x.nodes = h[j].nodes
        /\ x.placements = h[k].materials.placements

\* What a build has read so far.
Begun(h, n, b) ==
    \E i, j, k \in 1..n :
        /\ i <= j /\ j <= k
        /\ b.revision = h[i].revision
        /\ b.pc # "nodes" => b.nodes = h[j].nodes
        /\ b.pc = "built" => b.placements = h[k].materials.placements

\* An apply has begun after its plan was complete.
After(h, n, b, x) ==
    x # Unset /\ \E l \in 1..n : b.revision = h[l].revision /\ Mixed(h, l, x)

InHistory(h, x) == \E i \in 1..Len(h) : ReleaseOf(h[i]) = x

AppliedInv ==
    /\ planned # Unset => Mixed(history, Now, planned)
    /\ build # Quiet => Begun(history, Now, build)
    /\ build # Quiet /\ build.apply => After(history, Now, build, planned)
    /\ Distinct /\ applied # Unset => InHistory(history, applied)

LEMMA AppliedInitially == CatalogInit => AppliedInv
  BY DEF CatalogInit, AppliedInv

\* Commits that were read stay where they are.
LEMMA AppliedKept ==
  ASSUME DatabaseType, Grown, UNCHANGED releases, AppliedInv
  PROVE  AppliedInv'
<1>1. PICK n : n = Now
  OBVIOUS
<1>2. PICK m : m = Len(history')
  OBVIOUS
<1>3. PICK h : h = history
  OBVIOUS
<1>4. PICK g : g = history'
  OBVIOUS
<1>5. /\ n \in Nat /\ m \in Nat /\ n <= m
      /\ \A i \in 1..n : g[i] = h[i]
      /\ Distinct' => Distinct
  BY <1>1, <1>2, <1>3, <1>4, HistoryKept, CurrentType
<1>6. ASSUME NEW x, NEW l \in 1..n, Mixed(h, l, x) PROVE Mixed(g, l, x)
  <2>1. \A i \in 1..l : i \in 1..n
    BY <1>5, SMT
  <2> QED BY <1>5, <1>6, <2>1 DEF Mixed
<1>7. 1..n \subseteq 1..m
  BY <1>5, SMT
<1>8. ASSUME NEW x, Mixed(h, n, x) PROVE Mixed(g, m, x)
  BY <1>5, <1>7, <1>8 DEF Mixed
<1>9. ASSUME NEW b, Begun(h, n, b) PROVE Begun(g, m, b)
  BY <1>5, <1>7, <1>9 DEF Begun
<1>10. ASSUME NEW b, NEW x, After(h, n, b, x) PROVE After(g, m, b, x)
  BY <1>5, <1>6, <1>7, <1>10 DEF After
<1>11. ASSUME NEW x, InHistory(h, x) PROVE InHistory(g, x)
  BY <1>1, <1>2, <1>3, <1>4, <1>5, <1>7, <1>11 DEF InHistory, Now
<1>12. planned' = planned /\ build' = build /\ applied' = applied
  BY DEF releases
<1> QED BY <1>1, <1>2, <1>3, <1>4, <1>5, <1>8, <1>9, <1>10, <1>11, <1>12 DEF AppliedInv, Now

LEMMA AppliedPreserved ==
  ASSUME CatalogTypeOK, AppliedInv, ReleaseStep
  PROVE  AppliedInv'
<1>1. /\ DatabaseType /\ ReleaseType /\ UNCHANGED database
  BY Types, ReleaseTypes DEF database
<1>2. history' = history /\ Now' = Now /\ (Distinct' <=> Distinct)
  BY <1>1 DEF database, Now, Distinct
<1>3. /\ Now \in Nat \ {0} /\ Now \in 1..Now
      /\ \A i \in 1..Now : i <= Now /\ i \in Nat
  BY <1>1, CurrentType, SMT
<1>4. PICK b : b = build
  OBVIOUS
<1>5. build.pc \in {"nodes", "placements", "built"} => b \in Build /\ b # Quiet /\ Begun(history, Now, b)
  BY <1>1, <1>4 DEF ReleaseType, Quiet, AppliedInv
<1>6. Quiet = [pc |-> "quiet"]
  BY DEF Quiet
<1>7. ASSUME NEW apply \in BOOLEAN, StartBuild(apply) PROVE AppliedInv'
  <2>1. PICK c : c = [pc |-> "nodes", revision |-> Current.revision, nodes |-> 0,
                      placements |-> 0, apply |-> apply]
    OBVIOUS
  <2>2. build' = c /\ planned' = planned /\ applied' = applied
    BY <1>7, <2>1 DEF StartBuild
  <2>3. c.pc = "nodes" /\ c.revision = history[Now].revision /\ c.apply = apply
    BY <2>1 DEF Current
  <2>4. Begun(history, Now, c)
    BY <1>3, <2>3 DEF Begun
  <2>5. apply => After(history, Now, c, planned)
    BY <1>3, <1>7, <2>3 DEF After, StartBuild, AppliedInv
  <2> QED BY <1>2, <2>2, <2>3, <2>4, <2>5 DEF AppliedInv
<1>8. ASSUME NEW c, c.revision = b.revision, c.apply = b.apply, b # Quiet,
             Begun(history, Now, c), build' = c, UNCHANGED <<planned, applied>>
      PROVE  AppliedInv'
  BY <1>2, <1>4, <1>8 DEF AppliedInv, After
<1>9. CASE BuildNodes
  <2>1. b \in Build /\ b # Quiet /\ Begun(history, Now, b)
    BY <1>5, <1>9 DEF BuildNodes
  <2>2. PICK c : c = [b EXCEPT !.pc = "placements", !.nodes = Current.nodes]
    OBVIOUS
  <2>3. /\ c.pc = "placements" /\ c.nodes = history[Now].nodes
        /\ c.revision = b.revision /\ c.apply = b.apply
    BY <2>1, <2>2, SMT DEF Build, Current
  <2>4. PICK i \in 1..Now : b.revision = history[i].revision
    BY <2>1 DEF Begun
  <2>5. Begun(history, Now, c)
    BY <1>3, <2>3, <2>4 DEF Begun
  <2> QED BY <1>4, <1>8, <1>9, <2>1, <2>2, <2>3, <2>5 DEF BuildNodes
<1>10. CASE BuildPlacements
  <2>1. b \in Build /\ b # Quiet /\ Begun(history, Now, b) /\ b.pc = "placements"
    BY <1>4, <1>5, <1>10 DEF BuildPlacements
  <2>2. PICK c : c = [b EXCEPT !.pc = "built", !.placements = Current.materials.placements]
    OBVIOUS
  <2>3. /\ c.pc = "built" /\ c.nodes = b.nodes /\ c.placements = history[Now].materials.placements
        /\ c.revision = b.revision /\ c.apply = b.apply
    BY <2>1, <2>2, SMT DEF Build, Current
  <2>4. PICK i, j \in 1..Now : i <= j /\ b.revision = history[i].revision /\ b.nodes = history[j].nodes
    BY <2>1 DEF Begun
  <2>5. Begun(history, Now, c)
    BY <1>3, <2>3, <2>4 DEF Begun
  <2> QED BY <1>4, <1>8, <1>10, <2>1, <2>2, <2>3, <2>5 DEF BuildPlacements
<1>11. build.pc = "built" =>
         /\ Built.revision = b.revision /\ Built.nodes = b.nodes
         /\ Built.placements = b.placements
         /\ Mixed(history, Now, Built)
  <2>1. /\ Built.revision = b.revision /\ Built.nodes = b.nodes
        /\ Built.placements = b.placements
    BY <1>4 DEF Built
  <2> QED BY <1>4, <1>5, <2>1 DEF Begun, Mixed
<1>12. CASE ShowPlan
  <2>1. planned' = Built /\ build' = Quiet /\ applied' = applied /\ build.pc = "built"
    BY <1>12 DEF ShowPlan
  <2> QED BY <1>2, <1>11, <2>1 DEF AppliedInv
<1>13. CASE FreezeRelease
  <2>1. build' = Quiet /\ planned' = planned /\ build.pc = "built" /\ build.apply
    BY <1>13 DEF FreezeRelease
  <2>2. CASE Built # planned
    BY <1>2, <1>13, <2>1, <2>2 DEF AppliedInv, FreezeRelease
  <2>3. CASE Built = planned
    <3>1. PICK x : x = Built
      OBVIOUS
    <3>2. applied' = x
      BY <1>13, <2>3, <3>1 DEF FreezeRelease
    <3>3. After(history, Now, b, x)
      BY <1>4, <1>5, <2>1, <2>3, <3>1 DEF AppliedInv
    <3>4. PICK l \in 1..Now : x.revision = history[l].revision /\ Mixed(history, l, x)
      BY <1>11, <2>1, <3>1, <3>3 DEF After
    <3>5. PICK i, j, k \in 1..l :
            /\ i <= j /\ j <= k
            /\ x.revision = history[i].revision /\ x.nodes = history[j].nodes
            /\ x.placements = history[k].materials.placements
      BY <3>4 DEF Mixed
    <3>6. i \in 1..Now
      BY <1>3, SMT
    <3>7. ASSUME Distinct PROVE InHistory(history, x)
      <4>1. DOMAIN history = 1..Now
        BY <1>1 DEF DatabaseType, Now
      <4>2. i = l
        BY <3>4, <3>5, <3>6, <3>7, <4>1 DEF Distinct
      <4>3. j = l /\ k = l
        BY <1>3, <3>5, <4>2, SMT
      <4>4. x = [revision |-> b.revision, nodes |-> b.nodes, placements |-> b.placements]
        BY <1>4, <3>1 DEF Built
      <4>5. /\ x.revision = history[l].revision /\ x.nodes = history[l].nodes
            /\ x.placements = history[l].materials.placements
        BY <3>4, <3>5, <4>3
      <4>6. x = ReleaseOf(history[l])
        BY <4>4, <4>5 DEF ReleaseOf
      <4> QED BY <4>6 DEF InHistory, Now
    <3> QED BY <1>2, <2>1, <3>2, <3>7 DEF AppliedInv
  <2> QED BY <2>2, <2>3
<1> QED BY <1>7, <1>9, <1>10, <1>12, <1>13 DEF ReleaseStep

\* A release that mixes states of the catalog is never applied: the hash that was confirmed
\* is built a second time only from one committed state.
THEOREM OnlyCommittedIsApplied == CatalogSpec => []AppliedIsCommitted
<1>1. CatalogInit => CatalogTypeOK /\ AppliedInv
  BY TypesInitially, AppliedInitially
<1>2. CatalogTypeOK /\ AppliedInv /\ [CatalogNext]_catalogVars => (CatalogTypeOK /\ AppliedInv)'
  <2> SUFFICES ASSUME CatalogTypeOK, AppliedInv, [CatalogNext]_catalogVars
               PROVE  (CatalogTypeOK /\ AppliedInv)'
    OBVIOUS
  <2>1. CatalogTypeOK' /\ DatabaseType
    BY TypesPreserved, Types
  <2>2. ASSUME ScriptStep PROVE AppliedInv'
    <3>1. UNCHANGED releases
      BY <2>2 DEF ScriptStep, Maintain, StartPublish, StartNormalize, StartSync, StartNew,
                  MoveProfiles, MovePlacements, SelectRevision, CommitScript, EndCommit,
                  MoveNormalized, StopScript
    <3> QED BY <2>1, <2>2, <3>1, ScriptTypes, AppliedKept
  <2>3. ASSUME Poll \/ \E t \in Readers : RequestStep(t) PROVE AppliedInv'
    <3>1. UNCHANGED <<database, releases>>
      BY <2>3, RequestTypes, PollTypes
    <3> QED BY <2>1, <3>1, AppliedKept DEF Grown, database
  <2>4. CASE UNCHANGED catalogVars
    BY <2>1, <2>4, AppliedKept DEF Grown, catalogVars, releases
  <2> QED BY <2>1, <2>2, <2>3, <2>4, AppliedPreserved, Steps
<1>3. CatalogTypeOK /\ AppliedInv => AppliedIsCommitted
  BY Types DEF DatabaseType, AppliedInv, AppliedIsCommitted, InHistory
<1> QED BY <1>1, <1>2, <1>3, PTL DEF CatalogSpec

-----------------------------------------------------------------------------
(* The page that follows the revision *)

\* An index holds no table from before the revision it is asked for under.
Sound(h, v, x) ==
    \E i \in 1..Len(h) : h[i].revision = v /\ x.nodes >= i /\ x.materials >= i

\* Neither will the one a request is about to store.
Started(h, q) ==
    \E i \in 1..Len(h) : /\ h[i].revision = q.revision
                         /\ q.pc \in {"materials", "store"} => q.nodes >= i
                         /\ q.pc = "store" => q.materials >= i

\* The revision w was committed no earlier than v.
Follows(h, v, w) ==
    \E i, j \in 1..Len(h) : i <= j /\ h[i].revision = v /\ h[j].revision = w

OfPage(q) == q # Quiet /\ q.ofPage

PageInv ==
    /\ cache # Unset => Sound(history, cache.revision, cache)
    /\ \A t \in Readers : request[t] # Quiet => Started(history, request[t])
    /\ \A t \in Readers : OfPage(request[t]) =>
          /\ page.pc = "load"
          /\ page.fresh => Follows(history, page.seen, request[t].revision)
    /\ \A t, u \in Readers : OfPage(request[t]) /\ OfPage(request[u]) => t = u
    /\ page.fresh => page.seen # Unset
    /\ page.pc = "refresh" => Follows(history, page.seen, page.seen)
    /\ Distinct /\ page.pc = "idle" /\ page.fresh => Sound(history, page.seen, page.tree)

LEMMA PageInitially == CatalogInit => PageInv
  BY DEF CatalogInit, PageInv, OfPage

LEMMA PageKept ==
  ASSUME DatabaseType, Grown, UNCHANGED workbench, PageInv
  PROVE  PageInv'
<1>1. /\ DOMAIN history = 1..Len(history) /\ DOMAIN history' = 1..Len(history')
      /\ \A i \in 1..Len(history) : i \in 1..Len(history') /\ history'[i] = history[i]
  BY HistoryKept DEF Now
<1>2. ASSUME NEW v, NEW x, Sound(history, v, x) PROVE Sound(history', v, x)
  BY <1>1, <1>2 DEF Sound
<1>3. ASSUME NEW q, Started(history, q) PROVE Started(history', q)
  BY <1>1, <1>3 DEF Started
<1>4. ASSUME NEW v, NEW w, Follows(history, v, w) PROVE Follows(history', v, w)
  BY <1>1, <1>4 DEF Follows
<1>5. cache' = cache /\ request' = request /\ page' = page /\ (Distinct' => Distinct)
  BY HistoryKept DEF workbench
<1> QED BY <1>2, <1>3, <1>4, <1>5 DEF PageInv

LEMMA PagePreserved ==
  ASSUME CatalogTypeOK, PageInv, NEW t \in Readers, RequestStep(t)
  PROVE  PageInv'
<1>1. /\ DatabaseType /\ WorkbenchType /\ history' = history
      /\ Distinct' => Distinct
  BY Types, RequestTypes DEF database, Distinct
<1>2. /\ Now \in Commits /\ Now = Len(history) /\ Now \in 1..Len(history)
      /\ \A i \in 1..Len(history) : i \in Nat /\ i <= Now
      /\ Current = history[Now] /\ Current.revision \in Revisions
  BY <1>1, CurrentType, SMT DEF Now, Current
<1>3. PICK r : r = request[t]
  OBVIOUS
<1>4. PICK p : p = page
  OBVIOUS
<1>5. /\ r # Quiet => r \in Reading /\ Started(history, r)
      /\ p \in Page
  BY <1>1, <1>3, <1>4 DEF WorkbenchType, PageInv
<1>6. Unset \notin Revisions
  BY CommitsAssumption, SMT DEF Revisions
\* A thread goes on, and the page is left as it is.
<1>7. ASSUME NEW n, request' = [request EXCEPT ![t] = n], UNCHANGED <<cache, page>>,
             n # Quiet => Started(history, n),
             OfPage(n) => OfPage(r) /\ n.revision = r.revision
      PROVE  PageInv'
  <2>1. \A u \in Readers : request'[u] = IF u = t THEN n ELSE request[u]
    BY <1>1, <1>7 DEF WorkbenchType
  <2>2. \A u \in Readers : OfPage(request'[u]) =>
          OfPage(request[u]) /\ request'[u].revision = request[u].revision
    BY <1>3, <1>7, <2>1
  <2>3. \A u \in Readers : request'[u] # Quiet => Started(history, request'[u])
    BY <1>7, <2>1 DEF PageInv
  <2> QED BY <1>1, <1>7, <2>2, <2>3 DEF PageInv
\* A thread answers with an index, and the page shows it if it is the page's.
<1>8. ASSUME NEW x \in Index, Sound(history, x.revision, x), x.revision = r.revision, r # Quiet,
             Shown(t, x), request' = [request EXCEPT ![t] = Quiet],
             cache' = x
      PROVE  PageInv'
  <2>1. \A u \in Readers : request'[u] = IF u = t THEN Quiet ELSE request[u]
    BY <1>1, <1>8 DEF WorkbenchType
  <2>2. \A u \in Readers : request'[u] # Quiet =>
          request'[u] = request[u] /\ Started(history, request'[u]) /\ u # t
    BY <2>1 DEF PageInv
  <2>3. cache' # Unset => Sound(history', cache'.revision, cache')
    BY <1>1, <1>8
  <2>4. CASE ~r.ofPage
    <3>1. page' = page
      BY <1>3, <1>8, <2>4 DEF Shown
    <3> QED BY <1>1, <2>2, <2>3, <3>1 DEF PageInv, OfPage
  <2>5. CASE r.ofPage
    <3>1. PICK a : a = [p EXCEPT !.pc = "idle", !.tree = x]
      OBVIOUS
    <3>2. page' = a
      BY <1>3, <1>4, <1>8, <2>5, <3>1 DEF Shown
    <3>3. a.pc = "idle" /\ a.tree = x /\ a.seen = p.seen /\ a.fresh = p.fresh
      BY <1>5, <3>1, SMT DEF Page
    <3>4. OfPage(request[t])
      BY <1>3, <1>8, <2>5 DEF OfPage
    <3>5. ASSUME Distinct, p.fresh PROVE Sound(history, p.seen, x)
      <4>1. Follows(history, p.seen, x.revision)
        BY <1>3, <1>4, <1>8, <3>4, <3>5 DEF PageInv
      <4>2. PICK i, j \in 1..Len(history) :
              i <= j /\ history[i].revision = p.seen /\ history[j].revision = x.revision
        BY <4>1 DEF Follows
      <4>3. PICK k \in 1..Len(history) :
              history[k].revision = x.revision /\ x.nodes >= k /\ x.materials >= k
        BY <1>8 DEF Sound
      <4>4. k = j
        BY <1>1, <3>5, <4>2, <4>3 DEF Distinct, DatabaseType
      <4>5. x.nodes \in Nat /\ x.materials \in Nat
        BY <1>8, SMT DEF Index, Commits
      <4>6. x.nodes >= i /\ x.materials >= i
        BY <1>2, <4>2, <4>3, <4>4, <4>5, SMT
      <4> QED BY <4>2, <4>6 DEF Sound
    <3>6. \A u \in Readers : ~OfPage(request'[u])
      BY <2>2, <3>4 DEF PageInv, OfPage
    <3>7. p.fresh => p.seen # Unset
      BY <1>4 DEF PageInv
    <3> QED BY <1>1, <1>8, <2>2, <2>3, <3>2, <3>3, <3>5, <3>6, <3>7 DEF PageInv
  <2> QED BY <2>4, <2>5
\* A thread starts, for the page or for someone else.
<1>9. ASSUME NEW ofPage \in BOOLEAN, Request(t, ofPage)
      PROVE  /\ r = Quiet
             /\ \A u \in Readers : u # t => request'[u] = request[u]
             /\ request'[t].revision = Current.revision /\ request'[t].ofPage = ofPage
             /\ \A u \in Readers : request'[u] # Quiet => Started(history, request'[u])
  <2>1. PICK n : n = [pc |-> "cache", revision |-> Current.revision, nodes |-> 1,
                      materials |-> 1, ofPage |-> ofPage]
    OBVIOUS
  <2>2. request' = [request EXCEPT ![t] = n] /\ r = Quiet
    BY <1>3, <1>9, <2>1 DEF Request
  <2>3. \A u \in Readers : request'[u] = IF u = t THEN n ELSE request[u]
    BY <1>1, <2>2 DEF WorkbenchType
  <2>4. n.pc = "cache" /\ n.revision = Current.revision /\ n.ofPage = ofPage
    BY <2>1
  <2>5. Started(history, n)
    BY <1>2, <2>4 DEF Started
  <2> QED BY <2>2, <2>3, <2>4, <2>5 DEF PageInv
<1>10. CASE Ask(t)
  <2>1. Request(t, FALSE) /\ cache' = cache /\ page' = page
    BY <1>10 DEF Ask
  <2>2. \A u \in Readers : OfPage(request'[u]) => u # t /\ request'[u] = request[u]
    BY <1>9, <2>1 DEF OfPage
  <2> QED BY <1>1, <1>9, <2>1, <2>2 DEF PageInv
\* The page starts to load: it has no other request.
<1>11. ASSUME Request(t, TRUE), page.pc # "load", UNCHANGED cache,
              page'.pc = "load",
              page'.fresh => page'.seen # Unset
                             /\ Follows(history, page'.seen, Current.revision)
       PROVE  PageInv'
  <2>1. \A u \in Readers : ~OfPage(request[u])
    BY <1>11 DEF PageInv
  <2>2. \A u \in Readers : OfPage(request'[u]) =>
          u = t /\ request'[u].revision = Current.revision
    BY <1>9, <1>11, <2>1
  <2> QED BY <1>1, <1>9, <1>11, <2>2 DEF PageInv
<1>12. CASE OpenPage(t)
  <2>1. /\ Request(t, TRUE) /\ page.pc # "load" /\ UNCHANGED cache
        /\ page'.pc = "load" /\ page'.fresh = FALSE
    BY <1>12 DEF OpenPage
  <2> QED BY <1>11, <2>1
<1>13. CASE Refresh(t)
  <2>1. Request(t, TRUE) /\ page.pc = "refresh" /\ UNCHANGED cache
    BY <1>13 DEF Refresh
  <2>2. page' = [p EXCEPT !.pc = "load"]
    BY <1>4, <1>13 DEF Refresh
  <2>3. page'.pc = "load" /\ page'.fresh = p.fresh /\ page'.seen = p.seen
    BY <1>5, <2>2, SMT DEF Page
  <2>4. p.fresh => p.seen # Unset
    BY <1>4 DEF PageInv
  <2>5. PICK i \in 1..Len(history) : history[i].revision = p.seen
    BY <1>4, <2>1 DEF PageInv, Follows
  <2>6. Follows(history, p.seen, Current.revision)
    BY <1>2, <2>5 DEF Follows
  <2> QED BY <1>11, <2>1, <2>3, <2>4, <2>6
<1>14. CASE CacheHit(t)
  <2>1. /\ cache \in Index /\ Sound(history, cache.revision, cache)
        /\ cache.revision = r.revision /\ r # Quiet
    BY <1>1, <1>3, <1>14 DEF CacheHit, WorkbenchType, PageInv
  <2>2. PICK x : x = cache
    OBVIOUS
  <2> QED BY <1>8, <1>14, <2>1, <2>2 DEF CacheHit
<1>15. CASE CacheMiss(t)
  <2>1. r # Quiet
    BY <1>3, <1>15 DEF CacheMiss
  <2>2. PICK n : n = [r EXCEPT !.pc = "nodes"]
    OBVIOUS
  <2>3. n.pc = "nodes" /\ n.revision = r.revision /\ n.ofPage = r.ofPage
    BY <1>5, <2>1, <2>2, SMT DEF Reading
  <2>4. Started(history, n)
    BY <1>5, <2>1, <2>3 DEF Started
  <2>5. request' = [request EXCEPT ![t] = n] /\ UNCHANGED <<cache, page>>
    BY <1>3, <1>15, <2>2 DEF CacheMiss
  <2> QED BY <1>7, <2>1, <2>3, <2>4, <2>5 DEF OfPage
<1>16. CASE ReadNodes(t)
  <2>1. r # Quiet
    BY <1>3, <1>16 DEF ReadNodes
  <2>2. PICK n : n = [r EXCEPT !.pc = "materials", !.nodes = Now]
    OBVIOUS
  <2>3. n.pc = "materials" /\ n.revision = r.revision /\ n.ofPage = r.ofPage /\ n.nodes = Now
    BY <1>5, <2>1, <2>2, SMT DEF Reading
  <2>4. PICK i \in 1..Len(history) : history[i].revision = r.revision
    BY <1>5, <2>1 DEF Started
  <2>5. Now >= i
    BY <1>2, SMT DEF Commits
  <2>6. Started(history, n)
    BY <2>3, <2>4, <2>5 DEF Started
  <2>7. request' = [request EXCEPT ![t] = n] /\ UNCHANGED <<cache, page>>
    BY <1>3, <1>16, <2>2 DEF ReadNodes
  <2> QED BY <1>7, <2>1, <2>3, <2>6, <2>7 DEF OfPage
<1>17. CASE ReadMaterials(t)
  <2>1. r # Quiet /\ r.pc = "materials"
    BY <1>3, <1>17 DEF ReadMaterials
  <2>2. PICK n : n = [r EXCEPT !.pc = "store", !.materials = Now]
    OBVIOUS
  <2>3. /\ n.pc = "store" /\ n.revision = r.revision /\ n.ofPage = r.ofPage
        /\ n.nodes = r.nodes /\ n.materials = Now
    BY <1>5, <2>1, <2>2, SMT DEF Reading
  <2>4. PICK i \in 1..Len(history) : history[i].revision = r.revision /\ r.nodes >= i
    BY <1>5, <2>1 DEF Started
  <2>5. Now >= i
    BY <1>2, SMT DEF Commits
  <2>6. Started(history, n)
    BY <2>3, <2>4, <2>5 DEF Started
  <2>7. request' = [request EXCEPT ![t] = n] /\ UNCHANGED <<cache, page>>
    BY <1>3, <1>17, <2>2 DEF ReadMaterials
  <2> QED BY <1>7, <2>1, <2>3, <2>6, <2>7 DEF OfPage
<1>18. CASE StoreIndex(t)
  <2>1. r # Quiet /\ r.pc = "store"
    BY <1>3, <1>18 DEF StoreIndex, Store
  <2>2. PICK x : x = [revision |-> r.revision, nodes |-> r.nodes, materials |-> r.materials]
    OBVIOUS
  <2>3. x \in Index
    BY <1>5, <2>1, <2>2, SMT DEF Index, Reading
  <2>4. x.revision = r.revision /\ x.nodes = r.nodes /\ x.materials = r.materials
    BY <2>2
  <2>5. Sound(history, x.revision, x)
    BY <1>5, <2>1, <2>4 DEF Sound, Started
  <2>6. cache' = x /\ Shown(t, x) /\ request' = [request EXCEPT ![t] = Quiet]
    BY <1>3, <1>18, <2>2 DEF StoreIndex, Store, Shown
  <2> QED BY <1>8, <2>1, <2>3, <2>4, <2>5, <2>6
<1>19. CASE FailRequest(t)
  <2>1. r # Quiet /\ request' = [request EXCEPT ![t] = Quiet] /\ cache' = cache
    BY <1>3, <1>19 DEF FailRequest
  <2>2. CASE ~r.ofPage
    BY <1>3, <1>7, <1>19, <2>1, <2>2 DEF FailRequest, OfPage
  <2>3. CASE r.ofPage
    <3>1. \A u \in Readers : request'[u] # Quiet => request'[u] = request[u] /\ u # t
      BY <1>1, <2>1 DEF WorkbenchType
    <3>2. OfPage(request[t])
      BY <1>3, <2>1, <2>3 DEF OfPage
    <3>3. \A u \in Readers : ~OfPage(request'[u])
      BY <3>1, <3>2 DEF PageInv, OfPage
    <3>4. p.fresh => p.seen # Unset
      BY <1>4 DEF PageInv
    <3>5. CASE p.seen = Unset
      <4>1. page' = [p EXCEPT !.pc = "closed"]
        BY <1>3, <1>4, <1>19, <2>3, <3>5 DEF FailRequest
      <4>2. page'.pc = "closed" /\ page'.fresh = p.fresh /\ page'.seen = p.seen
        BY <1>5, <4>1, SMT DEF Page
      <4> QED BY <1>1, <2>1, <3>1, <3>3, <3>4, <4>2 DEF PageInv
    <3>6. CASE p.seen # Unset
      <4>1. PICK a : a = [p EXCEPT !.pc = "idle"]
        OBVIOUS
      <4>2. a \in Page
        BY <1>5, <4>1, SMT DEF Page
      <4>3. page' = [a EXCEPT !.fresh = FALSE]
        BY <1>3, <1>4, <1>19, <2>3, <3>6, <4>1, Zenon DEF FailRequest
      <4>4. page'.fresh = FALSE
        BY <4>2, <4>3, Zenon DEF Page
      <4>5. page'.pc = "idle"
        BY <1>5, <4>1, <4>2, <4>3, SMT DEF Page
      <4> QED BY <1>1, <2>1, <3>1, <3>3, <4>4, <4>5 DEF PageInv
    <3> QED BY <3>5, <3>6
  <2> QED BY <2>2, <2>3
<1> QED BY <1>10, <1>12, <1>13, <1>14, <1>15, <1>16, <1>17, <1>18, <1>19 DEF RequestStep

LEMMA PollKept ==
  ASSUME CatalogTypeOK, PageInv, Poll
  PROVE  PageInv'
<1>1. /\ DatabaseType /\ WorkbenchType /\ history' = history
      /\ request' = request /\ cache' = cache /\ page.pc = "idle"
  BY Types, PollTypes DEF database, Poll
<1>2. PICK p : p = page
  OBVIOUS
<1>3. PICK v : v = Current.revision
  OBVIOUS
<1>4. p \in Page /\ v \in Revisions /\ Unset \notin Revisions
  BY <1>1, <1>2, <1>3, CurrentType, CommitsAssumption, SMT DEF WorkbenchType, Revisions
<1>5. \A u \in Readers : ~OfPage(request[u])
  BY <1>1 DEF PageInv
<1>6. CASE p.seen = Unset
  <2>1. page' = [p EXCEPT !.seen = v] /\ ~p.fresh
    BY <1>2, <1>3, <1>6 DEF Poll, PageInv
  <2>2. page'.pc = p.pc /\ page'.fresh = p.fresh
    BY <1>4, <2>1, SMT DEF Page
  <2> QED BY <1>1, <1>2, <1>5, <2>1, <2>2 DEF PageInv
<1>7. CASE p.seen # Unset
  <2>1. PICK a : a = [p EXCEPT !.pc = "refresh", !.seen = v, !.tree = Unset, !.fresh = TRUE]
    OBVIOUS
  <2>2. page' = a
    BY <1>2, <1>3, <1>7, <2>1 DEF Poll
  <2>3. a.pc = "refresh" /\ a.seen = v
    BY <1>4, <2>1, SMT DEF Page
  <2>4. Now \in 1..Len(history) /\ history[Now].revision = v /\ Now <= Now
    BY <1>1, <1>3, CurrentType, SMT DEF Now, Current
  <2>5. Follows(history, v, v)
    BY <2>4 DEF Follows
  <2> QED BY <1>1, <1>4, <1>5, <2>2, <2>3, <2>5 DEF PageInv
<1> QED BY <1>6, <1>7

\* A page that has refreshed shows nothing from before the revision it has seen, however
\* many threads fill and read the cache meanwhile.
THEOREM FreshPageFollows == CatalogSpec => []PageFollows
<1>1. CatalogInit => CatalogTypeOK /\ PageInv
  BY TypesInitially, PageInitially
<1>2. CatalogTypeOK /\ PageInv /\ [CatalogNext]_catalogVars => (CatalogTypeOK /\ PageInv)'
  <2> SUFFICES ASSUME CatalogTypeOK, PageInv, [CatalogNext]_catalogVars
               PROVE  (CatalogTypeOK /\ PageInv)'
    OBVIOUS
  <2>1. CatalogTypeOK' /\ DatabaseType
    BY TypesPreserved, Types
  <2>2. ASSUME ScriptStep PROVE PageInv'
    <3>1. UNCHANGED workbench
      BY <2>2 DEF ScriptStep, Maintain, StartPublish, StartNormalize, StartSync, StartNew,
                  MoveProfiles, MovePlacements, SelectRevision, CommitScript, EndCommit,
                  MoveNormalized, StopScript
    <3> QED BY <2>1, <2>2, <3>1, ScriptTypes, PageKept
  <2>3. ASSUME ReleaseStep PROVE PageInv'
    <3>1. UNCHANGED <<database, workbench>>
      BY <2>3, ReleaseTypes
    <3> QED BY <2>1, <3>1, PageKept DEF Grown, database
  <2>4. CASE UNCHANGED catalogVars
    BY <2>1, <2>4, PageKept DEF Grown, catalogVars, workbench
  <2> QED BY <2>1, <2>2, <2>3, <2>4, PagePreserved, PollKept, Steps
<1>3. CatalogTypeOK /\ PageInv => PageFollows
  <2> SUFFICES ASSUME CatalogTypeOK, PageInv, Distinct, page.pc = "idle", page.fresh,
                      NEW i \in DOMAIN history, history[i].revision = page.seen
               PROVE  page.tree.nodes >= i /\ page.tree.materials >= i
    BY DEF PageFollows
  <2>1. PICK j \in 1..Len(history) : /\ history[j].revision = page.seen
                                     /\ page.tree.nodes >= j /\ page.tree.materials >= j
    BY DEF PageInv, Sound
  <2>2. DOMAIN history = 1..Len(history)
    BY Types DEF DatabaseType
  <2>3. i = j
    BY <2>1, <2>2 DEF Distinct
  <2> QED BY <2>1, <2>3
<1> QED BY <1>1, <1>2, <1>3, PTL DEF CatalogSpec
=============================================================================
