------------------------ MODULE BusinessPortalProofs ------------------------
(***************************************************************************)
(* What BusinessPortal guarantees for every number of users, commands,     *)
(* requests and handler threads, every capacity and every bound: results   *)
(* are documents, and what is settled is not written again.                *)
(***************************************************************************)
EXTENDS BusinessPortal, SequenceTheorems, TLAPS

\* A document ERPNext wrote for a request.
Wrote(d, r) == d \in DOMAIN docs /\ docs[d].request = r

\* A session that names such documents only.
RealText(x) == \A i \in DOMAIN x : Wrote(x[i].result, x[i].request)

\* The handlers that may still write, and those that hold a result to remember.
Late   == {"recheck", "write", "readback"}
Saving == {"readback", "remember", "truncate1", "save1", "complete", "truncate2", "save2"}

\* What a handler relies on between its steps.  replay is false once a command was
\* accepted: the remembered result answers, and the completed command refuses.
ThreadOK(t) ==
    LET th == thread[t] IN
    th.pc # "idle" =>
        /\ RealText(th.outer) /\ RealText(th.inner)
        /\ th.pc \in Late \cup Saving => command[th.command] \in Command
        /\ th.pc \in Saving => Wrote(th.result, th.request)
        /\ th.pc = "lookup" /\ th.replay =>
               results[th.request] # 0 \/ command[th.command].status = "completed"
        /\ th.pc = "get" /\ th.replay => command[th.command].status = "completed"
        /\ th.pc \in Late => ~th.replay

ResultsReal   == \A r \in Requests : results[r] # 0 => Wrote(results[r], r)
FilesReal     == \A f \in Files : files[f] # Torn => RealText(files[f])
AnsweredReal  == \A a \in answered : Wrote(a.document, a.request)
CompletedReal == \A c \in Commands : command[c].status = "completed" =>
                                        command[c].result \in DOMAIN docs

PortalInv ==
    /\ TypeOK
    /\ ResultsReal /\ FilesReal /\ AnsweredReal /\ CompletedReal
    /\ \A t \in Threads : ThreadOK(t)

-----------------------------------------------------------------------------
(* Session texts.                                                           *)
LEMMA TextIsSeq == \A x : x \in Texts <=> x \in Seq(Entry) /\ Len(x) <= Capacity
<1>1. ASSUME NEW x \in Texts PROVE x \in Seq(Entry) /\ Len(x) <= Capacity
  <2>1. PICK n \in 0..Capacity : x \in [1..n -> Entry]
    BY DEF Texts
  <2>2. n \in Nat
    BY <2>1, PortalAssumption
  <2>3. x \in Seq(Entry)
    BY <2>1, <2>2, IsASeq
  <2>4. Len(x) = n
    BY <2>1, <2>2, <2>3, LenProperties
  <2> QED  BY <2>1, <2>3, <2>4, PortalAssumption
<1>2. ASSUME NEW x \in Seq(Entry), Len(x) <= Capacity PROVE x \in Texts
  <2>1. Len(x) \in 0..Capacity /\ x \in [1..Len(x) -> Entry]
    BY <1>2, LenProperties, PortalAssumption
  <2> QED  BY <2>1 DEF Texts
<1> QED  BY <1>1, <1>2

\* What a session recalls for a request is one of its entries.
LEMMA RecallFinds ==
    ASSUME NEW x \in Texts, NEW r \in Requests, Recall(x, r) # 0
    PROVE  \E i \in DOMAIN x : x[i].request = r /\ x[i].result = Recall(x, r)
<1>1. \E i \in DOMAIN x : x[i].request = r
  BY DEF Recall
<1> DEFINE e == CHOOSE e \in {x[i] : i \in DOMAIN x} : e.request = r
<1>2. e \in {x[i] : i \in DOMAIN x} /\ e.request = r
  BY <1>1
<1>3. Recall(x, r) = e.result
  BY <1>1 DEF Recall
<1> QED  BY <1>2, <1>3

LEMMA RecallReal ==
    ASSUME NEW x \in Texts, NEW r \in Requests, RealText(x)
    PROVE  /\ Recall(x, r) \in 0..MaxDocs
           /\ Recall(x, r) # 0 => Wrote(Recall(x, r), r)
<1>1. CASE Recall(x, r) = 0
  BY <1>1, PortalAssumption
<1>2. CASE Recall(x, r) # 0
  <2>1. PICK i \in DOMAIN x : x[i].request = r /\ x[i].result = Recall(x, r)
    BY <1>2, RecallFinds
  <2>2. x[i] \in Entry
    BY <2>1, TextIsSeq, LenProperties
  <2> QED  BY <2>1, <2>2, PortalAssumption DEF Entry, RealText
<1> QED  BY <1>1, <1>2

LEMMA ForgottenTypes ==
    ASSUME NEW x \in Texts, NEW r \in Requests
    PROVE  Forgotten(x, r) \subseteq Requests
<1>1. CASE Len(x) = Capacity
  <2>1. x \in Seq(Entry) /\ Len(x) >= 1
    BY <1>1, TextIsSeq, PortalAssumption
  <2>2. x[1] \in Entry
    BY <2>1, LenProperties
  <2> QED  BY <2>2 DEF Entry, Forgotten
<1> QED  BY <1>1 DEF Forgotten

\* A session nobody saved to yet.
LEMMA EmptyText == <<>> \in Texts /\ RealText(<<>>)
<1>1. <<>> \in Seq(Entry) /\ Len(<<>>) = 0
  BY EmptySeq
<1>2. Len(<<>>) <= Capacity
  BY <1>1, PortalAssumption
<1>3. <<>> \in Texts
  BY <1>1, <1>2, TextIsSeq, Zenon
<1>4. DOMAIN <<>> = {}
  BY <1>1, LenProperties
<1>5. RealText(<<>>)
  BY <1>4, Zenon DEF RealText
<1> QED  BY <1>3, <1>5

\* A session that remembers a document of a request names real documents still, and no
\* more than it has room for.
LEMMA RememberReal ==
    ASSUME NEW x \in Texts, NEW r \in Requests, NEW d \in 1..MaxDocs,
           RealText(x), Wrote(d, r)
    PROVE  Remember(x, r, d) \in Texts /\ RealText(Remember(x, r, d))
<1> DEFINE e == [request |-> r, result |-> d]
           y == Append(x, e)
<1>1. e \in Entry /\ Wrote(e.result, e.request)
  BY DEF Entry
<1>2. x \in Seq(Entry) /\ Len(x) <= Capacity /\ Len(x) \in Nat /\ DOMAIN x = 1..Len(x)
  BY TextIsSeq, LenProperties
<1> HIDE DEF e
<1>3. CASE Recall(x, r) # 0
  <2> DEFINE z == [i \in DOMAIN x |-> IF x[i].request = r THEN e ELSE x[i]]
  <2>1. z \in [1..Len(x) -> Entry]
    BY <1>1, <1>2, LenProperties
  <2>2. z \in Texts
    BY <2>1, <1>2, PortalAssumption DEF Texts
  <2>3. RealText(z)
    BY <1>1 DEF RealText
  <2>4. Remember(x, r, d) = z
    BY <1>3, Zenon DEF Remember, e
  <2> QED  BY <2>2, <2>3, <2>4
<1>4. CASE Recall(x, r) = 0
  <2>1. /\ y \in Seq(Entry) /\ Len(y) = Len(x) + 1
        /\ \A i \in 1..Len(x) : y[i] = x[i]
        /\ y[Len(x) + 1] = e
    BY <1>1, <1>2, AppendProperties
  <2>2. RealText(y)
    BY <2>1, <1>1, <1>2, LenProperties DEF RealText
  <2>3. Remember(x, r, d) = IF Len(y) > Capacity THEN Tail(y) ELSE y
    BY <1>4, Zenon DEF Remember, e
  <2>4. CASE Len(y) > Capacity
    <3>1. y # << >>
      BY <2>1, <1>2, LenProperties, EmptySeq
    <3>2. /\ Tail(y) \in Seq(Entry) /\ Len(Tail(y)) = Len(y) - 1
          /\ \A i \in 1..Len(Tail(y)) : Tail(y)[i] = y[i + 1]
      BY <2>1, <3>1, HeadTailProperties
    <3>3. RealText(Tail(y))
      BY <2>1, <2>2, <3>2, <1>2, LenProperties DEF RealText
    <3>4. Remember(x, r, d) = Tail(y)
      BY <2>3, <2>4, Zenon
    <3>5. Tail(y) \in Texts
      <4>1. Len(Tail(y)) <= Capacity
        BY <2>1, <3>2, <1>2
      <4> QED  BY <4>1, <3>2, TextIsSeq, Zenon
    <3> QED  BY <3>3, <3>4, <3>5, Zenon
  <2>5. CASE ~(Len(y) > Capacity)
    <3>1. Remember(x, r, d) = y
      BY <2>3, <2>5, Zenon
    <3>2. y \in Texts
      <4>1. Len(y) <= Capacity
        BY <2>1, <2>5, <1>2, PortalAssumption
      <4> QED  BY <4>1, <2>1, TextIsSeq, Zenon
    <3> QED  BY <2>2, <3>1, <3>2, Zenon
  <2> QED  BY <2>4, <2>5
<1> QED  BY <1>3, <1>4

-----------------------------------------------------------------------------
(* The store.                                                               *)
\* What a step may do to the store: commands that exist go on existing, and completed
\* ones stay completed with a real result.
StoreGrows ==
    /\ \A c \in Commands : command[c] \in Command => command'[c] \in Command
    /\ \A c \in Commands : command[c].status = "completed" => command'[c].status = "completed"

LEMMA PurgeTypes ==
    ASSUME TypeOK
    PROVE  /\ Purged \in [Commands -> Command \cup {Unused, Gone}]
           /\ \A c \in Commands : command[c] \in Command => Purged[c] \in Command
           /\ \A c \in Commands :
                 Purged[c].status = "completed" <=> command[c].status = "completed"
           /\ \A c \in Commands : Purged[c].status = "completed" => Purged[c] = command[c]
           /\ Kept \subseteq stored
           /\ Kept \subseteq {c \in Commands : Purged[c] \in Command}
           /\ \A c \in Commands :
                 command[c].status \in {"expired", "gone"} => Purged[c].status # "pending"
           /\ \A c \in Commands : Purged[c].status = "unused" => command[c] = Unused
<1>1. ASSUME NEW c \in Commands
      PROVE  /\ Purged[c] \in Command \cup {Unused, Gone}
             /\ command[c] \in Command => Purged[c] \in Command
             /\ Purged[c].status = "completed" <=> command[c].status = "completed"
             /\ Purged[c].status = "completed" => Purged[c] = command[c]
             /\ command[c].status \in {"expired", "gone"} => Purged[c].status # "pending"
             /\ Purged[c].status = "unused" => command[c] = Unused
  <2>1. CASE Expired(c)
    <3>1. command[c] \in Command /\ command[c].status = "pending"
      BY <2>1 DEF Expired, TypeOK
    <3>2. Purged[c] = [command[c] EXCEPT !.status = "expired"]
      BY <2>1 DEF Purged
    <3> QED  BY <3>1, <3>2 DEF Command
  <2>2. CASE ~Expired(c)
    <3>1. Purged[c] = command[c] /\ command[c] \in Command \cup {Unused, Gone}
      BY <2>2 DEF Purged, TypeOK
    <3> QED  BY <3>1 DEF Command, Unused, Gone
  <2> QED  BY <2>1, <2>2
<1>2. Purged = [c \in Commands |-> Purged[c]]
  BY DEF Purged
<1>3. Purged \in [Commands -> Command \cup {Unused, Gone}]
  BY <1>1, <1>2
<1>4. Kept \subseteq stored
  BY DEF Kept
<1>5. stored \subseteq {c \in Commands : command[c] \in Command}
  BY DEF TypeOK
<1> QED  BY <1>1, <1>3, <1>4, <1>5

\* A handler that does not move keeps what it relies on, while documents are added,
\* remembered requests stay remembered and the store grows.
LEMMA OthersKeep ==
    ASSUME TypeOK, NEW t \in Threads, ThreadOK(t), thread'[t] = thread[t],
           \A d, r : Wrote(d, r) => Wrote(d, r)',
           \A r \in Requests : results[r] # 0 => results'[r] # 0,
           StoreGrows
    PROVE  ThreadOK(t)'
<1> SUFFICES ASSUME thread[t].pc # "idle" PROVE ThreadOK(t)'
  BY DEF ThreadOK
<1>1. thread[t] \in Busy
  BY DEF TypeOK, Idle
<1>2. thread[t].command \in Commands /\ thread[t].request \in Requests
  BY <1>1 DEF Busy
<1>3. RealText(thread[t].outer)' /\ RealText(thread[t].inner)'
  BY DEF ThreadOK, RealText
<1> QED  BY <1>2, <1>3 DEF ThreadOK, StoreGrows

\* Documents are only added.
LEMMA DocumentsStay ==
    ASSUME docs' = docs
    PROVE  \A d, r : Wrote(d, r) <=> Wrote(d, r)'
BY DEF Wrote

LEMMA TextsStay ==
    ASSUME docs' = docs
    PROVE  \A x : RealText(x) => RealText(x)'
BY DEF RealText, Wrote

\* A step that touches the memory at most by a purge, and one handler.
LEMMA PurgeKeeps ==
    ASSUME PortalInv, Purge
    PROVE  /\ command' \in [Commands -> Command \cup {Unused, Gone}]
           /\ stored' \subseteq {c \in Commands : command'[c] \in Command}
           /\ StoreGrows
           /\ \A c \in Commands : command'[c].status = "completed" =>
                                     command'[c].result \in DOMAIN docs
BY PurgeTypes, Zenon DEF Purge, StoreGrows, PortalInv, CompletedReal

LEMMA SameStoreKeeps ==
    ASSUME PortalInv, UNCHANGED <<command, stored>>
    PROVE  /\ command' \in [Commands -> Command \cup {Unused, Gone}]
           /\ stored' \subseteq {c \in Commands : command'[c] \in Command}
           /\ StoreGrows
           /\ \A c \in Commands : command'[c].status = "completed" =>
                                     command'[c].result \in DOMAIN docs
BY Zenon DEF StoreGrows, PortalInv, TypeOK, CompletedReal

-----------------------------------------------------------------------------
(* The steps of a handler.                                                  *)
\* The parts of the invariant that are not about the store and the handlers.
OuterTypes ==
    /\ files \in [Files -> Texts \cup {Torn}]
    /\ now \in 0..MaxTime
    /\ docs \in UNION {[1..n -> [user : Users, request : Requests]] : n \in 0..MaxDocs}
    /\ answered \subseteq [user : Users, request : Requests, document : 1..MaxDocs]
    /\ excused \subseteq Users \X Requests
    /\ crashes \in 0..MaxCrashes

\* To preserve the invariant, a step of one handler has to keep the store, leave results and
\* files real, and put that handler into a state it can rely on.
LEMMA OneHandler ==
    ASSUME PortalInv, NEW t \in Threads,
           \A u \in Threads : u # t => thread'[u] = thread[u],
           thread' = [u \in Threads |-> thread'[u]],
           thread'[t] \in Busy \cup {Idle},
           ThreadOK(t)',
           \A d, r : Wrote(d, r) => Wrote(d, r)',
           OuterTypes',
           command' \in [Commands -> Command \cup {Unused, Gone}],
           stored' \subseteq {c \in Commands : command'[c] \in Command},
           StoreGrows, CompletedReal',
           results' \in [Requests -> 0..Len(docs')],
           \A r \in Requests : results[r] # 0 => results'[r] # 0,
           ResultsReal', FilesReal', AnsweredReal'
    PROVE  PortalInv'
<1>1. \A u \in Threads : ThreadOK(u)'
  BY OthersKeep DEF PortalInv
<1>2. \A u \in Threads : thread'[u] \in Busy \cup {Idle}
  BY DEF PortalInv, TypeOK
<1>3. thread' \in [Threads -> Busy \cup {Idle}]
  BY <1>2
<1> QED  BY <1>1, <1>3 DEF PortalInv, TypeOK, OuterTypes

LEMMA DocsSeq ==
    ASSUME TypeOK
    PROVE  /\ docs \in Seq([user : Users, request : Requests])
           /\ Len(docs) \in 0..MaxDocs /\ DOMAIN docs = 1..Len(docs)
           /\ \A d, r : Wrote(d, r) => d \in 1..MaxDocs
<1> DEFINE D == [user : Users, request : Requests]
<1>1. PICK n \in 0..MaxDocs : docs \in [1..n -> D]
  BY DEF TypeOK
<1> HIDE DEF D
<1>2. n \in Nat
  BY PortalAssumption
<1>3. docs \in Seq(D)
  BY <1>1, <1>2, IsASeq
<1>4. Len(docs) = n /\ DOMAIN docs = 1..n
  BY <1>1, <1>2, <1>3, LenProperties
<1> QED  BY <1>1, <1>3, <1>4, PortalAssumption DEF Wrote, D

\* A step that changes one handler, and the store by a purge at most.
LEMMA QuietStep ==
    ASSUME PortalInv, NEW t \in Threads,
           Purge \/ UNCHANGED <<command, stored>>,
           UNCHANGED <<results, files, now, docs, history>>,
           thread' = [thread EXCEPT ![t] = thread'[t]],
           thread'[t] \in Busy \cup {Idle},
           ThreadOK(t)'
    PROVE  PortalInv'
<1>1. /\ \A u \in Threads : u # t => thread'[u] = thread[u]
      /\ thread' = [u \in Threads |-> thread'[u]]
  BY DEF PortalInv, TypeOK
<1>2. \A d, r : Wrote(d, r) <=> Wrote(d, r)'
  BY DocumentsStay
<1>3. /\ command' \in [Commands -> Command \cup {Unused, Gone}]
      /\ stored' \subseteq {c \in Commands : command'[c] \in Command}
      /\ StoreGrows
      /\ CompletedReal'
  BY PurgeKeeps, SameStoreKeeps DEF CompletedReal
<1>4. OuterTypes'
  BY DEF PortalInv, TypeOK, OuterTypes, history
<1>5. /\ results' \in [Requests -> 0..Len(docs')]
      /\ \A r \in Requests : results[r] # 0 => results'[r] # 0
  BY DEF PortalInv, TypeOK
<1>6. ResultsReal' /\ FilesReal' /\ AnsweredReal'
  BY <1>2 DEF PortalInv, ResultsReal, FilesReal, AnsweredReal, RealText, history
<1> QED  BY <1>1, <1>2, <1>3, <1>4, <1>5, <1>6, OneHandler

LEMMA IdleIsOK ==
    ASSUME NEW t \in Threads, thread'[t] = Idle
    PROVE  ThreadOK(t)'
BY DEF ThreadOK, Idle

\* A handler that only moves on.
LEMMA MovesOn ==
    ASSUME PortalInv, NEW t \in Threads, NEW pc \in PCs, thread[t].pc # "idle", Goto(t, pc)
    PROVE  /\ thread' = [thread EXCEPT ![t] = thread'[t]]
           /\ thread[t] \in Busy /\ thread'[t] \in Busy
           /\ thread'[t] = [thread[t] EXCEPT !.pc = pc]
           /\ thread'[t].pc = pc
           /\ thread'[t].user = thread[t].user
           /\ thread'[t].command = thread[t].command
           /\ thread'[t].request = thread[t].request
           /\ thread'[t].outer = thread[t].outer
           /\ thread'[t].inner = thread[t].inner
           /\ thread'[t].result = thread[t].result
           /\ thread'[t].replay = thread[t].replay
<1>1. thread[t] \in Busy
  BY DEF PortalInv, TypeOK, Idle
<1>2. thread' = [thread EXCEPT ![t] = [thread[t] EXCEPT !.pc = pc]]
  BY DEF Goto
<1>3. thread'[t] = [thread[t] EXCEPT !.pc = pc]
  BY <1>2 DEF PortalInv, TypeOK
<1>4. \A b \in Busy : LET moved == [b EXCEPT !.pc = pc] IN
         /\ moved \in Busy /\ moved.pc = pc /\ moved.user = b.user
         /\ moved.command = b.command /\ moved.request = b.request
         /\ moved.outer = b.outer /\ moved.inner = b.inner
         /\ moved.result = b.result /\ moved.replay = b.replay
  BY DEF Busy
<1> QED  BY <1>1, <1>2, <1>3, <1>4

LEMMA LeavesOff ==
    ASSUME PortalInv, NEW t \in Threads, Leave(t)
    PROVE  thread' = [thread EXCEPT ![t] = thread'[t]] /\ thread'[t] = Idle
BY DEF Leave, PortalInv, TypeOK

LEMMA LookupMissKeeps ==
    ASSUME PortalInv, NEW t \in Threads, LookupMiss(t)
    PROVE  PortalInv'
<1>1. thread[t].pc = "lookup" /\ Purge /\ Goto(t, "get")
      /\ UNCHANGED <<results, files, now, docs, history>>
  BY DEF LookupMiss
<1>2. "get" \in PCs
  BY DEF PCs
<1>3. results[thread[t].request] = 0
  BY DEF LookupMiss, Cached
<1>4. thread[t] \in Busy
  BY <1>1, <1>2, MovesOn
<1>5. thread[t].command \in Commands
  BY <1>4 DEF Busy
<1>6. thread[t].replay => command'[thread[t].command].status = "completed"
  BY <1>1, <1>3, <1>5, PurgeKeeps DEF PortalInv, ThreadOK, StoreGrows
<1>7. RealText(thread[t].outer)' /\ RealText(thread[t].inner)'
  BY <1>1, <1>2, MovesOn, TextsStay DEF PortalInv, ThreadOK
<1>8. ThreadOK(t)'
  BY <1>1, <1>2, <1>6, <1>7, MovesOn DEF ThreadOK, Late, Saving
<1> QED  BY <1>1, <1>2, <1>8, MovesOn, QuietStep

LEMMA GetCommandKeeps ==
    ASSUME PortalInv, NEW t \in Threads, GetCommand(t)
    PROVE  PortalInv'
<1>1. thread[t].pc = "get" /\ Purge /\ UNCHANGED <<results, files, now, docs, history>>
  BY DEF GetCommand
<1>2. CASE Leave(t)
  BY <1>1, <1>2, LeavesOff, IdleIsOK, QuietStep
<1>3. CASE Acceptable(thread[t]) /\ Goto(t, "recheck")
  <2>1. "recheck" \in PCs
    BY DEF PCs
  <2>2. command'[thread[t].command] \in Command
    BY <1>1, <1>3, PurgeTypes DEF Acceptable, Purge, PortalInv
  <2>3. thread[t] \in Busy /\ thread[t].command \in Commands
    BY <1>1, <1>3, <2>1, MovesOn DEF Busy
  <2>4. ~thread[t].replay
    <3>1. Purged[thread[t].command].status = "pending"
      BY <1>3 DEF Acceptable
    <3>2. command[thread[t].command].status # "completed"
      BY <3>1, <2>3, PurgeTypes DEF PortalInv
    <3> QED  BY <3>2, <1>1 DEF PortalInv, ThreadOK
  <2>5. RealText(thread[t].outer)' /\ RealText(thread[t].inner)'
    BY <1>1, <1>3, <2>1, MovesOn, TextsStay DEF PortalInv, ThreadOK
  <2>6. ThreadOK(t)'
    BY <1>1, <1>3, <2>1, <2>2, <2>4, <2>5, MovesOn DEF ThreadOK, Late, Saving
  <2> QED  BY <1>1, <1>3, <2>1, <2>6, MovesOn, QuietStep
<1> QED  BY <1>2, <1>3 DEF GetCommand

LEMMA RecheckPlainKeeps ==
    ASSUME PortalInv, NEW t \in Threads, RecheckPlain(t)
    PROVE  PortalInv'
<1>1. thread[t].pc = "recheck" /\ Goto(t, "write") /\ UNCHANGED <<command, stored>>
      /\ UNCHANGED <<results, files, now, docs, history>>
  BY DEF RecheckPlain, memory
<1>2. "write" \in PCs
  BY DEF PCs
<1>3. RealText(thread[t].outer)' /\ RealText(thread[t].inner)'
  BY <1>1, <1>2, MovesOn, TextsStay DEF PortalInv, ThreadOK
<1>4. ThreadOK(t)'
  BY <1>1, <1>2, <1>3, MovesOn DEF PortalInv, ThreadOK, Late, Saving
<1> QED  BY <1>1, <1>2, <1>4, MovesOn, QuietStep

\* What is looked up for a request is a document of it.
LEMMA CachedReal ==
    ASSUME PortalInv, NEW th \in Busy, NEW x \in Texts, RealText(x)
    PROVE  /\ Cached(th, x) \in 0..MaxDocs
           /\ Cached(th, x) # 0 => Wrote(Cached(th, x), th.request)
<1>1. th.request \in Requests
  BY DEF Busy
<1>2. results[th.request] # 0 =>
         results[th.request] \in 0..MaxDocs /\ Wrote(results[th.request], th.request)
  BY <1>1, DocsSeq DEF PortalInv, ResultsReal
<1> QED  BY <1>1, <1>2, RecallReal DEF Cached

LEMMA RecheckWriterKeeps ==
    ASSUME PortalInv, NEW t \in Threads, RecheckWriter(t)
    PROVE  PortalInv'
<1> DEFINE th     == thread[t]
           writer == Writer[th.command]
           text   == files[FileOf(th.user, writer)]
           found  == IF writer = "request" THEN Cached(th, text) ELSE Recall(text, th.request)
           pc     == IF found # 0 THEN "complete" ELSE "write"
<1>1. /\ th.pc = "recheck" /\ text # Torn
      /\ Purge \/ UNCHANGED <<command, stored>>
      /\ UNCHANGED <<results, files, now, docs, history>>
      /\ thread' = [thread EXCEPT ![t] = [th EXCEPT !.inner = text, !.result = found, !.pc = pc]]
  BY DEF RecheckWriter
<1>2. th \in Busy /\ th.user \in Users /\ th.command \in Commands /\ th.request \in Requests
  BY <1>1 DEF PortalInv, TypeOK, Idle, Busy
<1>3. text \in Texts /\ RealText(text)
  <2>1. FileOf(th.user, writer) \in Files
    BY <1>2 DEF FileOf, Files
  <2> QED  BY <1>1, <2>1 DEF PortalInv, TypeOK, FilesReal
<1>4. found \in 0..MaxDocs /\ (found # 0 => Wrote(found, th.request))
  BY <1>2, <1>3, CachedReal, RecallReal
<1> HIDE DEF found, text
<1>5. thread'[t] = [th EXCEPT !.inner = text, !.result = found, !.pc = pc]
      /\ thread' = [thread EXCEPT ![t] = thread'[t]]
  BY <1>1 DEF PortalInv, TypeOK
<1>6. /\ thread'[t] \in Busy /\ thread'[t].pc = pc /\ thread'[t].result = found
      /\ thread'[t].inner = text /\ thread'[t].outer = th.outer
      /\ thread'[t].command = th.command /\ thread'[t].request = th.request
      /\ thread'[t].replay = th.replay
  BY <1>2, <1>3, <1>4, <1>5 DEF Busy, PCs
<1>7. RealText(thread[t].outer)' /\ RealText(thread[t].inner)'
  BY <1>1, <1>3, <1>6, TextsStay DEF PortalInv, ThreadOK
<1>8. command'[th.command] \in Command
  BY <1>1, <1>2, PurgeKeeps, SameStoreKeeps DEF PortalInv, ThreadOK, Late, StoreGrows
<1>9. found # 0 => Wrote(thread[t].result, thread[t].request)'
  BY <1>1, <1>4, <1>6, DocumentsStay
<1>10. ~th.replay
  BY <1>1 DEF PortalInv, ThreadOK, Late
<1>11. ThreadOK(t)'
  BY <1>6, <1>7, <1>8, <1>9, <1>10 DEF ThreadOK, Late, Saving
<1> QED  BY <1>1, <1>5, <1>6, <1>11, QuietStep

\* A handler that only moves on, or leaves, and touches nothing else.
LEMMA ReadbackKeeps ==
    ASSUME PortalInv, NEW t \in Threads, Readback(t)
    PROVE  PortalInv'
<1>1. thread[t].pc = "readback" /\ UNCHANGED <<command, stored>>
      /\ UNCHANGED <<results, files, now, docs, history>>
  BY DEF Readback, memory
<1>2. PICK pc \in {"remember", "complete", "truncate1"} : Goto(t, pc)
  BY DEF Readback
<1>3. pc \in PCs
  BY <1>2 DEF PCs
<1>4. thread[t] \in Busy /\ thread[t].command \in Commands
  BY <1>1, <1>2, <1>3, MovesOn DEF Busy
<1>5. RealText(thread[t].outer)' /\ RealText(thread[t].inner)'
  BY <1>1, <1>2, <1>3, MovesOn, TextsStay DEF PortalInv, ThreadOK
<1>6. Wrote(thread[t].result, thread[t].request)'
  BY <1>1, <1>2, <1>3, MovesOn, DocumentsStay DEF PortalInv, ThreadOK, Saving
<1>7. command'[thread[t].command] \in Command
  BY <1>1 DEF PortalInv, ThreadOK, Saving
<1>8. ThreadOK(t)'
  BY <1>2, <1>3, <1>1, <1>5, <1>6, <1>7, MovesOn DEF ThreadOK, Late, Saving
<1> QED  BY <1>1, <1>2, <1>3, <1>8, MovesOn, QuietStep

LEMMA FailKeeps ==
    ASSUME PortalInv, NEW t \in Threads, Fail(t)
    PROVE  PortalInv'
BY LeavesOff, IdleIsOK, QuietStep DEF Fail, memory

LEMMA LookupReplayKeeps ==
    ASSUME PortalInv, NEW t \in Threads, LookupReplay(t)
    PROVE  PortalInv'
<1> DEFINE d == Cached(thread[t], thread[t].outer)
<1>1. /\ thread[t].pc = "lookup" /\ d # 0 /\ Purge /\ Leave(t)
      /\ answered' = answered \cup
             {[user |-> thread[t].user, request |-> thread[t].request, document |-> d]}
      /\ UNCHANGED <<results, files, now, docs, excused, crashes>>
  BY DEF LookupReplay, Answer
<1>2. thread[t] \in Busy
  BY <1>1 DEF PortalInv, TypeOK, Idle
<1>3. thread[t].user \in Users /\ thread[t].request \in Requests /\ thread[t].outer \in Texts
  BY <1>2 DEF Busy
<1>4. d \in 0..MaxDocs /\ Wrote(d, thread[t].request)
  BY <1>1, <1>2, <1>3, CachedReal DEF PortalInv, ThreadOK
<1> HIDE DEF d
<1>5. \A x, r : Wrote(x, r) <=> Wrote(x, r)'
  BY <1>1, DocumentsStay
<1>6. AnsweredReal'
  BY <1>1, <1>4, <1>5 DEF PortalInv, AnsweredReal
<1>7. OuterTypes'
  <2>1. d \in 1..MaxDocs
    BY <1>1, <1>4, PortalAssumption
  <2> QED  BY <2>1, <1>1, <1>3 DEF PortalInv, TypeOK, OuterTypes
<1>8. /\ command' \in [Commands -> Command \cup {Unused, Gone}]
      /\ stored' \subseteq {c \in Commands : command'[c] \in Command}
      /\ StoreGrows /\ CompletedReal'
  BY <1>1, PurgeKeeps DEF CompletedReal
<1>9. /\ results' \in [Requests -> 0..Len(docs')]
      /\ \A r \in Requests : results[r] # 0 => results'[r] # 0
      /\ ResultsReal' /\ FilesReal'
  BY <1>1, <1>5 DEF PortalInv, TypeOK, ResultsReal, FilesReal, RealText
<1>10. thread'[t] = Idle /\ thread' = [thread EXCEPT ![t] = thread'[t]]
  BY <1>1, LeavesOff
<1>11. /\ \A u \in Threads : u # t => thread'[u] = thread[u]
       /\ thread' = [u \in Threads |-> thread'[u]]
  BY <1>10 DEF PortalInv, TypeOK
<1> QED  BY <1>5, <1>6, <1>7, <1>8, <1>9, <1>10, <1>11, IdleIsOK, OneHandler

LEMMA WriteDocumentKeeps ==
    ASSUME PortalInv, NEW t \in Threads, WriteDocument(t)
    PROVE  PortalInv'
<1> DEFINE th == thread[t]
           D  == [user : Users, request : Requests]
           d  == [user |-> th.user, request |-> th.request]
<1>1. /\ th.pc = "write" /\ Len(docs) < MaxDocs /\ docs' = Append(docs, d)
      /\ UNCHANGED <<command, stored, results, files, now, answered, excused, crashes>>
      /\ \/ thread' = [thread EXCEPT ![t] = [th EXCEPT !.pc = "readback", !.result = Len(docs) + 1]]
         \/ Leave(t)
  BY DEF WriteDocument, memory, history
<1>2. th \in Busy
  BY <1>1 DEF PortalInv, TypeOK, Idle
<1>3. d \in D /\ th.request \in Requests /\ d.request = th.request
  BY <1>2 DEF Busy
<1>4. docs \in Seq(D) /\ Len(docs) \in 0..MaxDocs /\ DOMAIN docs = 1..Len(docs)
  BY DocsSeq DEF PortalInv
<1> HIDE DEF D, d
<1>5. /\ docs' \in Seq(D) /\ Len(docs') = Len(docs) + 1
      /\ \A i \in 1..Len(docs) : docs'[i] = docs[i]
      /\ docs'[Len(docs) + 1] = d
  BY <1>1, <1>3, <1>4, AppendProperties
<1>6. Len(docs') \in 0..MaxDocs /\ DOMAIN docs' = 1..Len(docs') /\ docs' \in [1..Len(docs') -> D]
  <2>1. Len(docs') \in 0..MaxDocs
    BY <1>1, <1>4, <1>5, PortalAssumption
  <2> QED  BY <2>1, <1>5, LenProperties
<1>7. \A x, r : Wrote(x, r) => Wrote(x, r)'
  BY <1>4, <1>5, <1>6 DEF Wrote
<1>9. OuterTypes'
  <2>1. docs' \in UNION {[1..n -> D] : n \in 0..MaxDocs}
    BY <1>6
  <2> QED  BY <2>1, <1>1 DEF PortalInv, TypeOK, OuterTypes, D
<1>10. /\ command' \in [Commands -> Command \cup {Unused, Gone}]
       /\ stored' \subseteq {c \in Commands : command'[c] \in Command}
       /\ StoreGrows
  BY <1>1, SameStoreKeeps
<1>11. CompletedReal'
  BY <1>1, <1>4, <1>6, <1>5, SameStoreKeeps DEF CompletedReal
<1>12. /\ results' \in [Requests -> 0..Len(docs')]
       /\ \A r \in Requests : results[r] # 0 => results'[r] # 0
  BY <1>1, <1>4, <1>5 DEF PortalInv, TypeOK
<1>13. ResultsReal' /\ FilesReal' /\ AnsweredReal'
  BY <1>1, <1>7 DEF PortalInv, ResultsReal, FilesReal, AnsweredReal, RealText
<1>14. thread' = [thread EXCEPT ![t] = thread'[t]] /\ thread'[t] \in Busy \cup {Idle} /\ ThreadOK(t)'
  <2>1. CASE Leave(t)
    BY <2>1, LeavesOff, IdleIsOK
  <2>2. CASE thread' = [thread EXCEPT ![t] = [th EXCEPT !.pc = "readback", !.result = Len(docs) + 1]]
    <3> DEFINE new == [th EXCEPT !.pc = "readback", !.result = Len(docs) + 1]
    <3>1. Len(docs) + 1 \in 0..MaxDocs
      BY <1>1, <1>4, PortalAssumption
    <3>2. /\ new \in Busy /\ new.pc = "readback" /\ new.result = Len(docs) + 1
          /\ new.outer = th.outer /\ new.inner = th.inner /\ new.command = th.command
          /\ new.request = th.request /\ new.replay = th.replay
      BY <1>2, <3>1 DEF Busy, PCs
    <3>3. thread'[t] = new /\ thread' = [thread EXCEPT ![t] = thread'[t]]
      BY <2>2 DEF PortalInv, TypeOK
    <3> HIDE DEF new
    <3>4. Wrote(thread[t].result, thread[t].request)'
      <4>1. thread'[t].result = Len(docs') /\ thread'[t].request = th.request
        BY <3>2, <3>3, <1>4, <1>5
      <4>2. Len(docs') \in DOMAIN docs' /\ docs'[Len(docs')].request = th.request
        BY <1>3, <1>4, <1>5, <1>6
      <4> QED  BY <4>1, <4>2 DEF Wrote
    <3>5. RealText(thread[t].outer)' /\ RealText(thread[t].inner)'
      BY <1>1, <1>7, <3>2, <3>3 DEF PortalInv, ThreadOK, RealText
    <3>6. ~th.replay /\ command'[th.command] \in Command
      BY <1>1 DEF PortalInv, ThreadOK, Late
    <3>7. ThreadOK(t)'
      BY <3>2, <3>3, <3>4, <3>5, <3>6 DEF ThreadOK, Late, Saving
    <3> QED  BY <3>2, <3>3, <3>7
  <2> QED  BY <1>1, <2>1, <2>2
<1>15. /\ \A u \in Threads : u # t => thread'[u] = thread[u]
       /\ thread' = [u \in Threads |-> thread'[u]]
  BY <1>14 DEF PortalInv, TypeOK
<1> QED  BY <1>7, <1>9, <1>10, <1>11, <1>12, <1>13, <1>14, <1>15, OneHandler

\* What is remembered for a request stays remembered when one more is.
LEMMA RemembersMore ==
    ASSUME PortalInv, NEW r \in Requests, NEW d \in 1..Len(docs),
           results' = [results EXCEPT ![r] = d], docs' = docs
    PROVE  /\ results' \in [Requests -> 0..Len(docs')]
           /\ \A q \in Requests : results[q] # 0 => results'[q] # 0
<1>1. results \in [Requests -> 0..Len(docs)]
  BY DEF PortalInv, TypeOK
<1>2. Len(docs) \in Nat
  BY DocsSeq, PortalAssumption DEF PortalInv
<1>3. d \in 0..Len(docs) /\ d # 0
  BY <1>2
<1>4. results' \in [Requests -> 0..Len(docs)]
  BY <1>1, <1>3
<1>5. \A q \in Requests : results'[q] = IF q = r THEN d ELSE results[q]
  BY <1>1
<1> QED  BY <1>3, <1>4, <1>5

LEMMA RememberRequestKeeps ==
    ASSUME PortalInv, NEW t \in Threads, RememberRequest(t)
    PROVE  PortalInv'
<1> DEFINE th == thread[t]
<1>1. /\ th.pc = "remember" /\ Purge /\ Goto(t, "truncate1")
      /\ results' = [results EXCEPT ![th.request] = th.result]
      /\ UNCHANGED <<files, now, docs, answered, excused, crashes>>
  BY DEF RememberRequest, history
<1>2. "truncate1" \in PCs
  BY DEF PCs
<1>3. th \in Busy /\ th.request \in Requests /\ th.command \in Commands
  BY <1>1, <1>2, MovesOn DEF Busy
<1>4. Wrote(th.result, th.request) /\ th.result \in 1..Len(docs)
  BY <1>1, DocsSeq DEF PortalInv, ThreadOK, Saving, Wrote
<1>5. \A x, r : Wrote(x, r) <=> Wrote(x, r)'
  BY <1>1, DocumentsStay
<1>6. /\ command' \in [Commands -> Command \cup {Unused, Gone}]
      /\ stored' \subseteq {c \in Commands : command'[c] \in Command}
      /\ StoreGrows /\ CompletedReal'
  BY <1>1, PurgeKeeps DEF CompletedReal
<1>7. /\ results' \in [Requests -> 0..Len(docs')]
      /\ \A r \in Requests : results[r] # 0 => results'[r] # 0
  BY <1>1, <1>3, <1>4, RemembersMore
<1>8. ResultsReal'
  BY <1>1, <1>4, <1>5 DEF PortalInv, TypeOK, ResultsReal
<1>9. OuterTypes' /\ FilesReal' /\ AnsweredReal'
  BY <1>1, <1>5 DEF PortalInv, TypeOK, OuterTypes, FilesReal, AnsweredReal, RealText
<1>10. RealText(thread[t].outer)' /\ RealText(thread[t].inner)'
  BY <1>1, <1>2, MovesOn, TextsStay DEF PortalInv, ThreadOK
<1>11. Wrote(thread[t].result, thread[t].request)'
  BY <1>1, <1>2, <1>4, MovesOn, DocumentsStay
<1>12. command'[th.command] \in Command
  BY <1>1, <1>3, <1>6 DEF PortalInv, ThreadOK, Saving, StoreGrows
<1>13. ThreadOK(t)'
  BY <1>1, <1>2, <1>10, <1>11, <1>12, MovesOn DEF ThreadOK, Late, Saving
<1>14. /\ \A u \in Threads : u # t => thread'[u] = thread[u]
       /\ thread' = [u \in Threads |-> thread'[u]] /\ thread'[t] \in Busy
  BY <1>1, <1>2, MovesOn DEF PortalInv, TypeOK
<1> QED  BY <1>5, <1>6, <1>7, <1>8, <1>9, <1>13, <1>14, OneHandler

LEMMA CompleteCommandKeeps ==
    ASSUME PortalInv, NEW t \in Threads, CompleteCommand(t)
    PROVE  PortalInv'
<1> DEFINE th == thread[t]
           done == [Purged[th.command] EXCEPT !.status = "completed", !.result = th.result]
<1>1. /\ th.pc = "complete" /\ Goto(t, "truncate2")
      /\ stored' = Kept
      /\ results' = [results EXCEPT ![th.request] = th.result]
      /\ UNCHANGED <<files, now, docs, answered, excused, crashes>>
  BY DEF CompleteCommand, history
<1>2. "truncate2" \in PCs
  BY DEF PCs
<1>3. th \in Busy /\ th.request \in Requests /\ th.command \in Commands
  BY <1>1, <1>2, MovesOn DEF Busy
<1>4. Wrote(th.result, th.request) /\ th.result \in 1..Len(docs) /\ th.result \in 0..MaxDocs
  BY <1>1, DocsSeq DEF PortalInv, ThreadOK, Saving, Wrote
<1>5. \A x, r : Wrote(x, r) <=> Wrote(x, r)'
  BY <1>1, DocumentsStay
<1>6. command' = [Purged EXCEPT ![th.command] = done]
  BY DEF CompleteCommand
<1>7. Purged[th.command] \in Command
  BY <1>1, <1>3, PurgeTypes DEF PortalInv, ThreadOK, Saving
<1>8. done \in Command /\ done.status = "completed" /\ done.result = th.result
  BY <1>4, <1>7 DEF Command
<1> HIDE DEF done
<1>9. \A c \in Commands : command'[c] = IF c = th.command THEN done ELSE Purged[c]
  BY <1>3, <1>6, PurgeTypes DEF PortalInv
<1>10. command' \in [Commands -> Command \cup {Unused, Gone}]
  BY <1>3, <1>6, <1>8, PurgeTypes DEF PortalInv
<1>11. stored' \subseteq {c \in Commands : command'[c] \in Command}
  BY <1>1, <1>8, <1>9, PurgeTypes DEF PortalInv
<1>12. StoreGrows
  BY <1>8, <1>9, PurgeTypes DEF PortalInv, StoreGrows
<1>13. CompletedReal'
  <2> SUFFICES ASSUME NEW c \in Commands, command'[c].status = "completed"
               PROVE  command'[c].result \in DOMAIN docs
    BY <1>1 DEF CompletedReal
  <2>1. CASE c = th.command
    BY <2>1, <1>4, <1>8, <1>9 DEF Wrote
  <2>2. CASE c # th.command
    BY <2>2, <1>9, PurgeTypes DEF PortalInv, CompletedReal
  <2> QED  BY <2>1, <2>2
<1>14. /\ results' \in [Requests -> 0..Len(docs')]
       /\ \A r \in Requests : results[r] # 0 => results'[r] # 0
  BY <1>1, <1>3, <1>4, RemembersMore
<1>15. ResultsReal'
  BY <1>1, <1>4, <1>5 DEF PortalInv, TypeOK, ResultsReal
<1>16. OuterTypes' /\ FilesReal' /\ AnsweredReal'
  BY <1>1, <1>5 DEF PortalInv, TypeOK, OuterTypes, FilesReal, AnsweredReal, RealText
<1>17. RealText(thread[t].outer)' /\ RealText(thread[t].inner)'
  BY <1>1, <1>2, MovesOn, TextsStay DEF PortalInv, ThreadOK
<1>18. Wrote(thread[t].result, thread[t].request)'
  BY <1>1, <1>2, <1>4, MovesOn, DocumentsStay
<1>19. ThreadOK(t)'
  BY <1>1, <1>2, <1>3, <1>8, <1>9, <1>17, <1>18, MovesOn DEF ThreadOK, Late, Saving
<1>20. /\ \A u \in Threads : u # t => thread'[u] = thread[u]
       /\ thread' = [u \in Threads |-> thread'[u]] /\ thread'[t] \in Busy
  BY <1>1, <1>2, MovesOn DEF PortalInv, TypeOK
<1> QED  BY <1>5, <1>10, <1>11, <1>12, <1>13, <1>14, <1>15, <1>16, <1>19, <1>20, OneHandler

-----------------------------------------------------------------------------
(* The steps on a session file.                                             *)
\* A step that writes one file, or truncates it, and moves or ends its handler.
LEMMA FileStep ==
    ASSUME PortalInv, NEW t \in Threads, NEW f \in Files, NEW x \in Texts \cup {Torn},
           files' = [files EXCEPT ![f] = x], x # Torn => RealText(x),
           thread' = [thread EXCEPT ![t] = thread'[t]], thread'[t] \in Busy \cup {Idle},
           ThreadOK(t)',
           UNCHANGED <<command, stored, results, now, docs, crashes>>,
           excused' \subseteq Users \X Requests,
           answered' \subseteq [user : Users, request : Requests, document : 1..MaxDocs],
           AnsweredReal'
    PROVE  PortalInv'
<1>1. \A d, r : Wrote(d, r) <=> Wrote(d, r)'
  BY DocumentsStay
<1>2. \A y : RealText(y) => RealText(y)'
  BY TextsStay
<1>3. FilesReal'
  BY <1>2 DEF PortalInv, TypeOK, FilesReal
<1>4. OuterTypes'
  BY DEF PortalInv, TypeOK, OuterTypes
<1>5. /\ command' \in [Commands -> Command \cup {Unused, Gone}]
      /\ stored' \subseteq {c \in Commands : command'[c] \in Command}
      /\ StoreGrows /\ CompletedReal'
  BY SameStoreKeeps DEF CompletedReal
<1>6. /\ results' \in [Requests -> 0..Len(docs')]
      /\ \A r \in Requests : results[r] # 0 => results'[r] # 0
      /\ ResultsReal'
  BY <1>1 DEF PortalInv, TypeOK, ResultsReal
<1>7. /\ \A u \in Threads : u # t => thread'[u] = thread[u]
      /\ thread' = [u \in Threads |-> thread'[u]]
  BY DEF PortalInv, TypeOK
<1> QED  BY <1>1, <1>3, <1>4, <1>5, <1>6, <1>7, OneHandler

\* A handler that goes on to another step of saving keeps what it relies on.
LEMMA SavesOn ==
    ASSUME PortalInv, NEW t \in Threads, NEW pc \in {"save1", "complete", "save2"},
           thread[t].pc \in {"truncate1", "save1", "truncate2"}, Goto(t, pc),
           UNCHANGED <<command, docs>>
    PROVE  /\ ThreadOK(t)' /\ thread'[t] \in Busy
           /\ thread' = [thread EXCEPT ![t] = thread'[t]]
<1>1. pc \in PCs /\ thread[t].pc # "idle" /\ thread[t].pc \in Saving
  BY DEF PCs, Saving
<1>2. RealText(thread[t].outer)' /\ RealText(thread[t].inner)'
  BY <1>1, MovesOn, TextsStay DEF PortalInv, ThreadOK
<1>3. Wrote(thread[t].result, thread[t].request)'
  BY <1>1, MovesOn, DocumentsStay DEF PortalInv, ThreadOK
<1>4. command'[thread[t].command] \in Command
  BY <1>1 DEF PortalInv, ThreadOK
<1>5. ThreadOK(t)'
  BY <1>1, <1>2, <1>3, <1>4, MovesOn DEF ThreadOK, Late, Saving
<1> QED  BY <1>1, <1>5, MovesOn

LEMMA SavingHandler ==
    ASSUME PortalInv, NEW t \in Threads, thread[t].pc \in Saving
    PROVE  /\ thread[t].user \in Users /\ thread[t].request \in Requests
           /\ thread[t].outer \in Texts /\ RealText(thread[t].outer)
           /\ thread[t].inner \in Texts /\ RealText(thread[t].inner)
           /\ thread[t].result \in 1..MaxDocs
           /\ Wrote(thread[t].result, thread[t].request)
           /\ FileOf(thread[t].user, Writer[thread[t].command]) \in Files
           /\ <<thread[t].user, "portal">> \in Files
<1>1. thread[t] \in Busy
  BY DEF PortalInv, TypeOK, Idle, Saving
<1>2. /\ thread[t].user \in Users /\ thread[t].request \in Requests
      /\ thread[t].outer \in Texts /\ thread[t].inner \in Texts
  BY <1>1 DEF Busy
<1>3. /\ RealText(thread[t].outer) /\ RealText(thread[t].inner)
      /\ Wrote(thread[t].result, thread[t].request)
  BY DEF PortalInv, ThreadOK, Saving
<1> QED  BY <1>2, <1>3, DocsSeq DEF FileOf, Files, PortalInv

LEMMA SaveFileKeeps ==
    ASSUME PortalInv, NEW t \in Threads,
           TruncateInner(t) \/ SaveInner(t) \/ TruncateOuter(t) \/ SaveOuter(t)
    PROVE  PortalInv'
<1> DEFINE th == thread[t]
           inner == Remember(th.inner, th.request, th.result)
           outer == Remember(th.outer, th.request, th.result)
<1>1. CASE TruncateInner(t)
  <2>1. /\ th.pc = "truncate1" /\ Goto(t, "save1")
        /\ files' = [files EXCEPT ![FileOf(th.user, Writer[th.command])] = Torn]
        /\ UNCHANGED <<command, stored, results, now, docs, answered, excused, crashes>>
    BY <1>1 DEF TruncateInner, memory, history
  <2>2. AnsweredReal'
    BY <2>1, DocumentsStay DEF PortalInv, AnsweredReal
  <2>3. answered' \subseteq [user : Users, request : Requests, document : 1..MaxDocs]
    BY <2>1 DEF PortalInv, TypeOK
  <2>4. FileOf(th.user, Writer[th.command]) \in Files
    BY <2>1, SavingHandler DEF Saving
  <2>5. ThreadOK(t)' /\ thread'[t] \in Busy /\ thread' = [thread EXCEPT ![t] = thread'[t]]
    BY <2>1, SavesOn
  <2>6. excused' \subseteq Users \X Requests
    BY <2>1 DEF PortalInv, TypeOK
  <2> QED  BY <2>1, <2>2, <2>3, <2>4, <2>5, <2>6, FileStep
<1>2. CASE SaveInner(t)
  <2>1. /\ th.pc = "save1" /\ Goto(t, "complete")
        /\ WriteOut(FileOf(th.user, Writer[th.command]), inner)
        /\ UNCHANGED <<command, stored, results, now, docs, answered, crashes>>
        /\ excused' = excused \cup ({th.user} \X Forgotten(th.inner, th.request))
    BY <1>2 DEF SaveInner, memory, history
  <2>2. AnsweredReal'
    BY <2>1, DocumentsStay DEF PortalInv, AnsweredReal
  <2>3. answered' \subseteq [user : Users, request : Requests, document : 1..MaxDocs]
    BY <2>1 DEF PortalInv, TypeOK
  <2>4. th.pc \in Saving
    BY <2>1 DEF Saving
  <2>5. inner \in Texts /\ RealText(inner)
    BY <2>4, SavingHandler, RememberReal
  <2> HIDE DEF inner
  <2>6. PICK x \in {inner, Torn} :
           files' = [files EXCEPT ![FileOf(th.user, Writer[th.command])] = x]
    BY <2>1 DEF WriteOut
  <2>7. FileOf(th.user, Writer[th.command]) \in Files
    BY <2>4, SavingHandler
  <2>8. ThreadOK(t)' /\ thread'[t] \in Busy /\ thread' = [thread EXCEPT ![t] = thread'[t]]
    BY <2>1, SavesOn
  <2>9. excused' \subseteq Users \X Requests
    BY <2>1, <2>4, SavingHandler, ForgottenTypes DEF PortalInv, TypeOK
  <2> QED  BY <2>1, <2>2, <2>3, <2>5, <2>6, <2>7, <2>8, <2>9, FileStep
<1>3. CASE TruncateOuter(t)
  <2>1. /\ th.pc = "truncate2" /\ Goto(t, "save2")
        /\ files' = [files EXCEPT ![<<th.user, "portal">>] = Torn]
        /\ UNCHANGED <<command, stored, results, now, docs, answered, excused, crashes>>
    BY <1>3 DEF TruncateOuter, memory, history
  <2>2. AnsweredReal'
    BY <2>1, DocumentsStay DEF PortalInv, AnsweredReal
  <2>3. answered' \subseteq [user : Users, request : Requests, document : 1..MaxDocs]
    BY <2>1 DEF PortalInv, TypeOK
  <2>4. <<th.user, "portal">> \in Files
    BY <2>1, SavingHandler DEF Saving
  <2>5. ThreadOK(t)' /\ thread'[t] \in Busy /\ thread' = [thread EXCEPT ![t] = thread'[t]]
    BY <2>1, SavesOn
  <2>6. excused' \subseteq Users \X Requests
    BY <2>1 DEF PortalInv, TypeOK
  <2> QED  BY <2>1, <2>2, <2>3, <2>4, <2>5, <2>6, FileStep
<1>4. CASE SaveOuter(t)
  <2>1. /\ th.pc = "save2" /\ Leave(t)
        /\ WriteOut(<<th.user, "portal">>, outer)
        /\ answered' = answered \cup
               {[user |-> th.user, request |-> th.request, document |-> th.result]}
        /\ UNCHANGED <<command, stored, results, now, docs, crashes>>
        /\ excused' = excused \cup ({th.user} \X Forgotten(th.outer, th.request))
    BY <1>4 DEF SaveOuter, Answer, memory
  <2>2. th.pc \in Saving
    BY <2>1 DEF Saving
  <2>3. /\ th.user \in Users /\ th.request \in Requests /\ th.result \in 1..MaxDocs
        /\ Wrote(th.result, th.request) /\ <<th.user, "portal">> \in Files
    BY <2>2, SavingHandler
  <2>4. answered' \subseteq [user : Users, request : Requests, document : 1..MaxDocs]
    BY <2>1, <2>3 DEF PortalInv, TypeOK
  <2>5. AnsweredReal'
    <3>1. \A a \in answered' : Wrote(a.document, a.request)
      BY <2>1, <2>3 DEF PortalInv, AnsweredReal
    <3> QED  BY <3>1, <2>1, DocumentsStay DEF AnsweredReal
  <2>6. outer \in Texts /\ RealText(outer)
    BY <2>2, SavingHandler, RememberReal
  <2> HIDE DEF outer
  <2>7. PICK x \in {outer, Torn} : files' = [files EXCEPT ![<<th.user, "portal">>] = x]
    BY <2>1 DEF WriteOut
  <2>8. thread'[t] = Idle /\ thread' = [thread EXCEPT ![t] = thread'[t]]
    BY <2>1, LeavesOff
  <2>9. excused' \subseteq Users \X Requests
    BY <2>1, <2>2, SavingHandler, ForgottenTypes DEF PortalInv, TypeOK
  <2> QED  BY <2>1, <2>3, <2>4, <2>5, <2>6, <2>7, <2>8, <2>9, IdleIsOK, FileStep
<1> QED  BY <1>1, <1>2, <1>3, <1>4

-----------------------------------------------------------------------------
(* The other steps.                                                         *)
LEMMA PreviewKeeps ==
    ASSUME PortalInv, NEW u \in Users, NEW c \in Commands, Preview(u, c)
    PROVE  PortalInv'
<1> DEFINE new == [status |-> "pending", user |-> u, expires |-> now + TTL, result |-> 0]
<1>1. /\ command[c] = Unused
      /\ command' = [Purged EXCEPT ![c] = new]
      /\ stored' = Kept \cup {c}
      /\ UNCHANGED <<results, files, thread, now, docs, answered, excused, crashes>>
  BY DEF Preview, history
<1>2. new \in Command /\ new.status = "pending"
  BY PortalAssumption DEF PortalInv, TypeOK, Command
<1> HIDE DEF new
<1>3. \A b \in Commands : command'[b] = IF b = c THEN new ELSE Purged[b]
  BY <1>1, PurgeTypes DEF PortalInv
<1>4. command' \in [Commands -> Command \cup {Unused, Gone}]
  BY <1>1, <1>2, PurgeTypes DEF PortalInv
<1>5. stored' \subseteq {b \in Commands : command'[b] \in Command}
  BY <1>1, <1>2, <1>3, PurgeTypes DEF PortalInv
<1>6. StoreGrows
  BY <1>1, <1>2, <1>3, PurgeTypes DEF PortalInv, StoreGrows, Unused
<1>7. CompletedReal'
  BY <1>1, <1>2, <1>3, PurgeTypes DEF PortalInv, CompletedReal
<1>8. TypeOK'
  BY <1>1, <1>4, <1>5 DEF PortalInv, TypeOK
<1>9. ResultsReal' /\ FilesReal' /\ AnsweredReal'
  BY <1>1 DEF PortalInv, ResultsReal, FilesReal, AnsweredReal, RealText, Wrote
<1>10. \A t \in Threads : ThreadOK(t)'
  BY <1>1, <1>6, OthersKeep, DocumentsStay DEF PortalInv
<1> QED  BY <1>7, <1>8, <1>9, <1>10 DEF PortalInv

\* A confirmation starts with the session as it is, and replay says what it may rely on.
LEMMA ConfirmKeeps ==
    ASSUME PortalInv, NEW t \in Threads, NEW u \in Users, NEW c \in Commands,
           NEW r \in Requests, Confirm(t, u, c, r)
    PROVE  PortalInv'
<1> DEFINE text == files[<<u, "portal">>]
           replay == results[r] # 0 \/ command[c].status = "completed"
           new == [pc |-> "lookup", user |-> u, command |-> c, request |-> r,
                   outer |-> text, inner |-> <<>>, result |-> 0, replay |-> replay]
<1>1. /\ text # Torn
      /\ thread' = [thread EXCEPT ![t] = new]
      /\ UNCHANGED <<command, stored, results, files, now, docs, answered, crashes>>
  BY DEF Confirm, memory
<1>2. <<u, "portal">> \in Files
  BY DEF Files
<1>3. text \in Texts /\ RealText(text)
  BY <1>1, <1>2 DEF PortalInv, TypeOK, FilesReal
<1>4. <<>> \in Texts /\ RealText(<<>>)
  BY EmptyText
<1>5. replay \in BOOLEAN /\ 0 \in 0..MaxDocs
  BY PortalAssumption
<1> HIDE DEF text
<1>6. /\ new \in Busy /\ new.pc = "lookup" /\ new.outer = text /\ new.inner = <<>>
      /\ new.command = c /\ new.request = r /\ new.replay = replay
  BY <1>3, <1>4, <1>5 DEF Busy, PCs
<1> HIDE DEF new, replay
<1>7. thread'[t] = new /\ thread' = [thread EXCEPT ![t] = thread'[t]]
  BY <1>1 DEF PortalInv, TypeOK
<1>8. RealText(thread[t].outer)' /\ RealText(thread[t].inner)'
  BY <1>1, <1>3, <1>4, <1>6, <1>7, TextsStay
<1>9. ThreadOK(t)'
  BY <1>1, <1>6, <1>7, <1>8 DEF ThreadOK, Late, Saving, replay
<1>10. OuterTypes'
  <2>1. excused' \subseteq Users \X Requests
    BY DEF Confirm, PortalInv, TypeOK
  <2> QED  BY <1>1, <2>1 DEF PortalInv, TypeOK, OuterTypes
<1>11. /\ command' \in [Commands -> Command \cup {Unused, Gone}]
       /\ stored' \subseteq {b \in Commands : command'[b] \in Command}
       /\ StoreGrows /\ CompletedReal'
  BY <1>1, SameStoreKeeps DEF CompletedReal
<1>12. /\ results' \in [Requests -> 0..Len(docs')]
       /\ \A q \in Requests : results[q] # 0 => results'[q] # 0
       /\ ResultsReal' /\ FilesReal' /\ AnsweredReal'
  BY <1>1 DEF PortalInv, TypeOK, ResultsReal, FilesReal, AnsweredReal, RealText, Wrote
<1>13. /\ \A v \in Threads : v # t => thread'[v] = thread[v]
       /\ thread' = [v \in Threads |-> thread'[v]]
  BY <1>7 DEF PortalInv, TypeOK
<1>14. \A d, q : Wrote(d, q) => Wrote(d, q)'
  BY <1>1, DocumentsStay
<1> QED  BY <1>6, <1>7, <1>9, <1>10, <1>11, <1>12, <1>13, <1>14, OneHandler

LEMMA TickKeeps ==
    ASSUME PortalInv, Tick
    PROVE  PortalInv'
<1>1. /\ now' \in 0..MaxTime
      /\ UNCHANGED <<command, stored, results, files, thread, docs, answered, excused, crashes>>
  BY PortalAssumption DEF Tick, PortalInv, TypeOK, memory, history
<1>2. TypeOK'
  BY <1>1 DEF PortalInv, TypeOK
<1>3. /\ ResultsReal' /\ FilesReal' /\ AnsweredReal' /\ CompletedReal'
      /\ \A d, r : Wrote(d, r) => Wrote(d, r)'
  BY <1>1 DEF PortalInv, ResultsReal, FilesReal, AnsweredReal, CompletedReal, RealText, Wrote
<1>4. StoreGrows /\ \A r \in Requests : results[r] # 0 => results'[r] # 0
  BY <1>1 DEF StoreGrows
<1>5. \A t \in Threads : ThreadOK(t)'
  BY <1>1, <1>3, <1>4, OthersKeep DEF PortalInv
<1> QED  BY <1>2, <1>3, <1>5 DEF PortalInv

\* A crash forgets what the memory promised, and with it every handler that relied on it.
LEMMA CrashKeeps ==
    ASSUME PortalInv, Crash
    PROVE  PortalInv'
<1>1. /\ crashes' \in 0..MaxCrashes
      /\ command' = [c \in Commands |-> IF command[c] = Unused THEN Unused ELSE Gone]
      /\ stored' = {}
      /\ results' = [r \in Requests |-> 0]
      /\ thread' = [t \in Threads |-> Idle]
      /\ UNCHANGED <<files, now, docs, answered, excused>>
  BY PortalAssumption DEF Crash, PortalInv, TypeOK
<1>2. results' \in [Requests -> 0..Len(docs')]
  <2>1. Len(docs) \in Nat
    BY DocsSeq, PortalAssumption DEF PortalInv
  <2> QED  BY <1>1, <2>1
<1>3. command' \in [Commands -> Command \cup {Unused, Gone}]
  BY <1>1
<1>4. thread' \in [Threads -> Busy \cup {Idle}]
  BY <1>1
<1>5. TypeOK'
  BY <1>1, <1>2, <1>3, <1>4 DEF PortalInv, TypeOK
<1>6. ResultsReal' /\ FilesReal' /\ AnsweredReal'
  BY <1>1 DEF PortalInv, ResultsReal, FilesReal, AnsweredReal, RealText, Wrote
<1>7. CompletedReal'
  BY <1>1 DEF CompletedReal, Unused, Gone
<1>8. \A t \in Threads : ThreadOK(t)'
  BY <1>1, IdleIsOK
<1> QED  BY <1>5, <1>6, <1>7, <1>8 DEF PortalInv

LEMMA StutterKeeps ==
    ASSUME PortalInv, UNCHANGED vars
    PROVE  PortalInv'
<1>1. UNCHANGED <<command, stored, results, files, thread, now, docs, answered, excused, crashes>>
  BY DEF vars
<1>2. TypeOK'
  BY <1>1 DEF PortalInv, TypeOK
<1>3. /\ ResultsReal' /\ FilesReal' /\ AnsweredReal' /\ CompletedReal'
      /\ \A d, r : Wrote(d, r) => Wrote(d, r)'
  BY <1>1 DEF PortalInv, ResultsReal, FilesReal, AnsweredReal, CompletedReal, RealText, Wrote
<1>4. StoreGrows /\ \A r \in Requests : results[r] # 0 => results'[r] # 0
  BY <1>1 DEF StoreGrows
<1>5. \A t \in Threads : ThreadOK(t)'
  BY <1>1, <1>3, <1>4, OthersKeep DEF PortalInv
<1> QED  BY <1>2, <1>3, <1>5 DEF PortalInv

LEMMA InitHolds ==
    ASSUME Init
    PROVE  PortalInv
<1>1. docs = <<>> /\ Len(docs) = 0 /\ DOMAIN docs = {}
  BY DEF Init
<1>2. <<>> \in Texts /\ RealText(<<>>)
  BY EmptyText
<1>3. docs \in UNION {[1..n -> [user : Users, request : Requests]] : n \in 0..MaxDocs}
  <2> DEFINE D == [user : Users, request : Requests]
  <2>1. docs \in Seq(D)
    BY <1>1, EmptySeq
  <2> HIDE DEF D
  <2>2. docs \in [1..0 -> D] /\ 0 \in 0..MaxDocs
    BY <1>1, <2>1, LenProperties, PortalAssumption
  <2>3. docs \in UNION {[1..n -> D] : n \in 0..MaxDocs}
    BY <2>2
  <2> QED  BY <2>3 DEF D
<1>4. results \in [Requests -> 0..Len(docs)]
  BY <1>1 DEF Init
<1>5. TypeOK
  <2>1. command \in [Commands -> Command \cup {Unused, Gone}] /\ stored = {}
    BY DEF Init
  <2>2. files \in [Files -> Texts \cup {Torn}] /\ thread \in [Threads -> Busy \cup {Idle}]
    BY <1>2 DEF Init
  <2>3. /\ now \in 0..MaxTime /\ crashes \in 0..MaxCrashes
        /\ answered = {} /\ excused = {}
    BY PortalAssumption DEF Init
  <2> QED  BY <1>3, <1>4, <2>1, <2>2, <2>3 DEF TypeOK
<1>6. ResultsReal /\ FilesReal /\ AnsweredReal /\ CompletedReal
  BY <1>2 DEF Init, ResultsReal, FilesReal, AnsweredReal, CompletedReal, Unused
<1>7. \A t \in Threads : ThreadOK(t)
  BY DEF Init, ThreadOK, Idle
<1> QED  BY <1>5, <1>6, <1>7 DEF PortalInv

LEMMA NextKeeps ==
    ASSUME PortalInv, [Next]_vars
    PROVE  PortalInv'
<1>1. CASE UNCHANGED vars
  BY <1>1, StutterKeeps
<1>2. ASSUME NEW u \in Users, NEW c \in Commands, Preview(u, c) PROVE PortalInv'
  BY <1>2, PreviewKeeps
<1>3. ASSUME NEW t \in Threads, NEW u \in Users, NEW c \in Commands, NEW r \in Requests,
             Confirm(t, u, c, r)
      PROVE  PortalInv'
  BY <1>3, ConfirmKeeps
<1>4. ASSUME NEW t \in Threads,
             \/ LookupReplay(t) \/ LookupMiss(t) \/ GetCommand(t)
             \/ RecheckPlain(t) \/ RecheckWriter(t)
             \/ WriteDocument(t) \/ Readback(t) \/ Fail(t)
             \/ RememberRequest(t) \/ TruncateInner(t) \/ SaveInner(t)
             \/ CompleteCommand(t) \/ TruncateOuter(t) \/ SaveOuter(t)
      PROVE  PortalInv'
  BY <1>4, LookupReplayKeeps, LookupMissKeeps, GetCommandKeeps, RecheckPlainKeeps,
     RecheckWriterKeeps, WriteDocumentKeeps, ReadbackKeeps, FailKeeps, RememberRequestKeeps,
     CompleteCommandKeeps, SaveFileKeeps
<1>5. CASE Tick
  BY <1>5, TickKeeps
<1>6. CASE Crash
  BY <1>6, CrashKeeps
<1> QED  BY <1>1, <1>2, <1>3, <1>4, <1>5, <1>6 DEF Next

THEOREM PortalHolds == Spec => []PortalInv
<1>1. Init => PortalInv
  BY InitHolds
<1>2. PortalInv /\ [Next]_vars => PortalInv'
  BY NextKeeps
<1> QED  BY <1>1, <1>2, PTL DEF Spec

\* The types of the store, the session files, the handlers and the documents.
THEOREM TypeCorrect == Spec => []TypeOK
<1>1. PortalInv => TypeOK
  BY DEF PortalInv
<1> QED  BY <1>1, PortalHolds, PTL

\* Whatever is remembered or was answered for a request_id is a document ERPNext wrote
\* for that request_id, crashes, torn files and overlapping confirmations included.
THEOREM ResultsAreReal == Spec => []ResultIsReal
<1>1. PortalInv => ResultIsReal
  BY DEF PortalInv, TypeOK, ResultIsReal, ResultsReal, FilesReal, AnsweredReal,
         CompletedReal, RealText, Wrote
<1> QED  BY <1>1, PortalHolds, PTL

\* A confirmation that finds its request_id remembered, or its command completed, when it
\* starts never reaches a write.
THEOREM NeverRerun == Spec => []NoRerun
<1>1. PortalInv => NoRerun
  BY DEF PortalInv, ThreadOK, NoRerun, Late
<1> QED  BY <1>1, PortalHolds, PTL

-----------------------------------------------------------------------------
(* What becomes of a command.                                               *)
\* One command over one step.
Settled(c) ==
    /\ command[c].status = "completed" => command'[c].status \in {"completed", "gone"}
    /\ command[c].status \in {"expired", "gone"} => command'[c].status # "pending"
    /\ command[c] # Unused /\ c \notin stored => c \notin stored'

LEMMA PurgeSettles ==
    ASSUME PortalInv, Purge \/ UNCHANGED <<command, stored>>, NEW c \in Commands
    PROVE  Settled(c)
BY PurgeTypes DEF Purge, Settled, PortalInv

LEMMA PreviewSettles ==
    ASSUME PortalInv, NEW u \in Users, NEW b \in Commands, Preview(u, b), NEW c \in Commands
    PROVE  Settled(c)
<1>1. CASE c = b
  <2>1. command[c] = Unused
    BY <1>1 DEF Preview
  <2> QED  BY <2>1 DEF Settled, Unused
<1>2. CASE c # b
  <2>1. command'[c] = Purged[c] /\ stored' = Kept \cup {b}
    BY <1>2, PurgeTypes DEF Preview, PortalInv
  <2> QED  BY <1>2, <2>1, PurgeTypes DEF Settled, PortalInv
<1> QED  BY <1>1, <1>2

LEMMA CompleteSettles ==
    ASSUME PortalInv, NEW t \in Threads, CompleteCommand(t), NEW c \in Commands
    PROVE  Settled(c)
<1> DEFINE b == thread[t].command
           done == [Purged[b] EXCEPT !.status = "completed", !.result = thread[t].result]
<1>1. command' = [Purged EXCEPT ![b] = done] /\ stored' = Kept
  BY DEF CompleteCommand
<1>2. CASE c = b
  <2>1. thread[t] \in Busy /\ b \in Commands /\ Purged[b] \in Command
    <3>1. thread[t] \in Busy
      BY DEF PortalInv, TypeOK, CompleteCommand, Idle
    <3>2. b \in Commands /\ command[b] \in Command
      BY <3>1 DEF PortalInv, ThreadOK, CompleteCommand, Saving, Busy
    <3> QED  BY <3>1, <3>2, PurgeTypes DEF PortalInv
  <2>2. command'[c] = done /\ done.status = "completed"
    BY <1>1, <1>2, <2>1, PurgeTypes DEF PortalInv, Command
  <2> QED  BY <1>1, <2>2, PurgeTypes DEF Settled, PortalInv
<1>3. CASE c # b
  <2>1. command'[c] = Purged[c]
    BY <1>1, <1>3, PurgeTypes DEF PortalInv
  <2> QED  BY <1>1, <2>1, PurgeTypes DEF Settled, PortalInv
<1> QED  BY <1>2, <1>3

LEMMA CrashSettles ==
    ASSUME PortalInv, Crash, NEW c \in Commands
    PROVE  Settled(c)
BY DEF Crash, Settled, Unused, Gone

LEMMA StepSettles ==
    ASSUME PortalInv, [Next]_vars, NEW c \in Commands
    PROVE  Settled(c)
<1>1. CASE UNCHANGED vars \/ Tick
  BY <1>1, PurgeSettles DEF vars, Tick, memory
<1>2. ASSUME NEW u \in Users, NEW b \in Commands, Preview(u, b) PROVE Settled(c)
  BY <1>2, PreviewSettles
<1>3. ASSUME NEW t \in Threads, NEW u \in Users, NEW b \in Commands, NEW r \in Requests,
             Confirm(t, u, b, r)
      PROVE  Settled(c)
  BY <1>3, PurgeSettles DEF Confirm, memory
<1>4. ASSUME NEW t \in Threads,
             \/ LookupReplay(t) \/ LookupMiss(t) \/ GetCommand(t)
             \/ RecheckPlain(t) \/ WriteDocument(t) \/ Readback(t) \/ Fail(t)
             \/ RememberRequest(t) \/ TruncateInner(t) \/ SaveInner(t)
             \/ TruncateOuter(t) \/ SaveOuter(t)
      PROVE  Settled(c)
  <2>1. Purge \/ UNCHANGED <<command, stored>>
    BY <1>4 DEF LookupReplay, LookupMiss, GetCommand, RecheckPlain, WriteDocument, Readback,
                Fail, RememberRequest, TruncateInner, SaveInner, TruncateOuter, SaveOuter, memory
  <2> QED  BY <2>1, PurgeSettles
<1>5. ASSUME NEW t \in Threads, RecheckWriter(t) PROVE Settled(c)
  BY <1>5, PurgeSettles, Zenon DEF RecheckWriter
<1>6. ASSUME NEW t \in Threads, CompleteCommand(t) PROVE Settled(c)
  BY <1>6, CompleteSettles
<1>7. CASE Crash
  BY <1>7, CrashSettles
<1> QED  BY <1>1, <1>2, <1>3, <1>4, <1>5, <1>6, <1>7 DEF Next

\* No step of any thread, and no crash, offers a completed command again or brings an
\* expired or dropped one back.
THEOREM SettledForGood == Spec => CompletedForGood
<1>1. PortalInv /\ [Next]_vars => [\A c \in Commands : Settled(c)]_vars
  BY StepSettles
<1>2. Spec => [][\A c \in Commands : Settled(c)]_vars
  BY <1>1, PortalHolds, PTL DEF Spec
<1>3. [][\A c \in Commands : Settled(c)]_vars => CompletedForGood
  BY DEF CompletedForGood, Settled
<1> QED  BY <1>2, <1>3

-----------------------------------------------------------------------------
(* A request that was answered is not written again.                        *)
Has(x, r) == \E i \in DOMAIN x : x[i].request = r

\* Nothing the user confirms gets past a torn file, or past a file with the request.
Portal(u)      == files[<<u, "portal">>]
KeptFor(u, r)  == Portal(u) = Torn \/ Has(Portal(u), r)
Answered(u, r) == \E a \in answered : a.user = u /\ a.request = r

\* From its start to the truncation of a file a handler has the session as it was
\* when it started, and from the result being remembered it ends by saving it.
Early    == {"lookup", "get", "recheck", "write", "readback", "remember", "truncate1"}
Settling == {"truncate1", "save1", "complete", "truncate2", "save2"}

\* A writer that saves to the portal's file has read what the handler started with.
SameSession(t) ==
    LET th     == thread[t]
        writer == Writer[th.command] IN
    /\ th.pc \in {"write", "readback"} /\ writer \in {"request", "buying"} => th.inner = th.outer
    /\ th.pc \in {"remember", "truncate1", "save1"} /\ writer # "approval" => th.inner = th.outer

\* What the session of a handler says of a request of its user.
Informed(t, r) ==
    LET th == thread[t] IN
    /\ Answered(th.user, r) => Has(th.outer, r)
    /\ results[r] # 0 => Has(th.outer, r) \/ (th.request = r /\ th.pc \in Settling)
    /\ th.request = r /\ th.pc # "lookup" => ~Has(th.outer, r)
    /\ th.pc \in Early => Portal(th.user) = th.outer
    /\ SameSession(t)

\* A request nothing excuses has one user, who has one handler at a time, and what is
\* remembered or was answered for it is in that user's file, or about to be.
PairInv(u, r) ==
    <<u, r>> \notin excused =>
        /\ \A t \in Threads : thread[t].pc # "idle" /\ thread[t].request = r => thread[t].user = u
        /\ \A s, t \in Threads :
              /\ thread[s].pc # "idle" /\ thread[s].user = u
              /\ thread[t].pc # "idle" /\ thread[t].user = u
              => s = t
        /\ Answered(u, r) => KeptFor(u, r)
        /\ results[r] # 0 =>
              \/ KeptFor(u, r)
              \/ \E t \in Threads : thread[t].pc \in Settling /\ thread[t].request = r
        /\ \A t \in Threads : thread[t].pc # "idle" /\ thread[t].user = u => Informed(t, r)

LEMMA RecallHas ==
    ASSUME NEW x \in Texts, NEW r
    PROVE  Recall(x, r) # 0 <=> Has(x, r)
<1>1. CASE Has(x, r)
  <2> DEFINE e == CHOOSE e \in {x[i] : i \in DOMAIN x} : e.request = r
  <2>1. e \in {x[i] : i \in DOMAIN x} /\ Recall(x, r) = e.result
    BY <1>1 DEF Has, Recall
  <2>2. \A i \in DOMAIN x : x[i] \in Entry
    BY TextIsSeq, LenProperties
  <2>3. e \in Entry
    BY <2>1, <2>2
  <2> HIDE DEF e
  <2> QED  BY <1>1, <2>1, <2>3 DEF Entry
<1>2. CASE ~Has(x, r)
  BY <1>2 DEF Has, Recall
<1> QED  BY <1>1, <1>2

\* A session that is saved has the request it is saved for, and every other one it had
\* but the one it forgets.
LEMMA RememberHas ==
    ASSUME NEW x \in Texts, NEW q \in Requests, NEW d \in 1..MaxDocs
    PROVE  /\ Has(Remember(x, q, d), q)
           /\ \A r \in Requests : Has(x, r) /\ r \notin Forgotten(x, q) => Has(Remember(x, q, d), r)
<1> DEFINE e == [request |-> q, result |-> d]
           y == Append(x, e)
<1>1. e \in Entry /\ e.request = q
  BY DEF Entry
<1>2. x \in Seq(Entry) /\ Len(x) <= Capacity /\ Len(x) \in Nat /\ DOMAIN x = 1..Len(x)
  BY TextIsSeq, LenProperties
<1> HIDE DEF e
<1>3. CASE Recall(x, q) # 0
  <2> DEFINE z == [i \in DOMAIN x |-> IF x[i].request = q THEN e ELSE x[i]]
  <2>1. Remember(x, q, d) = z
    BY <1>3, Zenon DEF Remember, e
  <2>2. \A i \in DOMAIN x : z[i].request = x[i].request /\ i \in DOMAIN z
    BY <1>1
  <2>3. \A r : Has(x, r) => Has(z, r)
    BY <2>2, Zenon DEF Has
  <2>4. Has(x, q)
    BY <1>3, RecallHas
  <2> QED  BY <2>1, <2>3, <2>4
<1>4. CASE Recall(x, q) = 0
  <2>1. /\ y \in Seq(Entry) /\ Len(y) = Len(x) + 1
        /\ \A i \in 1..Len(x) : y[i] = x[i]
        /\ y[Len(x) + 1] = e
    BY <1>1, <1>2, AppendProperties
  <2>2. DOMAIN y = 1..(Len(x) + 1)
    BY <2>1, LenProperties
  <2>3. Remember(x, q, d) = IF Len(y) > Capacity THEN Tail(y) ELSE y
    BY <1>4, Zenon DEF Remember, e
  <2>4. CASE Len(y) > Capacity
    <3>1. Len(x) = Capacity /\ Len(x) >= 1
      <4>1. Capacity \in Nat /\ Capacity >= 1
        BY PortalAssumption
      <4>2. PICK n \in Nat : n = Len(x) /\ n <= Capacity /\ n + 1 > Capacity
        BY <1>2, <2>1, <2>4
      <4> QED  BY <4>1, <4>2
    <3>2. /\ Tail(y) \in Seq(Entry) /\ Len(Tail(y)) = Len(x)
          /\ \A i \in 1..Len(Tail(y)) : Tail(y)[i] = y[i + 1]
      BY <1>2, <2>1, EmptySeq, LenProperties, HeadTailProperties
    <3>3. DOMAIN Tail(y) = 1..Len(x)
      BY <3>2, LenProperties
    <3>4. Has(Tail(y), q)
      BY <1>1, <1>2, <2>1, <3>1, <3>2, <3>3 DEF Has
    <3>5. ASSUME NEW r \in Requests, Has(x, r), r \notin Forgotten(x, q)
          PROVE  Has(Tail(y), r)
      <4>1. x[1].request # r
        BY <1>4, <3>1, <3>5 DEF Forgotten
      <4>2. PICK i \in 1..Len(x) : x[i].request = r
        BY <1>2, <3>5 DEF Has
      <4>3. i - 1 \in 1..Len(x) /\ Tail(y)[i - 1] = x[i]
        BY <1>2, <2>1, <3>2, <4>1, <4>2
      <4> QED  BY <3>3, <4>2, <4>3 DEF Has
    <3>6. Remember(x, q, d) = Tail(y)
      BY <2>3, <2>4, Zenon
    <3> QED  BY <3>4, <3>5, <3>6, Zenon
  <2>5. CASE ~(Len(y) > Capacity)
    <3>1. Remember(x, q, d) = y
      BY <2>3, <2>5, Zenon
    <3>2. Has(y, q) /\ \A r : Has(x, r) => Has(y, r)
      BY <1>1, <1>2, <2>1, <2>2 DEF Has
    <3> QED  BY <3>1, <3>2, Zenon
  <2> QED  BY <2>4, <2>5
<1> QED  BY <1>3, <1>4

LEMMA TextOf ==
    ASSUME PortalInv, NEW t \in Threads, thread[t].pc # "idle"
    PROVE  /\ thread[t] \in Busy /\ thread[t].user \in Users /\ thread[t].request \in Requests
           /\ thread[t].outer \in Texts /\ thread[t].command \in Commands
           /\ thread[t].pc \in PCs /\ Writer[thread[t].command] \in Writers
<1>1. thread[t] \in Busy
  BY DEF PortalInv, TypeOK, Idle
<1> QED  BY <1>1, PortalAssumption DEF Busy

LEMMA NeverLess == [Next]_vars => excused \subseteq excused'
<1> SUFFICES ASSUME [Next]_vars PROVE excused \subseteq excused'
  OBVIOUS
<1>1. CASE UNCHANGED vars
  BY <1>1 DEF vars
<1>2. ASSUME NEW t \in Threads,
             \/ LookupMiss(t) \/ GetCommand(t) \/ RecheckPlain(t) \/ RecheckWriter(t)
             \/ WriteDocument(t) \/ Readback(t) \/ Fail(t)
             \/ RememberRequest(t) \/ TruncateInner(t) \/ CompleteCommand(t) \/ TruncateOuter(t)
      PROVE  excused' = excused
  BY <1>2 DEF LookupMiss, GetCommand, RecheckPlain, RecheckWriter, WriteDocument, Readback, Fail,
              RememberRequest, TruncateInner, CompleteCommand, TruncateOuter, history
<1>3. ASSUME NEW t \in Threads, LookupReplay(t) \/ SaveInner(t) \/ SaveOuter(t)
      PROVE  excused \subseteq excused'
  BY <1>3 DEF LookupReplay, SaveInner, SaveOuter
<1>4. ASSUME NEW t \in Threads, NEW u \in Users, NEW c \in Commands, NEW r \in Requests,
             Confirm(t, u, c, r)
      PROVE  excused \subseteq excused'
  BY <1>4 DEF Confirm
<1>5. CASE Tick \/ Crash \/ \E u \in Users, c \in Commands : Preview(u, c)
  BY <1>5 DEF Tick, Crash, Preview, history
<1> QED  BY <1>1, <1>2, <1>3, <1>4, <1>5 DEF Next

\* What a step of one handler has to keep for a pair: it stays with its user and request
\* or ends, what is known of the request is kept, and the user's handlers are informed.
LEMMA OneHandlersPair ==
    ASSUME NEW u \in Users, NEW r \in Requests, PairInv(u, r), excused \subseteq excused',
           NEW t \in Threads, thread[t].pc # "idle",
           \A s \in Threads \ {t} : thread'[s] = thread[s],
           \/ thread'[t].pc = "idle"
           \/ thread'[t].user = thread[t].user /\ thread'[t].request = thread[t].request,
           <<u, r>> \notin excused' =>
              /\ Answered(u, r)' => KeptFor(u, r)'
              /\ results'[r] # 0 =>
                    \/ KeptFor(u, r)'
                    \/ \E s \in Threads : thread'[s].pc \in Settling /\ thread'[s].request = r
              /\ \A s \in Threads : thread'[s].pc # "idle" /\ thread'[s].user = u
                                       => Informed(s, r)'
    PROVE  PairInv(u, r)'
<1> SUFFICES ASSUME <<u, r>> \notin excused' PROVE PairInv(u, r)'
  BY DEF PairInv
<1>1. <<u, r>> \notin excused
  OBVIOUS
<1>2. \A s \in Threads : thread'[s].pc # "idle" =>
         /\ thread[s].pc # "idle"
         /\ thread'[s].user = thread[s].user /\ thread'[s].request = thread[s].request
  OBVIOUS
<1> QED  BY <1>1, <1>2 DEF PairInv

\* A handler of another user has nothing to do with the pair.
LEMMA OthersPair ==
    ASSUME NEW u \in Users, NEW r \in Requests, PairInv(u, r), excused \subseteq excused',
           NEW t \in Threads, thread[t].pc # "idle", thread[t].user # u,
           \A s \in Threads \ {t} : thread'[s] = thread[s],
           \/ thread'[t].pc = "idle"
           \/ thread'[t].user = thread[t].user /\ thread'[t].request = thread[t].request,
           Portal(u)' = Portal(u),
           results'[r] = results[r] \/ thread[t].request = r,
           Answered(u, r)' => Answered(u, r)
    PROVE  PairInv(u, r)'
<1> SUFFICES ASSUME <<u, r>> \notin excused' PROVE PairInv(u, r)'
  BY DEF PairInv
<1>1. <<u, r>> \notin excused /\ thread[t].request # r
  BY DEF PairInv
<1>2. \A s \in Threads : thread'[s].pc # "idle" /\ thread'[s].user = u =>
         s # t /\ thread'[s] = thread[s]
  OBVIOUS
<1>3. KeptFor(u, r)' = KeptFor(u, r)
  BY DEF KeptFor
<1>4. \A s \in Threads : thread'[s].pc # "idle" /\ thread'[s].user = u => Informed(s, r)'
  BY <1>1, <1>2 DEF PairInv, Informed, SameSession
<1>5. \A s \in Threads : thread[s].pc \in Settling /\ thread[s].request = r =>
         thread'[s].pc \in Settling /\ thread'[s].request = r
  BY <1>1
<1> QED  BY <1>1, <1>3, <1>4, <1>5, OneHandlersPair DEF PairInv

\* A step that touches neither files nor results: the session stays what it was.
LEMMA QuietPair ==
    ASSUME NEW u \in Users, NEW r \in Requests, PairInv(u, r), excused \subseteq excused',
           NEW t \in Threads, thread[t].pc \in Early \ {"truncate1"},
           \A s \in Threads \ {t} : thread'[s] = thread[s],
           UNCHANGED <<results, files, answered>>,
           \/ thread'[t].pc = "idle"
           \/ /\ thread'[t].user = thread[t].user /\ thread'[t].request = thread[t].request
              /\ thread'[t].outer = thread[t].outer
              /\ thread[t].pc = "lookup" => ~Has(thread[t].outer, thread[t].request)
              /\ \A q \in Requests : Informed(t, q) => SameSession(t)'
    PROVE  PairInv(u, r)'
<1>0. thread[t].pc # "idle" /\ thread[t].pc \notin Settling /\ thread[t].pc \in Early
  BY DEF Early, Settling
<1>1. CASE thread[t].user # u
  BY <1>0, <1>1, OthersPair DEF Portal, Answered
<1>2. CASE thread[t].user = u
  <2> SUFFICES ASSUME <<u, r>> \notin excused' PROVE PairInv(u, r)'
    BY DEF PairInv
  <2>1. /\ Informed(t, r) /\ <<u, r>> \notin excused
        /\ \A s \in Threads \ {t} : thread[s].pc # "idle" => thread[s].user # u
    BY <1>0, <1>2 DEF PairInv
  <2>2. Answered(u, r)' = Answered(u, r) /\ KeptFor(u, r)' = KeptFor(u, r)
        /\ Portal(u)' = Portal(u)
    BY DEF Answered, KeptFor, Portal
  <2>3. results[r] # 0 => KeptFor(u, r)
    <3>1. \A s \in Threads : ~(thread[s].pc \in Settling /\ thread[s].request = r)
      BY <1>0, <2>1 DEF PairInv, Settling
    <3> QED  BY <2>1, <3>1 DEF PairInv
  <2>4. thread'[t].pc # "idle" => Informed(t, r)'
    BY <1>0, <1>2, <2>1, <2>2 DEF Informed
  <2>5. \A s \in Threads : thread'[s].pc # "idle" /\ thread'[s].user = u => Informed(s, r)'
    BY <2>1, <2>4
  <2> QED  BY <1>0, <2>1, <2>2, <2>3, <2>5, OneHandlersPair DEF PairInv
<1> QED  BY <1>1, <1>2

LEMMA QuietStepsPair ==
    ASSUME PortalInv, NEW u \in Users, NEW r \in Requests, PairInv(u, r),
           excused \subseteq excused', NEW t \in Threads,
           \/ LookupMiss(t) \/ GetCommand(t) \/ RecheckPlain(t) \/ RecheckWriter(t)
           \/ WriteDocument(t) \/ Readback(t) \/ Fail(t)
    PROVE  PairInv(u, r)'
<1>0. thread[t].pc \in Early \ {"truncate1"} /\ thread[t].pc # "idle"
      /\ UNCHANGED <<results, files, answered>>
  BY DEF LookupMiss, GetCommand, RecheckPlain, RecheckWriter, WriteDocument, Readback, Fail,
         Early, memory, history
<1>1. thread \in [Threads -> Busy \cup {Idle}]
  BY DEF PortalInv, TypeOK
<1>2. ASSUME Leave(t) PROVE PairInv(u, r)'
  <2>1. thread'[t].pc = "idle" /\ \A s \in Threads \ {t} : thread'[s] = thread[s]
    BY <1>1, <1>2 DEF Leave, Idle
  <2> QED  BY <1>0, <2>1, QuietPair
<1>3. ASSUME NEW pc \in PCs, Goto(t, pc),
             thread[t].pc = "lookup" => ~Has(thread[t].outer, thread[t].request),
             \A q \in Requests : Informed(t, q) => SameSession(t)'
      PROVE  PairInv(u, r)'
  <2>1. \A s \in Threads \ {t} : thread'[s] = thread[s]
    BY <1>1, <1>3 DEF Goto
  <2> QED  BY <1>0, <1>3, <2>1, MovesOn, QuietPair
<1>4. CASE LookupMiss(t)
  <2>1. "get" \in PCs /\ Goto(t, "get")
    BY <1>4 DEF LookupMiss, PCs
  <2>2. ~Has(thread[t].outer, thread[t].request)
    <3>1. Recall(thread[t].outer, thread[t].request) = 0
      BY <1>4 DEF LookupMiss, Cached
    <3> QED  BY <1>0, <3>1, RecallHas, TextOf
  <2>3. SameSession(t)'
    BY <1>0, <2>1, MovesOn DEF SameSession
  <2> QED  BY <1>3, <2>1, <2>2, <2>3
<1>5. CASE GetCommand(t)
  <2>1. CASE Goto(t, "recheck")
    <3>1. "recheck" \in PCs /\ thread[t].pc # "lookup"
      BY <1>5 DEF GetCommand, PCs
    <3>2. SameSession(t)'
      BY <1>0, <2>1, <3>1, MovesOn DEF SameSession
    <3> QED  BY <1>3, <2>1, <3>1, <3>2
  <2> QED  BY <1>2, <1>5, <2>1 DEF GetCommand
<1>6. CASE RecheckPlain(t)
  <2>1. "write" \in PCs /\ Goto(t, "write") /\ thread[t].pc # "lookup"
        /\ Writer[thread[t].command] = "plain"
    BY <1>6 DEF RecheckPlain, PCs
  <2>2. SameSession(t)'
    BY <1>0, <2>1, MovesOn DEF SameSession
  <2> QED  BY <1>3, <2>1, <2>2
<1>7. CASE RecheckWriter(t)
  <2> DEFINE th     == thread[t]
             writer == Writer[th.command]
             text   == files[FileOf(th.user, writer)]
             found  == IF writer = "request" THEN Cached(th, text) ELSE Recall(text, th.request)
             pc     == IF found # 0 THEN "complete" ELSE "write"
             new    == [th EXCEPT !.inner = text, !.result = found, !.pc = pc]
  <2>1. th.pc = "recheck" /\ writer # "plain" /\ thread' = [thread EXCEPT ![t] = new]
    BY <1>7 DEF RecheckWriter
  <2>2. th \in Busy
    BY <1>0, TextOf
  <2>3. thread'[t] = new /\ \A s \in Threads \ {t} : thread'[s] = thread[s]
    BY <1>1, <2>1
  <2> HIDE DEF found
  <2>4. /\ new.user = th.user /\ new.request = th.request /\ new.outer = th.outer
        /\ new.command = th.command /\ new.inner = text /\ new.pc \in {"complete", "write"}
    BY <2>2 DEF Busy
  <2>5. ASSUME NEW q \in Requests, Informed(t, q) PROVE SameSession(t)'
    <3>1. Portal(th.user) = th.outer
      BY <1>0, <2>5 DEF Informed
    <3>2. writer \in {"request", "buying"} => text = th.outer
      BY <3>1 DEF FileOf, Portal
    <3> QED  BY <2>3, <2>4, <3>2 DEF SameSession
  <2>6. th.pc # "lookup"
    BY <2>1
  <2> HIDE DEF new
  <2> QED  BY <1>0, <2>3, <2>4, <2>5, <2>6, QuietPair
<1>8. CASE WriteDocument(t)
  <2>1. CASE Leave(t)
    BY <1>2, <2>1
  <2>2. CASE thread' = [thread EXCEPT ![t].pc = "readback", ![t].result = Len(docs) + 1]
    <3> DEFINE new == [thread[t] EXCEPT !.pc = "readback", !.result = Len(docs) + 1]
    <3>1. thread[t] \in Busy /\ thread[t].pc = "write"
      BY <1>0, <1>8, TextOf DEF WriteDocument
    <3>2. thread'[t] = new /\ \A s \in Threads \ {t} : thread'[s] = thread[s]
      BY <1>1, <2>2
    <3>3. /\ new.user = thread[t].user /\ new.request = thread[t].request
          /\ new.outer = thread[t].outer /\ new.command = thread[t].command
          /\ new.inner = thread[t].inner /\ new.pc = "readback"
      BY <3>1 DEF Busy
    <3> HIDE DEF new
    <3>4. ASSUME NEW q \in Requests, Informed(t, q) PROVE SameSession(t)'
      BY <3>1, <3>2, <3>3, <3>4 DEF Informed, SameSession
    <3> QED  BY <1>0, <3>1, <3>2, <3>3, <3>4, QuietPair
  <2> QED  BY <1>8, <2>1, <2>2 DEF WriteDocument
<1>9. CASE Readback(t)
  <2> DEFINE writer == Writer[thread[t].command]
  <2>1. PICK pc \in {"remember", "complete", "truncate1"} :
           /\ Goto(t, pc) /\ thread[t].pc = "readback"
           /\ pc # "complete" => writer # "plain"
    BY <1>9 DEF Readback
  <2>2. pc \in PCs
    BY <2>1 DEF PCs
  <2>3. writer \in Writers
    BY <1>0, TextOf
  <2>4. ASSUME NEW q \in Requests, Informed(t, q) PROVE SameSession(t)'
    BY <1>0, <2>1, <2>2, <2>3, <2>4, MovesOn DEF Informed, SameSession, Writers
  <2> QED  BY <1>3, <2>1, <2>2, <2>4
<1> QED  BY <1>2, <1>4, <1>5, <1>6, <1>7, <1>8, <1>9 DEF Fail

\* Every other step of a handler: its user's file may change, a result may be remembered
\* and an answer given, as far as the handler's session and what it is about allow.
LEMMA SettlingPair ==
    ASSUME PortalInv, NEW u \in Users, NEW r \in Requests, PairInv(u, r),
           excused \subseteq excused',
           NEW t \in Threads, thread[t].pc # "idle",
           \A s \in Threads \ {t} : thread'[s] = thread[s],
           \A v \in Users \ {thread[t].user} : Portal(v)' = Portal(v),
           \A q \in Requests \ {thread[t].request} : results'[q] = results[q],
           \A v \in Users, q \in Requests : Answered(v, q)' =>
              Answered(v, q) \/ (v = thread[t].user /\ q = thread[t].request),
           \/ thread'[t].pc = "idle"
           \/ /\ thread'[t].user = thread[t].user /\ thread'[t].request = thread[t].request
              /\ thread'[t].outer = thread[t].outer
              /\ thread[t].pc # "lookup" /\ thread'[t].pc \in Settling
              /\ answered' = answered
              /\ thread'[t].pc = "truncate1" => UNCHANGED files /\ thread[t].pc \in Early
              /\ \A q \in Requests : Informed(t, q) => SameSession(t)',
           thread[t].user = u /\ <<u, r>> \notin excused' =>
              /\ KeptFor(u, r) /\ Has(thread[t].outer, r) /\ thread[t].request # r
                    => KeptFor(u, r)'
              /\ thread'[t].pc = "idle" /\ thread[t].request = r => KeptFor(u, r)'
    PROVE  PairInv(u, r)'
<1>1. CASE thread[t].user # u
  BY <1>1, OthersPair
<1>2. CASE thread[t].user = u
  <2> SUFFICES ASSUME <<u, r>> \notin excused' PROVE PairInv(u, r)'
    BY DEF PairInv
  <2>1. /\ Informed(t, r) /\ <<u, r>> \notin excused
        /\ \A s \in Threads \ {t} : thread[s].pc # "idle" => thread[s].user # u
    BY <1>2 DEF PairInv
  <2>2. CASE thread[t].request = r
    <3>1. Answered(u, r)' => KeptFor(u, r)'
      <4>1. CASE thread'[t].pc = "idle"
        BY <1>2, <2>2, <4>1
      <4>2. CASE thread'[t].pc # "idle"
        <5>1. thread[t].pc # "lookup" /\ Answered(u, r)' = Answered(u, r)
          BY <4>2 DEF Answered
        <5> QED  BY <1>2, <2>1, <2>2, <5>1 DEF Informed
      <4> QED  BY <4>1, <4>2
    <3>2. \/ KeptFor(u, r)'
          \/ thread'[t].pc \in Settling /\ thread'[t].request = r
      BY <1>2, <2>2
    <3>3. thread'[t].pc # "idle" => Informed(t, r)'
      <4> SUFFICES ASSUME thread'[t].pc # "idle" PROVE Informed(t, r)'
        OBVIOUS
      <4>1. /\ thread[t].pc # "lookup" /\ Answered(u, r)' = Answered(u, r)
            /\ thread'[t].pc \in Early => Portal(u)' = Portal(u) /\ thread[t].pc \in Early
        BY DEF Answered, Portal, Early, Settling
      <4>2. SameSession(t)'
        BY <2>1
      <4> QED  BY <1>2, <2>1, <2>2, <4>1, <4>2 DEF Informed
    <3>4. \A s \in Threads : thread'[s].pc # "idle" /\ thread'[s].user = u => Informed(s, r)'
      BY <2>1, <3>3
    <3> QED  BY <3>1, <3>2, <3>4, OneHandlersPair
  <2>3. CASE thread[t].request # r
    <3>1. Answered(u, r)' => Answered(u, r)
      BY <2>3
    <3>2. results'[r] = results[r]
      BY <2>3
    <3>3. Answered(u, r) \/ results[r] # 0 => Has(thread[t].outer, r)
      BY <1>2, <2>1, <2>3 DEF Informed
    <3>4. Answered(u, r)' \/ results'[r] # 0 => KeptFor(u, r)'
      <4>1. \A s \in Threads : ~(thread[s].pc \in Settling /\ thread[s].request = r)
        BY <1>2, <2>1, <2>3 DEF PairInv, Settling
      <4>2. Answered(u, r) \/ results[r] # 0 => KeptFor(u, r)
        BY <2>1, <4>1 DEF PairInv
      <4> QED  BY <1>2, <2>3, <3>1, <3>2, <3>3, <4>2
    <3>5. thread'[t].pc # "idle" => Informed(t, r)'
      <4> SUFFICES ASSUME thread'[t].pc # "idle" PROVE Informed(t, r)'
        OBVIOUS
      <4>1. /\ Answered(u, r)' = Answered(u, r)
            /\ thread'[t].pc \in Early => Portal(u)' = Portal(u) /\ thread[t].pc \in Early
        BY DEF Answered, Portal, Early, Settling
      <4>2. SameSession(t)'
        BY <2>1
      <4> QED  BY <1>2, <2>1, <2>3, <3>2, <3>3, <4>1, <4>2 DEF Informed
    <3>6. \A s \in Threads : thread'[s].pc # "idle" /\ thread'[s].user = u => Informed(s, r)'
      BY <2>1, <3>5
    <3> QED  BY <3>4, <3>6, OneHandlersPair
  <2> QED  BY <2>2, <2>3
<1> QED  BY <1>1, <1>2

LEMMA LookupReplayPair ==
    ASSUME PortalInv, NEW u \in Users, NEW r \in Requests, PairInv(u, r),
           excused \subseteq excused', NEW t \in Threads, LookupReplay(t)
    PROVE  PairInv(u, r)'
<1> DEFINE th == thread[t]
           d  == Cached(th, th.outer)
<1>1. /\ th.pc = "lookup" /\ d # 0 /\ UNCHANGED <<results, files>>
      /\ answered' = answered \cup {[user |-> th.user, request |-> th.request, document |-> d]}
      /\ thread' = [thread EXCEPT ![t] = Idle]
  BY DEF LookupReplay, Answer, Leave
<1>2. thread'[t].pc = "idle" /\ \A s \in Threads \ {t} : thread'[s] = thread[s]
  BY <1>1 DEF PortalInv, TypeOK, Idle
<1>3. \A v \in Users, q \in Requests : Answered(v, q)' =>
         Answered(v, q) \/ (v = th.user /\ q = th.request)
  BY <1>1 DEF Answered
<1>4. \A v \in Users, q \in Requests : KeptFor(v, q)' = KeptFor(v, q) /\ Portal(v)' = Portal(v)
  BY <1>1 DEF KeptFor, Portal
<1>5. ASSUME th.user = u, th.request = r, <<u, r>> \notin excused' PROVE KeptFor(u, r)
  <2>1. Informed(t, r) /\ th.pc \notin Settling /\ th.pc \in Early
    BY <1>1, <1>5 DEF PairInv, Settling, Early
  <2>2. results[r] # 0 \/ Has(th.outer, r)
    <3>1. results[r] # 0 \/ Recall(th.outer, r) # 0
      BY <1>1, <1>5 DEF Cached
    <3> QED  BY <1>1, <3>1, TextOf, RecallHas
  <2>3. Has(th.outer, r)
    BY <2>1, <2>2 DEF Informed
  <2> QED  BY <1>5, <2>1, <2>3 DEF Informed, KeptFor
<1> QED  BY <1>1, <1>2, <1>3, <1>4, <1>5, SettlingPair

\* A handler that remembers its result, or goes on to the next file, is settling.
LEMMA SettlesOn ==
    ASSUME PortalInv, NEW u \in Users, NEW r \in Requests, PairInv(u, r),
           excused \subseteq excused', NEW t \in Threads, NEW pc \in Settling, Goto(t, pc),
           thread[t].pc \in Settling \cup {"remember"}, answered' = answered,
           pc = "truncate1" => thread[t].pc = "remember" /\ UNCHANGED files,
           pc = "save1" => thread[t].pc = "truncate1",
           \A v \in Users \ {thread[t].user} : Portal(v)' = Portal(v),
           \A q \in Requests \ {thread[t].request} : results'[q] = results[q],
           /\ thread[t].user = u /\ <<u, r>> \notin excused'
           /\ KeptFor(u, r) /\ Has(thread[t].outer, r) /\ thread[t].request # r
           => KeptFor(u, r)'
    PROVE  PairInv(u, r)'
<1>1. /\ thread[t].pc # "idle" /\ thread[t].pc # "lookup" /\ pc \in PCs /\ pc # "idle"
      /\ pc \notin {"write", "readback", "remember"}
  BY DEF Settling, PCs
<1>2. \A s \in Threads \ {t} : thread'[s] = thread[s]
  BY DEF Goto, PortalInv, TypeOK
<1>3. \A v \in Users, q \in Requests : Answered(v, q)' => Answered(v, q)
  BY DEF Answered
<1>4. ASSUME NEW q \in Requests, Informed(t, q) PROVE SameSession(t)'
  BY <1>1, <1>4, MovesOn DEF Informed, SameSession
<1>5. pc = "truncate1" => thread[t].pc \in Early
  BY DEF Early
<1>6. /\ thread'[t].pc = pc
      /\ thread'[t].user = thread[t].user /\ thread'[t].request = thread[t].request
      /\ thread'[t].outer = thread[t].outer
  BY <1>1, MovesOn
<1> QED  BY <1>1, <1>2, <1>3, <1>4, <1>5, <1>6, SettlingPair

LEMMA RememberPair ==
    ASSUME PortalInv, NEW u \in Users, NEW r \in Requests, PairInv(u, r),
           excused \subseteq excused', NEW t \in Threads,
           RememberRequest(t) \/ CompleteCommand(t)
    PROVE  PairInv(u, r)'
<1>1. /\ UNCHANGED <<files, answered>> /\ thread[t].pc \in {"remember", "complete"}
      /\ results' = [results EXCEPT ![thread[t].request] = thread[t].result]
      /\ \/ thread[t].pc = "remember" /\ Goto(t, "truncate1")
         \/ thread[t].pc = "complete" /\ Goto(t, "truncate2")
  BY DEF RememberRequest, CompleteCommand, history
<1>2. \A q \in Requests \ {thread[t].request} : results'[q] = results[q]
  BY <1>1 DEF PortalInv, TypeOK
<1>3. \A v \in Users : Portal(v)' = Portal(v) /\ KeptFor(v, r)' = KeptFor(v, r)
  BY <1>1 DEF Portal, KeptFor
<1>4. {"truncate1", "truncate2", "complete"} \subseteq Settling
  BY DEF Settling
<1> QED  BY <1>1, <1>2, <1>3, <1>4, SettlesOn

LEMMA FilesOfOthers ==
    ASSUME PortalInv, NEW w \in Users, NEW f \in Files, f[1] = w, NEW x,
           files' = [files EXCEPT ![f] = x]
    PROVE  /\ \A v \in Users \ {w} : Portal(v)' = Portal(v)
           /\ Portal(w)' = IF f = <<w, "portal">> THEN x ELSE Portal(w)
<1>1. files \in [Files -> Texts \cup {Torn}]
  BY DEF PortalInv, TypeOK
<1>2. \A v \in Users : <<v, "portal">> \in Files /\ (v # w => <<v, "portal">> # f)
  BY DEF Files
<1>3. \A g \in Files : files'[g] = IF g = f THEN x ELSE files[g]
  BY <1>1
<1> QED  BY <1>2, <1>3 DEF Portal

LEMMA TruncatePair ==
    ASSUME PortalInv, NEW u \in Users, NEW r \in Requests, PairInv(u, r),
           excused \subseteq excused', NEW t \in Threads, TruncateInner(t) \/ TruncateOuter(t)
    PROVE  PairInv(u, r)'
<1>1. PICK f \in Files : f[1] = thread[t].user /\ files' = [files EXCEPT ![f] = Torn]
  BY SavingHandler DEF TruncateInner, TruncateOuter, FileOf, Saving
<1>2. UNCHANGED <<results, answered>> /\ thread[t].user \in Users
  BY SavingHandler DEF TruncateInner, TruncateOuter, memory, history, Saving
<1>3. KeptFor(u, r) => KeptFor(u, r)'
  <2>1. \/ Portal(u)' = Portal(u)
        \/ Portal(u)' = Torn
    BY <1>1, <1>2, FilesOfOthers
  <2> QED  BY <2>1 DEF KeptFor
<1>4. \/ thread[t].pc = "truncate1" /\ Goto(t, "save1")
      \/ thread[t].pc = "truncate2" /\ Goto(t, "save2")
  BY DEF TruncateInner, TruncateOuter
<1>5. {"truncate1", "truncate2", "save1", "save2"} \subseteq Settling
  BY DEF Settling
<1> QED  BY <1>1, <1>2, <1>3, <1>4, <1>5, FilesOfOthers, SettlesOn

LEMMA SaveInnerPair ==
    ASSUME PortalInv, NEW u \in Users, NEW r \in Requests, PairInv(u, r),
           excused \subseteq excused', NEW t \in Threads, SaveInner(t)
    PROVE  PairInv(u, r)'
<1> DEFINE th == thread[t]
           f  == FileOf(th.user, Writer[th.command])
           saved == Remember(th.inner, th.request, th.result)
<1>1. /\ th.pc = "save1" /\ Goto(t, "complete") /\ UNCHANGED <<results, answered>>
      /\ excused' = excused \cup ({th.user} \X Forgotten(th.inner, th.request))
  BY DEF SaveInner, memory
<1>2. /\ th.user \in Users /\ th.request \in Requests /\ th.inner \in Texts
      /\ th.result \in 1..MaxDocs /\ f \in Files /\ f[1] = th.user
  BY <1>1, SavingHandler DEF Saving, FileOf
<1>3. PICK x \in {saved, Torn} : files' = [files EXCEPT ![f] = x]
  BY DEF SaveInner, WriteOut
<1>4. ASSUME th.user = u, <<u, r>> \notin excused', KeptFor(u, r), Has(th.outer, r)
      PROVE  KeptFor(u, r)'
  <2>1. CASE f # <<u, "portal">>
    BY <1>2, <1>3, <1>4, <2>1, FilesOfOthers DEF KeptFor
  <2>2. CASE f = <<u, "portal">>
    <3>1. th.inner = th.outer
      <4>1. Writer[th.command] # "approval"
        BY <2>2 DEF FileOf
      <4>2. Informed(t, r)
        BY <1>1, <1>4 DEF PairInv
      <4> QED  BY <1>1, <4>1, <4>2 DEF Informed, SameSession
    <3>2. r \notin Forgotten(th.inner, th.request)
      BY <1>1, <1>4
    <3>3. Has(saved, r)
      BY <1>2, <1>4, <3>1, <3>2, RememberHas
    <3>4. Portal(u)' = x
      BY <1>2, <1>3, <1>4, <2>2, FilesOfOthers
    <3> QED  BY <3>3, <3>4 DEF KeptFor
  <2> QED  BY <2>1, <2>2
<1>5. \A v \in Users \ {th.user} : Portal(v)' = Portal(v)
  BY <1>2, <1>3, FilesOfOthers
<1>6. {"save1", "complete"} \subseteq Settling
  BY DEF Settling
<1> QED  BY <1>1, <1>4, <1>5, <1>6, SettlesOn

LEMMA SaveOuterPair ==
    ASSUME PortalInv, NEW u \in Users, NEW r \in Requests, PairInv(u, r),
           excused \subseteq excused', NEW t \in Threads, SaveOuter(t)
    PROVE  PairInv(u, r)'
<1> DEFINE th == thread[t]
           saved == Remember(th.outer, th.request, th.result)
<1>1. /\ th.pc = "save2" /\ results' = results
      /\ excused' = excused \cup ({th.user} \X Forgotten(th.outer, th.request))
      /\ answered' = answered \cup
             {[user |-> th.user, request |-> th.request, document |-> th.result]}
      /\ thread' = [thread EXCEPT ![t] = Idle]
  BY DEF SaveOuter, Answer, Leave, memory
<1>2. /\ th.user \in Users /\ th.request \in Requests /\ th.outer \in Texts
      /\ th.result \in 1..MaxDocs /\ <<th.user, "portal">> \in Files
  BY <1>1, SavingHandler DEF Saving
<1>3. PICK x \in {saved, Torn} : files' = [files EXCEPT ![<<th.user, "portal">>] = x]
  BY DEF SaveOuter, WriteOut
<1> HIDE DEF saved
<1>4. thread'[t].pc = "idle" /\ \A s \in Threads \ {t} : thread'[s] = thread[s]
  BY <1>1 DEF PortalInv, TypeOK, Idle
<1>5. \A v \in Users, q \in Requests : Answered(v, q)' =>
         Answered(v, q) \/ (v = th.user /\ q = th.request)
  BY <1>1 DEF Answered
<1>6. \A w \in Users : Portal(w)' = IF w = th.user THEN x ELSE Portal(w)
  <2>1. PICK w \in Users, f \in Files : w = th.user /\ f = <<w, "portal">> /\ f[1] = w
    BY <1>2
  <2>2. files' = [files EXCEPT ![f] = x]
    BY <1>3, <2>1
  <2> QED  BY <2>1, <2>2, FilesOfOthers
<1>7. ASSUME th.user = u, <<u, r>> \notin excused', Has(th.outer, r) \/ th.request = r
      PROVE  KeptFor(u, r)'
  <2>1. r \notin Forgotten(th.outer, th.request)
    BY <1>1, <1>7
  <2>2. Has(saved, r)
    BY <1>2, <1>7, <2>1, RememberHas DEF saved
  <2>3. Portal(u)' = x /\ (x = saved \/ x = Torn)
    BY <1>3, <1>6, <1>7
  <2> QED  BY <2>2, <2>3 DEF KeptFor
<1> QED  BY <1>1, <1>4, <1>5, <1>6, <1>7, SettlingPair

\* A confirmation reads a file that is whole, and with it what is kept for its user.
LEMMA ConfirmPair ==
    ASSUME PortalInv, NEW u \in Users, NEW r \in Requests, PairInv(u, r),
           NEW t \in Threads, NEW v \in Users, NEW c \in Commands, NEW q \in Requests,
           Confirm(t, v, c, q)
    PROVE  PairInv(u, r)'
<1> SUFFICES ASSUME <<u, r>> \notin excused' PROVE PairInv(u, r)'
  BY DEF PairInv
<1>1. /\ thread[t].pc = "idle" /\ UNCHANGED <<results, files, answered>>
      /\ Portal(v) # Torn
  BY DEF Confirm, memory, Portal
<1>2. /\ thread'[t].pc = "lookup" /\ thread'[t].user = v /\ thread'[t].request = q
      /\ thread'[t].outer = Portal(v)
      /\ \A s \in Threads \ {t} : thread'[s] = thread[s]
  BY DEF Confirm, PortalInv, TypeOK, Portal
<1>3. <<u, r>> \notin excused
  BY DEF Confirm
<1>4. q = r => v = u
  BY DEF Confirm
<1>5. v = u => \A s \in Threads : ~(thread[s].pc # "idle" /\ thread[s].user = u)
  BY DEF Confirm
<1>6. Answered(u, r)' = Answered(u, r) /\ KeptFor(u, r)' = KeptFor(u, r)
      /\ Portal(u)' = Portal(u)
  BY <1>1 DEF Answered, KeptFor, Portal
<1>7. \A s \in Threads : thread'[s].pc # "idle" /\ thread'[s].request = r => thread'[s].user = u
  BY <1>2, <1>3, <1>4 DEF PairInv
<1>8. \A s, o \in Threads :
         /\ thread'[s].pc # "idle" /\ thread'[s].user = u
         /\ thread'[o].pc # "idle" /\ thread'[o].user = u
         => s = o
  BY <1>2, <1>3, <1>5 DEF PairInv
<1>9. results'[r] # 0 =>
         KeptFor(u, r)' \/ \E s \in Threads : thread'[s].pc \in Settling /\ thread'[s].request = r
  BY <1>1, <1>2, <1>3, <1>6 DEF PairInv, Settling
<1>10. ASSUME NEW s \in Threads, thread'[s].pc # "idle", thread'[s].user = u
       PROVE  Informed(s, r)'
  <2>1. CASE s # t
    BY <1>1, <1>2, <1>3, <1>6, <1>10, <2>1 DEF PairInv, Informed, SameSession
  <2>2. CASE s = t
    <3>1. v = u
      BY <1>2, <1>10, <2>2
    <3>2. \A o \in Threads : ~(thread[o].pc \in Settling /\ thread[o].request = r)
      BY <1>3, <1>5, <3>1 DEF PairInv, Settling
    <3>3. Answered(u, r) \/ results[r] # 0 => Has(Portal(u), r)
      BY <1>1, <1>3, <3>1, <3>2 DEF PairInv, KeptFor
    <3>4. SameSession(t)'
      BY <1>2 DEF SameSession
    <3> QED  BY <1>1, <1>2, <1>6, <2>2, <3>1, <3>3, <3>4 DEF Informed
  <2> QED  BY <2>1, <2>2
<1> QED  BY <1>6, <1>7, <1>8, <1>9, <1>10, <1>3 DEF PairInv

\* No handler survives a crash; what was answered is in the file, for no handler that had
\* it answered before is past its lookup.
LEMMA CrashPair ==
    ASSUME PortalInv, NEW u \in Users, NEW r \in Requests, PairInv(u, r), Crash
    PROVE  PairInv(u, r)'
<1>1. /\ \A t \in Threads : thread'[t].pc = "idle"
      /\ results'[r] = 0 /\ UNCHANGED <<files, answered, excused>>
  BY DEF Crash, Idle
<1>2. Answered(u, r)' = Answered(u, r) /\ KeptFor(u, r)' = KeptFor(u, r)
  BY <1>1 DEF Answered, KeptFor, Portal
<1> QED  BY <1>1, <1>2 DEF PairInv

LEMMA SamePair ==
    ASSUME NEW u \in Users, NEW r \in Requests, PairInv(u, r),
           UNCHANGED <<results, files, thread, answered, excused>>
    PROVE  PairInv(u, r)'
<1>1. Answered(u, r)' = Answered(u, r) /\ KeptFor(u, r)' = KeptFor(u, r)
      /\ Portal(u)' = Portal(u)
  BY DEF Answered, KeptFor, Portal
<1>2. \A t \in Threads : thread[t].user = u => Informed(t, r)' = Informed(t, r)
  BY <1>1 DEF Informed, SameSession
<1> QED  BY <1>1, <1>2 DEF PairInv

LEMMA StepPair ==
    ASSUME PortalInv, [Next]_vars, NEW u \in Users, NEW r \in Requests, PairInv(u, r)
    PROVE  PairInv(u, r)'
<1>1. excused \subseteq excused'
  BY NeverLess
<1>2. CASE UNCHANGED vars \/ Tick \/ \E v \in Users, c \in Commands : Preview(v, c)
  BY <1>2, SamePair DEF vars, Tick, Preview, memory, history
<1>3. ASSUME NEW t \in Threads, NEW v \in Users, NEW c \in Commands, NEW q \in Requests,
             Confirm(t, v, c, q)
      PROVE  PairInv(u, r)'
  BY <1>3, ConfirmPair
<1>4. ASSUME NEW t \in Threads,
             \/ LookupReplay(t) \/ LookupMiss(t) \/ GetCommand(t)
             \/ RecheckPlain(t) \/ RecheckWriter(t)
             \/ WriteDocument(t) \/ Readback(t) \/ Fail(t)
             \/ RememberRequest(t) \/ TruncateInner(t) \/ SaveInner(t)
             \/ CompleteCommand(t) \/ TruncateOuter(t) \/ SaveOuter(t)
      PROVE  PairInv(u, r)'
  BY <1>1, <1>4, LookupReplayPair, QuietStepsPair, RememberPair, TruncatePair, SaveInnerPair,
     SaveOuterPair
<1>5. CASE Crash
  BY <1>5, CrashPair
<1> QED  BY <1>2, <1>3, <1>4, <1>5 DEF Next

\* A handler that writes has not found its request in its session, which has every
\* request that was answered to its user and nothing excuses.
AnsweredInv == \A u \in Users, r \in Requests : PairInv(u, r)

LEMMA InitPair == Init => AnsweredInv
<1> QED  BY DEF Init, AnsweredInv, PairInv, Answered, Idle

LEMMA WritesUnanswered ==
    ASSUME PortalInv, AnsweredInv, [Next]_vars,
           NEW a \in answered, <<a.user, a.request>> \notin excused',
           NEW d \in DOMAIN docs' \ DOMAIN docs
    PROVE  docs'[d] # [user |-> a.user, request |-> a.request]
<1> SUFFICES ASSUME docs'[d] = [user |-> a.user, request |-> a.request] PROVE FALSE
  OBVIOUS
<1>1. docs' # docs
  OBVIOUS
<1>2. PICK t \in Threads : WriteDocument(t)
  BY <1>1 DEF Next, vars, Preview, Confirm, LookupReplay, LookupMiss, GetCommand, RecheckPlain,
              RecheckWriter, Readback, Fail, RememberRequest, TruncateInner, SaveInner,
              CompleteCommand, TruncateOuter, SaveOuter, Tick, Crash, memory, history
<1> DEFINE th == thread[t]
<1>3. th.pc = "write" /\ docs' = Append(docs, [user |-> th.user, request |-> th.request])
  BY <1>2 DEF WriteDocument
<1>4. th.user \in Users /\ th.request \in Requests
  BY <1>3, TextOf
<1>5. docs'[d] = [user |-> th.user, request |-> th.request]
  <2> DEFINE D == [user : Users, request : Requests]
  <2>1. docs \in Seq(D) /\ [user |-> th.user, request |-> th.request] \in D
    BY <1>4, DocsSeq DEF PortalInv
  <2> HIDE DEF D
  <2>2. /\ Len(docs') = Len(docs) + 1 /\ docs' \in Seq(D) /\ Len(docs) \in Nat
        /\ docs'[Len(docs) + 1] = [user |-> th.user, request |-> th.request]
    BY <1>3, <2>1, AppendProperties, LenProperties
  <2>3. d = Len(docs) + 1
    BY <2>1, <2>2, LenProperties
  <2> QED  BY <2>2, <2>3
<1>6. a.user = th.user /\ a.request = th.request
  BY <1>5
<1>7. Informed(t, th.request)
  BY <1>3, <1>4, <1>6, NeverLess DEF AnsweredInv, PairInv
<1>8. Answered(th.user, th.request)
  BY <1>6 DEF Answered
<1> QED  BY <1>3, <1>7, <1>8 DEF Informed

\* For any users, commands, requests, writers, threads, capacity and bounds, a request that
\* was answered to its user is not written again, but where the property excuses it.
THEOREM AnsweredStays == Spec => AnsweredOnce
<1>1. Init => AnsweredInv
  BY InitPair
<1>2. PortalInv /\ AnsweredInv /\ [Next]_vars => AnsweredInv'
  BY StepPair DEF AnsweredInv
<1>3. Spec => []AnsweredInv
  BY <1>1, <1>2, PortalHolds, PTL DEF Spec
<1> DEFINE Step == \A a \in answered : <<a.user, a.request>> \notin excused' =>
                      \A d \in DOMAIN docs' \ DOMAIN docs :
                         docs'[d] # [user |-> a.user, request |-> a.request]
<1>4. PortalInv /\ AnsweredInv /\ [Next]_vars => Step
  BY WritesUnanswered
<1> HIDE DEF Step
<1>5. Spec => [][Step]_vars
  BY <1>3, <1>4, PortalHolds, PTL DEF Spec
<1>6. [][Step]_vars => AnsweredOnce
  BY DEF AnsweredOnce, Step
<1> QED  BY <1>5, <1>6
=============================================================================
