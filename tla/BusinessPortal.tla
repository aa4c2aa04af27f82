--------------------------- MODULE BusinessPortal ---------------------------
(***************************************************************************)
(* The preview / confirm protocol of the business portal: the in-memory    *)
(* BusinessCommandStore, WorkbenchService.business_preview and             *)
(* .business_confirm with the ERPNext writers it calls, and the session    *)
(* files that remember the result of a request_id across a restart.        *)
(*                                                                         *)
(* One ERPNext account and one project are modelled: a user stands for the *)
(* context (user, account, project) of the browser's cookies.  A document  *)
(* ERPNext wrote is its position in docs; a result is the document it      *)
(* names, and 0 is no result.                                              *)
(***************************************************************************)
EXTENDS Integers, Sequences

CONSTANTS
    Users,          \* the browser contexts
    Commands,       \* command_id values, fresh for every preview
    Writer,         \* [Commands -> Writers], the writer of a command's action
    Requests,       \* the request_id values browsers choose
    Threads,        \* handler threads of the ThreadingHTTPServer
    TTL,            \* ttl_seconds of the store, in clock units
    Capacity,       \* results a session file keeps (100 in the code)
    MaxTime,        \* bound on the clock
    MaxDocs,        \* bound on the documents ERPNext writes
    MaxCrashes,     \* bound on crashes of the workbench process
    Torn            \* the text of a truncated or mixed-up file

\* "request" checks the memory and the portal's file again before it writes,
\* "buying" only the file, "approval" the file of the default conversation, and
\* "plain" (stock drafts, a draft's update) nothing.
Writers == {"request", "buying", "approval", "plain"}

ASSUME PortalAssumption ==
    /\ Writer \in [Commands -> Writers]
    /\ TTL \in Nat /\ Capacity \in Nat \ {0}
    /\ MaxTime \in Nat /\ MaxDocs \in Nat /\ MaxCrashes \in Nat

VARIABLES
    command,    \* the BusinessCommand objects
    stored,     \* the command_ids in BusinessCommandStore._commands
    results,    \* BusinessCommandStore._request_results
    files,      \* the session file of each user and conversation
    thread,     \* the confirmation each thread is handling
    now,        \* the wall clock
    docs,       \* what ERPNext wrote: for whom, and for which request
    answered,   \* which result was answered to which user for which request
    excused,    \* users and requests AnsweredOnce says nothing of
    crashes     \* crashes so far

memory  == <<command, stored, results>>
history == <<answered, excused, crashes>>
vars    == <<command, stored, results, files, thread, now, docs, answered, excused, crashes>>

-----------------------------------------------------------------------------
Files  == Users \X {"portal", "default"}
Entry  == [request : Requests, result : 1..MaxDocs]
Texts  == UNION {[1..n -> Entry] : n \in 0..Capacity}

ASSUME TornAssumption == Torn \notin Texts

Unused == [status |-> "unused"]
Gone   == [status |-> "gone"]       \* the object died with its process
Command == [status : {"pending", "expired", "completed"}, user : Users,
            expires : 0..(MaxTime + TTL), result : 0..MaxDocs]

Idle == [pc |-> "idle"]
PCs  == {"lookup", "get", "recheck", "write", "readback", "remember", "truncate1",
         "save1", "complete", "truncate2", "save2"}
Busy == [pc : PCs, user : Users, command : Commands, request : Requests,
         outer : Texts, inner : Texts, result : 0..MaxDocs, replay : BOOLEAN]

TypeOK ==
    /\ command \in [Commands -> Command \cup {Unused, Gone}]
    /\ stored \subseteq {c \in Commands : command[c] \in Command}
    /\ results \in [Requests -> 0..Len(docs)]
    /\ files \in [Files -> Texts \cup {Torn}]
    /\ thread \in [Threads -> Busy \cup {Idle}]
    /\ now \in 0..MaxTime
    /\ docs \in UNION {[1..n -> [user : Users, request : Requests]] : n \in 0..MaxDocs}
    /\ answered \subseteq [user : Users, request : Requests, document : 1..MaxDocs]
    /\ excused \subseteq Users \X Requests
    /\ crashes \in 0..MaxCrashes

Init ==
    /\ command = [c \in Commands |-> Unused]
    /\ stored = {}
    /\ results = [r \in Requests |-> 0]
    /\ files = [f \in Files |-> <<>>]
    /\ thread = [t \in Threads |-> Idle]
    /\ now = 0
    /\ docs = <<>>
    /\ answered = {}
    /\ excused = {}
    /\ crashes = 0

\* session.idempotency_results.get and RuntimeSessionState.remember_request: a
\* dictionary in insertion order that drops its oldest entry when it is full.
Recall(text, r) ==
    IF \E i \in DOMAIN text : text[i].request = r
    THEN (CHOOSE e \in {text[i] : i \in DOMAIN text} : e.request = r).result
    ELSE 0

\* The request a full session forgets for a new one.
Forgotten(text, r) == IF Recall(text, r) = 0 /\ Len(text) = Capacity
                      THEN {text[1].request} ELSE {}

Remember(text, r, d) ==
    LET e == [request |-> r, result |-> d]
        longer == Append(text, e) IN
    IF Recall(text, r) # 0
    THEN [i \in DOMAIN text |-> IF text[i].request = r THEN e ELSE text[i]]
    ELSE IF Len(longer) > Capacity THEN Tail(longer) ELSE longer

\* Mutation: every outdated command is marked expired, completed ones too.
ExpiredWhateverStatus(c) == c \in stored /\ command[c].expires < now

\* BusinessCommandStore._purge, which every method of the store runs first.
Expired(c) == c \in stored /\ command[c].status = "pending" /\ command[c].expires < now
Outdated(c) == command[c].expires + TTL < now

Purged ==
    [c \in Commands |-> IF Expired(c) THEN [command[c] EXCEPT !.status = "expired"]
                        ELSE command[c]]
Kept == {c \in stored : ~Outdated(c)}
Purge == command' = Purged /\ stored' = Kept

Goto(t, pc) == thread' = [thread EXCEPT ![t].pc = pc]
Leave(t)    == thread' = [thread EXCEPT ![t] = Idle]
Answer(t, d) ==
    /\ Leave(t)
    /\ answered' = answered \cup
           {[user |-> thread[t].user, request |-> thread[t].request, document |-> d]}

\* Where a writer looks the request up again, and saves its result first.
FileOf(u, writer) == <<u, IF writer = "approval" THEN "default" ELSE "portal">>

-----------------------------------------------------------------------------
(* business_preview: the action is checked and summarised, and a command is *)
(* stored for the user.                                                     *)
Preview(u, c) ==
    /\ command[c] = Unused
    /\ command' = [Purged EXCEPT ![c] =
           [status |-> "pending", user |-> u, expires |-> now + TTL, result |-> 0]]
    /\ stored' = Kept \cup {c}
    /\ UNCHANGED <<results, files, thread, now, docs, history>>

(* business_confirm.                                                        *)
\* _idempotency_context: the session file is read before anything is decided.
Confirm(t, u, c, r) ==
    LET text == files[<<u, "portal">>] IN
    /\ thread[t].pc = "idle"
    /\ command[c] # Unused
    /\ text # Torn
    /\ thread' = [thread EXCEPT ![t] =
           [pc |-> "lookup", user |-> u, command |-> c, request |-> r, outer |-> text,
            inner |-> <<>>, result |-> 0,
            replay |-> results[r] # 0 \/ command[c].status = "completed"]]
    /\ excused' = excused \cup ((Users \ {u}) \X {r}) \cup
           IF \E v \in Threads : thread[v].pc # "idle" /\ thread[v].user = u
           THEN {u} \X Requests ELSE {}
    /\ UNCHANGED <<memory, files, now, docs, answered, crashes>>

\* Mutation: only this process's memory is asked.
CachedInMemory(th, text) == results[th.request]

\* request_result, then the session just loaded.
Cached(th, text) == IF results[th.request] # 0 THEN results[th.request]
                    ELSE Recall(text, th.request)

LookupReplay(t) ==
    LET th == thread[t] IN
    /\ th.pc = "lookup"
    /\ Cached(th, th.outer) # 0
    /\ Purge
    /\ Answer(t, Cached(th, th.outer))
    /\ UNCHANGED <<results, files, now, docs, excused, crashes>>

LookupMiss(t) ==
    /\ thread[t].pc = "lookup"
    /\ Cached(thread[t], thread[t].outer) = 0
    /\ Purge
    /\ Goto(t, "get")
    /\ UNCHANGED <<results, files, now, docs, history>>

\* Mutation: the command only has to be in the store.
AcceptableIfStored(th) ==
    /\ th.command \in Kept
    /\ command[th.command].user = th.user

\* BusinessCommandStore.get and the check of status and expiry that follows.
Acceptable(th) ==
    /\ th.command \in Kept
    /\ command[th.command].user = th.user
    /\ Purged[th.command].status = "pending"

GetCommand(t) ==
    LET th == thread[t] IN
    /\ th.pc = "get"
    /\ Purge
    /\ \/ ~Acceptable(th) /\ Leave(t)
       \/ Acceptable(th) /\ Goto(t, "recheck")
    /\ UNCHANGED <<results, files, now, docs, history>>

\* A plain writer looks nothing up.
RecheckPlain(t) ==
    /\ thread[t].pc = "recheck"
    /\ Writer[thread[t].command] = "plain"
    /\ Goto(t, "write")
    /\ UNCHANGED <<memory, files, now, docs, history>>

\* Mutation: the request is remembered before the document is written.
RecheckAndReserve(t) ==
    LET th   == thread[t]
        text == files[FileOf(th.user, Writer[th.command])] IN
    /\ th.pc = "recheck"
    /\ Writer[th.command] # "plain"
    /\ text # Torn
    /\ results' = [results EXCEPT ![th.request] = Len(docs) + 1]
    /\ thread' = [thread EXCEPT ![t].inner = text, ![t].pc = "write"]
    /\ UNCHANGED <<command, stored, files, now, docs, history>>

\* The writer's own lookup; a result found there is taken for the command's.
RecheckWriter(t) ==
    LET th     == thread[t]
        writer == Writer[th.command]
        text   == files[FileOf(th.user, writer)]
        found  == IF writer = "request" THEN Cached(th, text) ELSE Recall(text, th.request) IN
    /\ th.pc = "recheck"
    /\ writer # "plain"
    /\ text # Torn
    /\ IF writer = "request" THEN Purge ELSE UNCHANGED <<command, stored>>
    /\ thread' = [thread EXCEPT ![t].inner = text, ![t].result = found,
                                ![t].pc = IF found # 0 THEN "complete" ELSE "write"]
    /\ UNCHANGED <<results, files, now, docs, history>>

\* ERPNext writes the document, and the answer says so or is lost.
WriteDocument(t) ==
    LET th == thread[t] IN
    /\ th.pc = "write"
    /\ Len(docs) < MaxDocs
    /\ docs' = Append(docs, [user |-> th.user, request |-> th.request])
    /\ \/ thread' = [thread EXCEPT ![t].pc = "readback", ![t].result = Len(docs) + 1]
       \/ Leave(t)
    /\ UNCHANGED <<memory, files, now, history>>

\* self.document: the written document is read back.
Readback(t) ==
    LET writer == Writer[thread[t].command] IN
    /\ thread[t].pc = "readback"
    /\ Goto(t, CASE writer = "request" -> "remember"
                 [] writer = "plain"   -> "complete"
                 [] OTHER              -> "truncate1")
    /\ UNCHANGED <<memory, files, now, docs, history>>

\* Mutation: the error is swallowed and the command completed.
FailAsCompleted(t) ==
    /\ thread[t].pc \in {"recheck", "write", "readback"}
    /\ Goto(t, "complete")
    /\ UNCHANGED <<memory, files, now, docs, history>>

\* A ValueError, PermissionError or client error of any call above: the command
\* stays pending whether or not ERPNext has the document.
Fail(t) ==
    /\ thread[t].pc \in {"recheck", "write", "readback"}
    /\ Leave(t)
    /\ UNCHANGED <<memory, files, now, docs, history>>

\* remember_request of create_material_request_direct.
RememberRequest(t) ==
    LET th == thread[t] IN
    /\ th.pc = "remember"
    /\ results' = [results EXCEPT ![th.request] = th.result]
    /\ Purge
    /\ Goto(t, "truncate1")
    /\ UNCHANGED <<files, now, docs, history>>

\* Over a text another thread wrote meanwhile, the tail of the longer remains.
WriteOut(f, text) ==
    \/ files' = [files EXCEPT ![f] = text]
    \/ files[f] # Torn /\ files' = [files EXCEPT ![f] = Torn]

\* RuntimeSessionStore.save: write_text truncates the file, then writes the
\* session this thread loaded, with its own result added.
TruncateInner(t) ==
    LET th == thread[t] IN
    /\ th.pc = "truncate1"
    /\ files' = [files EXCEPT ![FileOf(th.user, Writer[th.command])] = Torn]
    /\ Goto(t, "save1")
    /\ UNCHANGED <<memory, now, docs, history>>

SaveInner(t) ==
    LET th == thread[t] IN
    /\ th.pc = "save1"
    /\ WriteOut(FileOf(th.user, Writer[th.command]), Remember(th.inner, th.request, th.result))
    /\ excused' = excused \cup ({th.user} \X Forgotten(th.inner, th.request))
    /\ Goto(t, "complete")
    /\ UNCHANGED <<memory, now, docs, answered, crashes>>

\* command.status = "completed", whatever it is by now, and remember_request.
CompleteCommand(t) ==
    LET th == thread[t] IN
    /\ th.pc = "complete"
    /\ command' = [Purged EXCEPT ![th.command].status = "completed",
                                 ![th.command].result = th.result]
    /\ stored' = Kept
    /\ results' = [results EXCEPT ![th.request] = th.result]
    /\ Goto(t, "truncate2")
    /\ UNCHANGED <<files, now, docs, history>>

TruncateOuter(t) ==
    /\ thread[t].pc = "truncate2"
    /\ files' = [files EXCEPT ![<<thread[t].user, "portal">>] = Torn]
    /\ Goto(t, "save2")
    /\ UNCHANGED <<memory, now, docs, history>>

\* _remember_idempotent_result with the session loaded first, and the answer.
SaveOuter(t) ==
    LET th == thread[t] IN
    /\ th.pc = "save2"
    /\ WriteOut(<<th.user, "portal">>, Remember(th.outer, th.request, th.result))
    /\ excused' = excused \cup ({th.user} \X Forgotten(th.outer, th.request))
    /\ Answer(t, th.result)
    /\ UNCHANGED <<memory, now, docs, crashes>>

-----------------------------------------------------------------------------
Tick ==
    /\ now < MaxTime
    /\ now' = now + 1
    /\ UNCHANGED <<memory, files, thread, docs, history>>

\* The process dies: commands and remembered results go, the files stay.
Crash ==
    /\ crashes < MaxCrashes
    /\ crashes' = crashes + 1
    /\ command' = [c \in Commands |-> IF command[c] = Unused THEN Unused ELSE Gone]
    /\ stored' = {}
    /\ results' = [r \in Requests |-> 0]
    /\ thread' = [t \in Threads |-> Idle]
    /\ UNCHANGED <<files, now, docs, answered, excused>>

Next ==
    \/ \E u \in Users, c \in Commands : Preview(u, c)
    \/ \E t \in Threads :
        \/ \E u \in Users, c \in Commands, r \in Requests : Confirm(t, u, c, r)
        \/ LookupReplay(t) \/ LookupMiss(t) \/ GetCommand(t)
        \/ RecheckPlain(t) \/ RecheckWriter(t)
        \/ WriteDocument(t) \/ Readback(t) \/ Fail(t)
        \/ RememberRequest(t) \/ TruncateInner(t) \/ SaveInner(t)
        \/ CompleteCommand(t) \/ TruncateOuter(t) \/ SaveOuter(t)
    \/ Tick \/ Crash

Spec == Init /\ [][Next]_vars
-----------------------------------------------------------------------------
(* What the confirmation is for.                                            *)

\* Whatever is remembered for a request_id or was answered for it, in memory, in
\* a file or to a user, is a document ERPNext wrote for that request_id.
ResultIsReal ==
    LET Wrote(d, r) == d \in DOMAIN docs /\ docs[d].request = r IN
    /\ \A r \in Requests : results[r] # 0 => Wrote(results[r], r)
    /\ \A f \in Files : files[f] # Torn =>
          \A i \in DOMAIN files[f] : Wrote(files[f][i].result, files[f][i].request)
    /\ \A a \in answered : Wrote(a.document, a.request)
    /\ \A c \in stored : command[c].status = "completed" => command[c].result \in DOMAIN docs

\* A confirmation that arrives when its request_id is remembered or its command
\* is completed never gets as far as a write.
NoRerun ==
    \A t \in Threads : thread[t].pc \in {"recheck", "write", "readback"} => ~thread[t].replay

\* A completed command is never offered for confirmation again, and none comes
\* back once it expired or left the store, but for the one being written then.
CompletedForGood ==
    [][\A c \in Commands :
          /\ command[c].status = "completed" => command'[c].status \in {"completed", "gone"}
          /\ command[c].status \in {"expired", "gone"} => command'[c].status # "pending"
          /\ command[c] # Unused /\ c \notin stored => c \notin stored']_vars

\* A request_id that was answered to a user is never written for that user again,
\* restarts included, unless confirmations of that user ran at once, another user
\* confirmed under the same request_id, or a full session file has dropped it.
AnsweredOnce ==
    [][\A a \in answered : <<a.user, a.request>> \notin excused' =>
          \A d \in DOMAIN docs' \ DOMAIN docs :
             docs'[d] # [user |-> a.user, request |-> a.request]]_vars

\* docs/reference/material-portal-ux-remediation-v0.2.md: a repeated request_id
\* does not create a second document.
ConfirmedOnce ==
    \A d, e \in DOMAIN docs : docs[d] = docs[e] => d = e

\* The comment of _idempotency_context: idempotency is scoped by identity as
\* well as by account, so an answer is the user's own document.
OwnAnswer == \A a \in answered : docs[a.document].user = a.user
=============================================================================
