----------------------------- MODULE RuntimeTurn -----------------------------
(***************************************************************************)
(* The turns of the in-process agent runtime, DeepSeekAgentRuntime.run_once *)
(* and the session file of one employee: a turn plans with the language    *)
(* model until it answers, asks, or offers a write for confirmation; a turn *)
(* with execute writes what the session holds.  Each turn is a process that *)
(* loads the session, works on its copy and saves it whole (chat_once).    *)
(*                                                                         *)
(* An offer is a pending_action with a ToolCall; it never changes once it  *)
(* is bound, so the hash of the call always matches.  The employee, the    *)
(* profile and the session_id of a binding are those of the file.  What a  *)
(* turn answers is not modelled, only whether its request_id is remembered: *)
(* a repeated one is answered from the session, which changes nothing.     *)
(***************************************************************************)
EXTENDS Integers, Sequences

CONSTANTS
    Conversations, Projects,    \* what the context of a turn selects
    RequestIds,                 \* the request_id values
    Nothing,                    \* no conversation, project or request_id
    Cut,                        \* a file no reader can parse
    Turns,                      \* turns that may run at once
    MaxSteps,                   \* max_steps, the planning steps of an operation
    Lifetime,                   \* PENDING_CONFIRMATION_TTL_MINUTES, in clock units
    MaxClock, MaxOffers, MaxWrites, MaxStops     \* bounds

VARIABLES
    saved,      \* the session file
    offers,     \* the pending_action objects, in the order of their making
    turn,       \* what each turn is doing, with the session it works on
    clock,
    writes,     \* what ERPNext wrote: which offer, confirmed where and when
    overlaps,   \* two turns have run at once
    unsaved,    \* the offers a turn had written when it ended without saving
    stops       \* turns that ended so

turnVars == <<saved, offers, turn, clock, writes, overlaps, unsaved, stops>>

\* pending is the offer to confirm; 0 stands for no pending_action and for one
\* without a ToolCall, a clarification, which a confirmation refuses alike.
Session == [conversation : Conversations \cup {Nothing}, project : Projects \cup {Nothing},
            pending : 0..MaxOffers, remembered : SUBSET RequestIds]
Binding == [conversation : Conversations \cup {Nothing}, project : Projects \cup {Nothing},
            expires : 0..(MaxClock + Lifetime), steps : 0..MaxSteps]
Write   == [offer : 1..MaxOffers, conversation : Conversations \cup {Nothing},
            project : Projects \cup {Nothing}, at : 0..MaxClock]

Resting == [pc |-> "rest"]
AtWork == [pc : {"execute", "plan", "truncate", "save"}, session : Session,
           request : RequestIds \cup {Nothing}, steps : 0..MaxSteps, wrote : 0..MaxOffers]

ASSUME RuntimeAssumption ==
    /\ MaxSteps \in Nat /\ Lifetime \in Nat /\ MaxClock \in Nat
    /\ MaxOffers \in Nat /\ MaxWrites \in Nat /\ MaxStops \in Nat
    /\ Cut \notin Session /\ Nothing \notin RequestIds

RuntimeTypeOK ==
    /\ saved \in Session \cup {Cut}
    /\ offers \in Seq(Binding) /\ Len(offers) <= MaxOffers
    /\ turn \in [Turns -> AtWork \cup {Resting}]
    /\ clock \in 0..MaxClock
    /\ writes \in Seq(Write) /\ Len(writes) <= MaxWrites
    /\ overlaps \in BOOLEAN
    /\ unsaved \subseteq 1..MaxOffers
    /\ stops \in 0..MaxStops

RuntimeInit ==
    /\ saved = [conversation |-> Nothing, project |-> Nothing, pending |-> 0, remembered |-> {}]
    /\ offers = <<>> /\ writes = <<>>
    /\ turn = [t \in Turns |-> Resting]
    /\ clock = 0
    /\ overlaps = FALSE
    /\ unsaved = {} /\ stops = 0

-----------------------------------------------------------------------------
\* Another conversation, or another project than the session has, drops the offer; a
\* context without a project leaves the session's.
Enters(s, v, p) ==
    LET left == \/ s.conversation \notin {Nothing, v}
                \/ p # Nothing /\ s.project \notin {Nothing, p} IN
    [s EXCEPT !.conversation = v,
              !.project = IF p = Nothing THEN @ ELSE p,
              !.pending = IF left THEN 0 ELSE @]

\* run_once up to the branch on execute.
StartTurn(t, r, v, p, execute) ==
    /\ turn[t].pc = "rest"
    /\ saved # Cut
    /\ r \notin saved.remembered
    /\ turn' = [turn EXCEPT ![t] =
           [pc |-> IF execute THEN "execute" ELSE "plan", session |-> Enters(saved, v, p),
            request |-> r, steps |-> 0, wrote |-> 0]]
    /\ overlaps' = (overlaps \/ \E u \in Turns : turn[u].pc # "rest")
    /\ UNCHANGED <<saved, offers, clock, writes, unsaved, stops>>

\* _save: the request_id of a completed or failed turn is remembered.
Ends(w, s, r) == [w EXCEPT !.pc = "truncate",
                           !.session = [s EXCEPT !.remembered = @ \cup ({r} \ {Nothing})]]

\* _pending_binding_error finds nothing.
BoundHere(s) ==
    /\ offers[s.pending].conversation = s.conversation
    /\ offers[s.pending].project = s.project
    /\ clock < offers[s.pending].expires

\* A confirmation without an offer, or with one bound elsewhere or expired, which it drops.
RefuseOffer(t) ==
    LET s == turn[t].session IN
    /\ turn[t].pc = "execute"
    /\ s.pending # 0 => ~BoundHere(s)
    /\ turn' = [turn EXCEPT ![t] = Ends(turn[t], [s EXCEPT !.pending = 0], turn[t].request)]
    /\ UNCHANGED <<saved, offers, clock, writes, overlaps, unsaved, stops>>

\* After an execution that is not ok the turn plans on, with the steps of the offer spent.
PlansOn(w, s, spent) == [w EXCEPT !.pc = "plan", !.steps = spent, !.session = [s EXCEPT !.pending = 0]]

\* Mutation: the offer is kept for another attempt unless the execution was ok.
WriteOfferOrKeep(t) ==
    LET s == turn[t].session IN
    /\ turn[t].pc = "execute" /\ s.pending # 0 /\ BoundHere(s)
    /\ Len(writes) < MaxWrites
    /\ writes' = Append(writes, [offer |-> s.pending, conversation |-> s.conversation,
                                 project |-> s.project, at |-> clock])
    /\ \/ turn' = [turn EXCEPT ![t] =
              Ends([turn[t] EXCEPT !.wrote = s.pending], [s EXCEPT !.pending = 0], turn[t].request)]
       \/ turn' = [turn EXCEPT ![t] =
              [PlansOn(turn[t], s, offers[s.pending].steps) EXCEPT !.session = s,
                                                                  !.wrote = s.pending]]
    /\ UNCHANGED <<saved, offers, clock, overlaps, unsaved, stops>>

\* ERPNext writes the offer.  Answered in time it completes the turn, verified or not;
\* when the answer is lost the turn plans on.
WriteOffer(t) ==
    LET s == turn[t].session IN
    /\ turn[t].pc = "execute" /\ s.pending # 0 /\ BoundHere(s)
    /\ Len(writes) < MaxWrites
    /\ writes' = Append(writes, [offer |-> s.pending, conversation |-> s.conversation,
                                 project |-> s.project, at |-> clock])
    /\ \/ turn' = [turn EXCEPT ![t] =
              Ends([turn[t] EXCEPT !.wrote = s.pending], [s EXCEPT !.pending = 0], turn[t].request)]
       \/ turn' = [turn EXCEPT ![t] =
              [PlansOn(turn[t], s, offers[s.pending].steps) EXCEPT !.wrote = s.pending]]
    /\ UNCHANGED <<saved, offers, clock, overlaps, unsaved, stops>>

\* ERPNext refuses it: a permission error fails the turn, another one plans on.
OfferFails(t) ==
    LET s == turn[t].session IN
    /\ turn[t].pc = "execute" /\ s.pending # 0 /\ BoundHere(s)
    /\ \/ turn' = [turn EXCEPT ![t] = Ends(turn[t], [s EXCEPT !.pending = 0], turn[t].request)]
       \/ turn' = [turn EXCEPT ![t] = PlansOn(turn[t], s, offers[s.pending].steps)]
    /\ UNCHANGED <<saved, offers, clock, writes, overlaps, unsaved, stops>>

\* A planning step that leads to the next one: a discovery, a guide, an entity, a read,
\* an error to repair, a repetition that is pointed out.
PlanOn(t) ==
    /\ turn[t].pc = "plan" /\ turn[t].steps < MaxSteps
    /\ turn' = [turn EXCEPT ![t].steps = @ + 1]
    /\ UNCHANGED <<saved, offers, clock, writes, overlaps, unsaved, stops>>

\* propose_business_action or execute_tool of a write: _bind_pending_action, and an
\* answer that needs a confirmation, saved without the request_id.
Propose(t) ==
    LET s == turn[t].session IN
    /\ turn[t].pc = "plan" /\ turn[t].steps < MaxSteps
    /\ Len(offers) < MaxOffers
    /\ offers' = Append(offers, [conversation |-> s.conversation, project |-> s.project,
                                 expires |-> clock + Lifetime, steps |-> turn[t].steps + 1])
    /\ turn' = [turn EXCEPT ![t] = Ends(turn[t], [s EXCEPT !.pending = Len(offers) + 1], Nothing)]
    /\ UNCHANGED <<saved, clock, writes, overlaps, unsaved, stops>>

\* ask_user: the question takes the place of the offer.
AskUser(t) ==
    /\ turn[t].pc = "plan" /\ turn[t].steps < MaxSteps
    /\ turn' = [turn EXCEPT ![t] = Ends(turn[t], [turn[t].session EXCEPT !.pending = 0], Nothing)]
    /\ UNCHANGED <<saved, offers, clock, writes, overlaps, unsaved, stops>>

\* finish, a planner that fails, a refused read, too many repairs or repetitions, and the
\* step limit: the turn completes or fails, with the offer the session had.
EndTurn(t) ==
    /\ turn[t].pc = "plan"
    /\ turn' = [turn EXCEPT ![t] = Ends(turn[t], turn[t].session, turn[t].request)]
    /\ UNCHANGED <<saved, offers, clock, writes, overlaps, unsaved, stops>>

\* RuntimeSessionStore.save: write_text truncates the file and writes it; over a text
\* another turn wrote meanwhile, the tail of the longer one remains.
TruncateSession(t) ==
    /\ turn[t].pc = "truncate"
    /\ saved' = Cut
    /\ turn' = [turn EXCEPT ![t].pc = "save"]
    /\ UNCHANGED <<offers, clock, writes, overlaps, unsaved, stops>>

SaveSession(t) ==
    /\ turn[t].pc = "save"
    /\ saved' \in {turn[t].session} \cup (IF saved = Cut THEN {} ELSE {Cut})
    /\ turn' = [turn EXCEPT ![t] = Resting]
    /\ UNCHANGED <<offers, clock, writes, overlaps, unsaved, stops>>

\* The process is killed, or an error no clause catches ends the turn.
StopTurn(t) ==
    /\ turn[t].pc # "rest"
    /\ stops < MaxStops
    /\ stops' = stops + 1
    /\ turn' = [turn EXCEPT ![t] = Resting]
    /\ unsaved' = unsaved \cup ({turn[t].wrote} \ {0})
    /\ UNCHANGED <<saved, offers, clock, writes, overlaps>>

PassTime ==
    /\ clock < MaxClock
    /\ clock' = clock + 1
    /\ UNCHANGED <<saved, offers, turn, writes, overlaps, unsaved, stops>>

RuntimeNext ==
    \/ \E t \in Turns :
        \/ \E r \in RequestIds \cup {Nothing}, v \in Conversations,
              p \in Projects \cup {Nothing}, execute \in BOOLEAN : StartTurn(t, r, v, p, execute)
        \/ RefuseOffer(t) \/ WriteOffer(t) \/ OfferFails(t)
        \/ PlanOn(t) \/ Propose(t) \/ AskUser(t) \/ EndTurn(t)
        \/ TruncateSession(t) \/ SaveSession(t) \/ StopTurn(t)
    \/ PassTime

RuntimeSpec == RuntimeInit /\ [][RuntimeNext]_turnVars

-----------------------------------------------------------------------------
\* tests/unit/agent_runtime/test_deepseek_agent_runtime.py:1294-1361: a confirmation
\* executes an offer only in the conversation and for the project it was made in, and
\* before it expires, however turns overlap.  While turns of the employee follow one
\* another, no offer is executed twice, lost answers of ERPNext included, and none
\* after a newer one, unless the turn that executed it died before it saved.
WrittenAsOffered ==
    /\ \A i \in DOMAIN writes :
          LET w == writes[i]
              o == offers[w.offer] IN
          w.conversation = o.conversation /\ w.project = o.project /\ w.at < o.expires
    /\ overlaps \/ \A i, j \in DOMAIN writes : i < j =>
          \/ writes[i].offer < writes[j].offer
          \/ writes[i].offer = writes[j].offer /\ writes[i].offer \in unsaved
=============================================================================
