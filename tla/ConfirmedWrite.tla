--------------------------- MODULE ConfirmedWrite ---------------------------
(***************************************************************************)
(* What the write-confirmation decision (ADR-004) promises of an operation *)
(* the agent prepares: one call is offered, the employee consents to it or *)
(* lets it lapse, and only a consented call is written, once and as        *)
(* offered.  The answer "done" is given only for a written call; "unsure"  *)
(* leaves open whether it was or will still be written.                    *)
(***************************************************************************)
EXTENDS Naturals

CONSTANTS Operations, Calls

VARIABLES
    offer,      \* the call offered for an operation: {} or a singleton
    consent,    \* "none", "asked", "lapsed" or "given"
    written,    \* how often each call is written, by operation
    answer      \* "open", "done" or "unsure"

vars == <<offer, consent, written, answer>>

Init ==
    /\ offer = [o \in Operations |-> {}]
    /\ consent = [o \in Operations |-> "none"]
    /\ written = [o \in Operations |-> [c \in Calls |-> 0]]
    /\ answer = [o \in Operations |-> "open"]

Ask(o, c) ==
    /\ consent[o] = "none"
    /\ offer' = [offer EXCEPT ![o] = {c}]
    /\ consent' = [consent EXCEPT ![o] = "asked"]
    /\ UNCHANGED <<written, answer>>

Lapse(o) ==
    /\ consent[o] = "asked"
    /\ consent' = [consent EXCEPT ![o] = "lapsed"]
    /\ UNCHANGED <<offer, written, answer>>

Consent(o) ==
    /\ consent[o] = "asked"
    /\ consent' = [consent EXCEPT ![o] = "given"]
    /\ UNCHANGED <<offer, written, answer>>

Write(o, c) ==
    /\ consent[o] = "given"
    /\ c \in offer[o]
    /\ \A d \in Calls : written[o][d] = 0
    /\ written' = [written EXCEPT ![o][c] = 1]
    /\ UNCHANGED <<offer, consent, answer>>

AnswerDone(o) ==
    /\ consent[o] = "given"
    /\ answer[o] = "open"
    /\ \E c \in offer[o] : written[o][c] = 1
    /\ answer' = [answer EXCEPT ![o] = "done"]
    /\ UNCHANGED <<offer, consent, written>>

AnswerUnsure(o) ==
    /\ consent[o] = "given"
    /\ answer[o] \in {"open", "done"}
    /\ answer' = [answer EXCEPT ![o] = "unsure"]
    /\ UNCHANGED <<offer, consent, written>>

Next ==
    \E o \in Operations :
        \/ \E c \in Calls : Ask(o, c) \/ Write(o, c)
        \/ Lapse(o) \/ Consent(o) \/ AnswerDone(o) \/ AnswerUnsure(o)

Spec == Init /\ [][Next]_vars
=============================================================================
