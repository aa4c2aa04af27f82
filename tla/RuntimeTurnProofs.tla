-------------------------- MODULE RuntimeTurnProofs --------------------------
(***************************************************************************)
(* What the turns of RuntimeTurn guarantee for any number of turns, offers, *)
(* conversations, projects and planning steps.                             *)
(***************************************************************************)
EXTENDS RuntimeTurn, SequenceTheorems, TLAPS

Active(t) == turn[t].pc # "rest"

\* Every offer a session names was made, and every write is of one that fits it.
PendingsExist ==
    /\ saved # Cut => saved.pending <= Len(offers)
    /\ \A t \in Turns : Active(t) => turn[t].session.pending <= Len(offers)

WritesFit ==
    \A i \in DOMAIN writes :
       /\ writes[i].offer <= Len(offers)
       /\ writes[i].conversation = offers[writes[i].offer].conversation
       /\ writes[i].project = offers[writes[i].offer].project
       /\ writes[i].at < offers[writes[i].offer].expires

\* No write is of a newer offer than p, and one of p itself only by a turn that died.
Above(p) == \A i \in DOMAIN writes : writes[i].offer < p \/ (writes[i].offer = p /\ p \in unsaved)

\* The same, but for the turn that has just written p and has not saved yet.
AboveOrWriting(p) ==
    \A i \in DOMAIN writes :
       \/ writes[i].offer < p
       \/ writes[i].offer = p /\ (p \in unsaved \/ \E t \in Turns : Active(t) /\ turn[t].wrote = p)

InOrder == \A i, j \in DOMAIN writes : i < j =>
              \/ writes[i].offer < writes[j].offer
              \/ writes[i].offer = writes[j].offer /\ writes[i].offer \in unsaved

\* While turns follow one another: what they and the file may still offer.
Sequential ==
    /\ \A t, u \in Turns : Active(t) /\ Active(u) => t = u
    /\ saved # Cut /\ saved.pending # 0 => AboveOrWriting(saved.pending)
    /\ \A t \in Turns : Active(t) /\ turn[t].session.pending # 0 => Above(turn[t].session.pending)
    /\ \A t \in Turns : turn[t].pc = "execute" =>
          turn[t].wrote = 0 /\ saved # Cut /\ turn[t].session.pending \in {0, saved.pending}
    /\ InOrder

RuntimeInv ==
    /\ RuntimeTypeOK
    /\ PendingsExist /\ WritesFit
    /\ overlaps \/ Sequential

-----------------------------------------------------------------------------
LEMMA TurnTypes ==
    ASSUME RuntimeTypeOK, NEW t \in Turns, Active(t)
    PROVE  /\ turn[t] \in AtWork /\ turn[t].session \in Session
           /\ turn[t].request \in RequestIds \cup {Nothing}
           /\ turn[t].session.pending \in 0..MaxOffers
           /\ turn[t].steps \in 0..MaxSteps
           /\ turn[t].wrote \in 0..MaxOffers
<1>1. turn[t] \in AtWork
  BY DEF RuntimeTypeOK, Active, Resting
<1> QED  BY <1>1 DEF AtWork, Session

LEMMA EndsTypes ==
    ASSUME NEW w \in AtWork, NEW s \in Session, NEW r \in RequestIds \cup {Nothing}
    PROVE  /\ Ends(w, s, r) \in AtWork
           /\ Ends(w, s, r).pc = "truncate"
           /\ Ends(w, s, r).wrote = w.wrote
           /\ Ends(w, s, r).session.pending = s.pending
<1> DEFINE q == [s EXCEPT !.remembered = @ \cup ({r} \ {Nothing})]
<1>1. q \in Session /\ q.pending = s.pending
  BY DEF Session
<1>2. Ends(w, s, r) = [w EXCEPT !.pc = "truncate", !.session = q]
  BY DEF Ends
<1> HIDE DEF q
<1> QED  BY <1>1, <1>2 DEF AtWork

LEMMA PlansOnTypes ==
    ASSUME NEW w \in AtWork, NEW s \in Session, NEW n \in 0..MaxSteps
    PROVE  /\ PlansOn(w, s, n) \in AtWork
           /\ PlansOn(w, s, n).pc = "plan"
           /\ PlansOn(w, s, n).wrote = w.wrote
           /\ PlansOn(w, s, n).session.pending = 0
<1> DEFINE q == [s EXCEPT !.pending = 0]
<1>1. q \in Session /\ q.pending = 0
  BY RuntimeAssumption DEF Session
<1>2. PlansOn(w, s, n) = [w EXCEPT !.pc = "plan", !.steps = n, !.session = q]
  BY DEF PlansOn
<1> HIDE DEF q
<1> QED  BY <1>1, <1>2 DEF AtWork

\* Without its offer a session is still one.
LEMMA Dropped ==
    ASSUME NEW s \in Session
    PROVE  [s EXCEPT !.pending = 0] \in Session /\ [s EXCEPT !.pending = 0].pending = 0
BY RuntimeAssumption DEF Session

LEMMA OfferTypes ==
    ASSUME RuntimeTypeOK
    PROVE  /\ Len(offers) \in 0..MaxOffers /\ DOMAIN offers = 1..Len(offers)
           /\ Len(writes) \in 0..MaxWrites /\ DOMAIN writes = 1..Len(writes)
           /\ \A i \in DOMAIN offers : offers[i] \in Binding
           /\ \A i \in DOMAIN writes : writes[i] \in Write /\ writes[i].offer \in 1..MaxOffers
<1>1. /\ Len(offers) \in Nat /\ DOMAIN offers = 1..Len(offers)
      /\ Len(writes) \in Nat /\ DOMAIN writes = 1..Len(writes)
      /\ Len(offers) <= MaxOffers /\ Len(writes) <= MaxWrites
  BY LenProperties DEF RuntimeTypeOK
<1>2. \A i \in DOMAIN offers : offers[i] \in Binding
  BY <1>1 DEF RuntimeTypeOK
<1>3. \A i \in DOMAIN writes : writes[i] \in Write
  BY <1>1 DEF RuntimeTypeOK
<1> QED  BY <1>1, <1>2, <1>3, RuntimeAssumption DEF Write

-----------------------------------------------------------------------------
(* The steps.                                                               *)
\* A turn at work that moves on to anything but an execution, with the offer it had or
\* none, disturbs nothing.
LEMMA QuietTurn ==
    ASSUME RuntimeInv, NEW t \in Turns, Active(t), NEW w \in AtWork,
           turn' = [turn EXCEPT ![t] = w],
           w.pc # "execute", w.pc # "rest", w.wrote = turn[t].wrote,
           w.session.pending \in {0, turn[t].session.pending},
           UNCHANGED <<saved, offers, clock, writes, overlaps, unsaved, stops>>
    PROVE  RuntimeInv'
<1>1. /\ turn \in [Turns -> AtWork \cup {Resting}]
      /\ \A u \in Turns : turn'[u] = IF u = t THEN w ELSE turn[u]
  BY DEF RuntimeInv, RuntimeTypeOK
<1>2. RuntimeTypeOK'
  BY <1>1 DEF RuntimeInv, RuntimeTypeOK
<1>3. \A u \in Turns : Active(u)' <=> Active(u)
  BY <1>1 DEF Active
<1>4. PendingsExist'
  <2>1. w.session.pending <= Len(offers)
    BY OfferTypes, RuntimeAssumption DEF RuntimeInv, PendingsExist
  <2> QED  BY <1>1, <1>3, <2>1 DEF RuntimeInv, PendingsExist
<1>5. WritesFit'
  BY DEF RuntimeInv, WritesFit
<1>6. ASSUME ~overlaps PROVE Sequential'
  <2>0. Sequential
    BY <1>6 DEF RuntimeInv
  <2>1. \A u, v \in Turns : (Active(u) /\ Active(v))' => u = v
    BY <1>3, <2>0 DEF Sequential
  <2>2. \A p : AboveOrWriting(p) => AboveOrWriting(p)'
    BY <1>1, <1>3 DEF AboveOrWriting
  <2>3. \A p : Above(p) => Above(p)'
    BY DEF Above
  <2>4. \A u \in Turns : Active(u)' /\ turn'[u].session.pending # 0 =>
                            Above(turn'[u].session.pending)
    BY <1>1, <1>3, <2>0 DEF Sequential
  <2>5. \A u \in Turns : turn'[u].pc = "execute" =>
           turn'[u].wrote = 0 /\ saved # Cut /\ turn'[u].session.pending \in {0, saved.pending}
    BY <1>1, <2>0 DEF Sequential
  <2>6. InOrder'
    BY <2>0 DEF Sequential, InOrder
  <2> QED  BY <2>0, <2>1, <2>2, <2>3, <2>4, <2>5, <2>6 DEF Sequential
<1> QED  BY <1>2, <1>4, <1>5, <1>6 DEF RuntimeInv

LEMMA QuietStepsKeep ==
    ASSUME RuntimeInv, NEW t \in Turns,
           RefuseOffer(t) \/ OfferFails(t) \/ PlanOn(t) \/ AskUser(t) \/ EndTurn(t)
    PROVE  RuntimeInv'
<1> DEFINE w == turn[t]
           s == turn[t].session
           none == [s EXCEPT !.pending = 0]
<1>1. Active(t)
  BY DEF RefuseOffer, OfferFails, PlanOn, AskUser, EndTurn, Active
<1>2. /\ w \in AtWork /\ s \in Session /\ w.request \in RequestIds \cup {Nothing}
      /\ s.pending \in 0..MaxOffers
  BY <1>1, TurnTypes DEF RuntimeInv
<1>3. none \in Session /\ none.pending = 0
  BY <1>2, Dropped
<1>4. Nothing \in RequestIds \cup {Nothing}
  OBVIOUS
<1> HIDE DEF none
<1>5. CASE turn' = [turn EXCEPT ![t] = Ends(w, none, w.request)]
           /\ UNCHANGED <<saved, offers, clock, writes, overlaps, unsaved, stops>>
  <2>1. PICK x : x = Ends(w, none, w.request)
    OBVIOUS
  <2>2. x \in AtWork /\ x.pc = "truncate" /\ x.wrote = w.wrote /\ x.session.pending = 0
    BY <1>2, <1>3, <2>1, EndsTypes
  <2> QED  BY <1>1, <1>5, <2>1, <2>2, QuietTurn
<1>6. CASE turn' = [turn EXCEPT ![t] = Ends(w, none, Nothing)]
           /\ UNCHANGED <<saved, offers, clock, writes, overlaps, unsaved, stops>>
  <2>1. PICK x : x = Ends(w, none, Nothing)
    OBVIOUS
  <2>2. x \in AtWork /\ x.pc = "truncate" /\ x.wrote = w.wrote /\ x.session.pending = 0
    BY <1>2, <1>3, <2>1, EndsTypes
  <2> QED  BY <1>1, <1>6, <2>1, <2>2, QuietTurn
<1>7. CASE EndTurn(t)
  <2>1. PICK x : x = Ends(w, s, w.request)
    OBVIOUS
  <2>2. x \in AtWork /\ x.pc = "truncate" /\ x.wrote = w.wrote
        /\ x.session.pending = s.pending
    BY <1>2, <2>1, EndsTypes
  <2> QED  BY <1>1, <1>7, <2>1, <2>2, QuietTurn DEF EndTurn
<1>8. CASE PlanOn(t)
  <2>1. PICK x : x = [w EXCEPT !.steps = w.steps + 1]
    OBVIOUS
  <2>2. /\ w.steps \in 0..MaxSteps /\ w.steps < MaxSteps /\ w.pc = "plan"
        /\ turn' = [turn EXCEPT ![t] = x]
    BY <1>1, <1>8, <2>1, TurnTypes DEF PlanOn, RuntimeInv
  <2>3. x \in AtWork /\ x.pc = "plan" /\ x.wrote = w.wrote /\ x.session = s
    BY <1>2, <2>1, <2>2, RuntimeAssumption DEF AtWork
  <2> QED  BY <1>1, <1>8, <2>2, <2>3, QuietTurn DEF PlanOn
<1>9. CASE OfferFails(t)
  <2>1. CASE turn' = [turn EXCEPT ![t] = PlansOn(w, s, offers[s.pending].steps)]
    <3>1. s.pending \in DOMAIN offers
      BY <1>1, <1>2, <1>9, OfferTypes, RuntimeAssumption DEF OfferFails, RuntimeInv, PendingsExist
    <3>2. offers[s.pending].steps \in 0..MaxSteps
      BY <3>1, OfferTypes DEF RuntimeInv, Binding
    <3>3. PICK x : x = PlansOn(w, s, offers[s.pending].steps)
      OBVIOUS
    <3>4. x \in AtWork /\ x.pc = "plan" /\ x.wrote = w.wrote /\ x.session.pending = 0
      BY <1>2, <3>2, <3>3, PlansOnTypes
    <3> QED  BY <1>1, <1>9, <2>1, <3>3, <3>4, QuietTurn DEF OfferFails
  <2>2. CASE turn' = [turn EXCEPT ![t] = Ends(w, none, w.request)]
    BY <1>5, <1>9, <2>2 DEF OfferFails
  <2> QED  BY <1>9, <2>1, <2>2 DEF OfferFails, none
<1>10. CASE RefuseOffer(t)
  BY <1>5, <1>10 DEF RefuseOffer, none
<1>11. CASE AskUser(t)
  BY <1>6, <1>11 DEF AskUser, none
<1> QED  BY <1>7, <1>8, <1>9, <1>10, <1>11

\* A turn that starts with no other about takes what the file offers, or nothing.
LEMMA StartKeeps ==
    ASSUME RuntimeInv, NEW t \in Turns, NEW r \in RequestIds \cup {Nothing},
           NEW v \in Conversations, NEW p \in Projects \cup {Nothing}, NEW execute \in BOOLEAN,
           StartTurn(t, r, v, p, execute)
    PROVE  RuntimeInv'
<1> DEFINE s == Enters(saved, v, p)
           w == [pc |-> IF execute THEN "execute" ELSE "plan", session |-> s,
                 request |-> r, steps |-> 0, wrote |-> 0]
<1>1. /\ ~Active(t) /\ saved # Cut
      /\ turn' = [turn EXCEPT ![t] = w]
      /\ overlaps' = (overlaps \/ \E u \in Turns : Active(u))
      /\ UNCHANGED <<saved, offers, clock, writes, unsaved, stops>>
  BY DEF StartTurn, Active
<1>2. saved \in Session
  BY <1>1 DEF RuntimeInv, RuntimeTypeOK
<1>3. s \in Session /\ s.pending \in {0, saved.pending}
  <2> DEFINE left == \/ saved.conversation \notin {Nothing, v}
                     \/ p # Nothing /\ saved.project \notin {Nothing, p}
             project == IF p = Nothing THEN saved.project ELSE p
             pending == IF left THEN 0 ELSE saved.pending
  <2>1. /\ project \in Projects \cup {Nothing}
        /\ pending \in {0, saved.pending} /\ pending \in 0..MaxOffers
    BY <1>2, RuntimeAssumption DEF Session
  <2>2. s = [saved EXCEPT !.conversation = v, !.project = project, !.pending = pending]
    BY Zenon DEF Enters
  <2> HIDE DEF project, pending
  <2> QED  BY <1>2, <2>1, <2>2 DEF Session
<1> HIDE DEF s
<1>4. /\ w \in AtWork /\ w.pc # "rest" /\ w.wrote = 0 /\ w.session = s
      /\ w.pc \in {"execute", "plan"}
  BY <1>3, RuntimeAssumption DEF AtWork
<1> HIDE DEF w
<1>5. /\ turn \in [Turns -> AtWork \cup {Resting}]
      /\ \A u \in Turns : turn'[u] = IF u = t THEN w ELSE turn[u]
  BY <1>1 DEF RuntimeInv, RuntimeTypeOK
<1>6. RuntimeTypeOK'
  <2>1. turn' \in [Turns -> AtWork \cup {Resting}]
    BY <1>1, <1>4, <1>5
  <2>2. overlaps' \in BOOLEAN
    BY <1>1
  <2> QED  BY <1>1, <2>1, <2>2 DEF RuntimeInv, RuntimeTypeOK
<1>7. PendingsExist'
  <2>1. s.pending <= Len(offers)
    BY <1>1, <1>3, OfferTypes, RuntimeAssumption DEF RuntimeInv, PendingsExist
  <2> QED  BY <1>1, <1>4, <1>5, <2>1 DEF RuntimeInv, PendingsExist, Active
<1>8. WritesFit'
  BY <1>1 DEF RuntimeInv, WritesFit
<1>9. ASSUME ~overlaps' PROVE Sequential'
  <2>0. Sequential /\ \A u \in Turns : ~Active(u)
    BY <1>1, <1>9 DEF RuntimeInv
  <2>1. \A u \in Turns : Active(u)' => u = t
    BY <1>5, <2>0 DEF Active
  <2>2. saved.pending # 0 => Above(saved.pending)
    BY <1>1, <2>0 DEF Sequential, AboveOrWriting, Above
  <2>3. \A q : Above(q) => Above(q)' /\ AboveOrWriting(q)'
    BY <1>1 DEF Above, AboveOrWriting
  <2>4. \A u \in Turns : Active(u)' /\ turn'[u].session.pending # 0 =>
                            Above(turn'[u].session.pending)
    BY <1>3, <1>4, <1>5, <2>1, <2>2
  <2>5. \A u \in Turns : turn'[u].pc = "execute" =>
           turn'[u].wrote = 0 /\ saved # Cut /\ turn'[u].session.pending \in {0, saved.pending}
    BY <1>1, <1>3, <1>4, <1>5, <2>0 DEF Active
  <2>6. InOrder'
    BY <1>1, <2>0 DEF Sequential, InOrder
  <2> QED  BY <1>1, <2>1, <2>2, <2>3, <2>4, <2>5, <2>6 DEF Sequential
<1> QED  BY <1>6, <1>7, <1>8, <1>9 DEF RuntimeInv

\* A write takes the newest offer there is, and its turn remembers it until it has saved.
LEMMA WriteKeeps ==
    ASSUME RuntimeInv, NEW t \in Turns, WriteOffer(t)
    PROVE  RuntimeInv'
<1> DEFINE s == turn[t].session
           p == s.pending
           x == [offer |-> p, conversation |-> s.conversation, project |-> s.project, at |-> clock]
           n == Len(writes)
<1>1. /\ turn[t].pc = "execute" /\ Active(t)
      /\ p # 0 /\ BoundHere(s) /\ n < MaxWrites
      /\ writes' = Append(writes, x)
      /\ UNCHANGED <<saved, offers, clock, overlaps, unsaved, stops>>
  BY DEF WriteOffer, Active
<1>2. /\ turn[t] \in AtWork /\ s \in Session /\ p \in 0..MaxOffers
      /\ turn[t].request \in RequestIds \cup {Nothing}
  BY <1>1, TurnTypes DEF RuntimeInv
<1>3. p \in 1..Len(offers) /\ p \in DOMAIN offers /\ p \in 1..MaxOffers
  BY <1>1, <1>2, OfferTypes, RuntimeAssumption DEF RuntimeInv, PendingsExist
<1>4. x \in Write
  BY <1>2, <1>3 DEF Session, Write, RuntimeInv, RuntimeTypeOK
<1>5. /\ x.offer = p /\ x.conversation = offers[p].conversation
      /\ x.project = offers[p].project /\ x.at < offers[p].expires
  BY <1>1 DEF BoundHere
<1> HIDE DEF x
<1>6. /\ writes' \in Seq(Write) /\ Len(writes') = n + 1 /\ n \in Nat
      /\ DOMAIN writes' = 1..(n + 1) /\ DOMAIN writes = 1..n
      /\ \A i \in 1..n : writes'[i] = writes[i]
      /\ writes'[n + 1] = x
  <2>1. writes \in Seq(Write)
    BY DEF RuntimeInv, RuntimeTypeOK
  <2>2. /\ writes' \in Seq(Write) /\ Len(writes') = n + 1
        /\ \A i \in 1..n : writes'[i] = writes[i]
        /\ writes'[n + 1] = x
    BY <1>1, <1>4, <2>1, AppendProperties
  <2>3. n \in Nat
    BY OfferTypes, RuntimeAssumption DEF RuntimeInv
  <2> QED  BY <2>1, <2>2, <2>3, LenProperties
<1>7. PICK w \in AtWork : /\ turn' = [turn EXCEPT ![t] = w]
                           /\ w.pc \in {"truncate", "plan"} /\ w.wrote = p
                           /\ w.session.pending = 0
  <2> DEFINE none == [s EXCEPT !.pending = 0]
             y == [turn[t] EXCEPT !.wrote = p]
             z == PlansOn(turn[t], s, offers[p].steps)
  <2>1. none \in Session /\ none.pending = 0
    BY <1>2, Dropped
  <2>2. y \in AtWork /\ y.wrote = p
    BY <1>2 DEF AtWork
  <2>3. offers[p].steps \in 0..MaxSteps
    BY <1>3, OfferTypes DEF RuntimeInv, Binding
  <2>4. z \in AtWork /\ z.pc = "plan" /\ z.session.pending = 0
    BY <1>2, <2>3, PlansOnTypes
  <2> HIDE DEF none, y, z
  <2>5. \/ turn' = [turn EXCEPT ![t] = Ends(y, none, turn[t].request)]
        \/ turn' = [turn EXCEPT ![t] = [z EXCEPT !.wrote = p]]
    BY DEF WriteOffer, none, y, z
  <2>6. CASE turn' = [turn EXCEPT ![t] = Ends(y, none, turn[t].request)]
    <3>1. PICK q : q = Ends(y, none, turn[t].request)
      OBVIOUS
    <3>2. q \in AtWork /\ q.pc = "truncate" /\ q.wrote = p /\ q.session.pending = 0
      BY <1>2, <2>1, <2>2, <3>1, EndsTypes
    <3> QED  BY <2>6, <3>1, <3>2
  <2>7. CASE turn' = [turn EXCEPT ![t] = [z EXCEPT !.wrote = p]]
    <3>1. PICK q : q = [z EXCEPT !.wrote = p]
      OBVIOUS
    <3>2. q \in AtWork /\ q.pc = "plan" /\ q.wrote = p /\ q.session.pending = 0
      BY <1>2, <2>4, <3>1 DEF AtWork
    <3> QED  BY <2>7, <3>1, <3>2
  <2> QED  BY <2>5, <2>6, <2>7
<1>8. /\ turn' \in [Turns -> AtWork \cup {Resting}]
      /\ \A u \in Turns : turn'[u] = IF u = t THEN w ELSE turn[u]
  BY <1>7 DEF RuntimeInv, RuntimeTypeOK
<1>9. \A u \in Turns : Active(u)' <=> Active(u)
  BY <1>1, <1>7, <1>8 DEF Active
<1>10. RuntimeTypeOK'
  BY <1>1, <1>6, <1>8, RuntimeAssumption DEF RuntimeInv, RuntimeTypeOK
<1>11. PendingsExist'
  <2>1. 0 <= Len(offers)
    BY OfferTypes, RuntimeAssumption DEF RuntimeInv
  <2> QED  BY <1>1, <1>7, <1>8, <1>9, <2>1 DEF RuntimeInv, PendingsExist
<1>12. WritesFit'
  <2> SUFFICES ASSUME NEW i \in 1..(n + 1)
               PROVE  /\ writes'[i].offer <= Len(offers)
                      /\ writes'[i].conversation = offers[writes'[i].offer].conversation
                      /\ writes'[i].project = offers[writes'[i].offer].project
                      /\ writes'[i].at < offers[writes'[i].offer].expires
    BY <1>1, <1>6 DEF WritesFit
  <2>1. CASE i \in 1..n
    BY <1>6, <2>1 DEF RuntimeInv, WritesFit
  <2>2. CASE i = n + 1
    BY <1>3, <1>5, <1>6, <2>2
  <2> QED  BY <1>6, <2>1, <2>2
<1>13. ASSUME ~overlaps PROVE Sequential'
  <2>0. Sequential
    BY <1>13 DEF RuntimeInv
  <2>1. \A u, v \in Turns : (Active(u) /\ Active(v))' => u = v
    BY <1>9, <2>0 DEF Sequential
  <2>2. saved # Cut /\ saved.pending = p /\ turn[t].wrote = 0
    BY <1>1, <2>0 DEF Sequential
  <2>3. \A i \in 1..n : writes[i].offer < p \/ (writes[i].offer = p /\ p \in unsaved)
    BY <1>1, <1>6, <2>0 DEF Sequential, Above
  <2>4. \A i \in 1..(n + 1) : i = n + 1 \/ i \in 1..n
    BY <1>6
  <2>5. AboveOrWriting(saved.pending)'
    <3>1. Active(t)' /\ turn'[t].wrote = p
      BY <1>1, <1>7, <1>8, <1>9
    <3>2. \A i \in 1..(n + 1) :
             \/ writes'[i].offer < p
             \/ writes'[i].offer = p /\ \E u \in Turns : Active(u)' /\ turn'[u].wrote = p
             \/ writes'[i].offer = p /\ p \in unsaved
      BY <1>5, <1>6, <2>3, <2>4, <3>1
    <3> QED  BY <1>1, <1>6, <2>2, <3>2 DEF AboveOrWriting
  <2>6. \A u \in Turns : Active(u)' => turn'[u].session.pending = 0
    BY <1>1, <1>7, <1>8, <1>9, <2>1
  <2>7. \A u \in Turns : turn'[u].pc # "execute"
    BY <1>1, <1>7, <1>8, <2>0 DEF Sequential, Active
  <2>8. InOrder'
    <3> SUFFICES ASSUME NEW i \in 1..(n + 1), NEW j \in 1..(n + 1), i < j
                 PROVE  \/ writes'[i].offer < writes'[j].offer
                        \/ writes'[i].offer = writes'[j].offer /\ writes'[i].offer \in unsaved
      BY <1>1, <1>6 DEF InOrder
    <3>1. i \in 1..n
      BY <1>6
    <3>2. CASE j \in 1..n
      BY <1>6, <2>0, <3>1, <3>2 DEF Sequential, InOrder
    <3>3. CASE j = n + 1
      BY <1>5, <1>6, <2>3, <3>1, <3>3
    <3> QED  BY <2>4, <3>2, <3>3
  <2> QED  BY <1>1, <2>1, <2>5, <2>6, <2>7, <2>8 DEF Sequential
<1> QED  BY <1>1, <1>10, <1>11, <1>12, <1>13 DEF RuntimeInv

\* A new offer is newer than everything written.
LEMMA ProposeKeeps ==
    ASSUME RuntimeInv, NEW t \in Turns, Propose(t)
    PROVE  RuntimeInv'
<1> DEFINE s == turn[t].session
           o == [conversation |-> s.conversation, project |-> s.project,
                 expires |-> clock + Lifetime, steps |-> turn[t].steps + 1]
           n == Len(offers)
           mine == [s EXCEPT !.pending = n + 1]
<1>1. /\ turn[t].pc = "plan" /\ Active(t) /\ turn[t].steps < MaxSteps /\ n < MaxOffers
      /\ offers' = Append(offers, o)
      /\ turn' = [turn EXCEPT ![t] = Ends(turn[t], mine, Nothing)]
      /\ UNCHANGED <<saved, clock, writes, overlaps, unsaved, stops>>
  BY DEF Propose, Active
<1>2. /\ turn[t] \in AtWork /\ s \in Session /\ turn[t].steps \in 0..MaxSteps
      /\ n \in Nat /\ DOMAIN offers = 1..n
  BY <1>1, TurnTypes, OfferTypes, RuntimeAssumption DEF RuntimeInv
<1>3. o \in Binding
  <2>1. s.conversation \in Conversations \cup {Nothing} /\ s.project \in Projects \cup {Nothing}
    BY <1>2 DEF Session
  <2>2. clock + Lifetime \in 0..(MaxClock + Lifetime)
    <3>1. clock \in 0..MaxClock
      BY DEF RuntimeInv, RuntimeTypeOK
    <3> QED  BY <3>1, RuntimeAssumption
  <2>3. turn[t].steps + 1 \in 0..MaxSteps
    BY <1>1, <1>2, RuntimeAssumption
  <2> QED  BY <2>1, <2>2, <2>3 DEF Binding
<1> HIDE DEF o
<1>4. mine \in Session /\ mine.pending = n + 1
  <2>1. n + 1 \in 0..MaxOffers
    BY <1>1, <1>2, RuntimeAssumption
  <2> QED  BY <1>2, <2>1 DEF Session
<1> HIDE DEF mine
<1>5. /\ offers' \in Seq(Binding) /\ Len(offers') = n + 1
      /\ \A i \in 1..n : offers'[i] = offers[i]
  <2>1. offers \in Seq(Binding)
    BY DEF RuntimeInv, RuntimeTypeOK
  <2> QED  BY <1>1, <1>3, <2>1, AppendProperties
<1>6. PICK w \in AtWork : /\ turn' = [turn EXCEPT ![t] = w] /\ w.pc = "truncate"
                           /\ w.wrote = turn[t].wrote /\ w.session.pending = n + 1
  <2>1. PICK q : q = Ends(turn[t], mine, Nothing)
    OBVIOUS
  <2>2. /\ q \in AtWork /\ q.pc = "truncate"
        /\ q.wrote = turn[t].wrote /\ q.session.pending = n + 1
    BY <1>2, <1>4, <2>1, EndsTypes
  <2> QED  BY <1>1, <2>1, <2>2
<1>7. /\ turn' \in [Turns -> AtWork \cup {Resting}]
      /\ \A u \in Turns : turn'[u] = IF u = t THEN w ELSE turn[u]
  BY <1>6 DEF RuntimeInv, RuntimeTypeOK
<1>8. \A u \in Turns : Active(u)' <=> Active(u)
  BY <1>1, <1>6, <1>7 DEF Active
<1>9. RuntimeTypeOK'
  BY <1>1, <1>2, <1>5, <1>7, RuntimeAssumption DEF RuntimeInv, RuntimeTypeOK
<1>10. PendingsExist'
  <2>1. saved # Cut => saved.pending <= n + 1
    <3>1. saved # Cut => saved.pending \in 0..MaxOffers
      BY DEF RuntimeInv, RuntimeTypeOK, Session
    <3> QED  BY <1>2, <3>1, RuntimeAssumption DEF RuntimeInv, PendingsExist
  <2>2. \A u \in Turns : Active(u) => turn[u].session.pending <= n + 1
    <3>1. \A u \in Turns : Active(u) => turn[u].session.pending \in 0..MaxOffers
      BY TurnTypes DEF RuntimeInv
    <3> QED  BY <1>2, <3>1, RuntimeAssumption DEF RuntimeInv, PendingsExist
  <2> QED  BY <1>1, <1>2, <1>5, <1>6, <1>7, <1>8, <2>1, <2>2 DEF PendingsExist
<1>11. \A i \in DOMAIN writes : writes[i].offer \in 1..n
  BY <1>2, OfferTypes, RuntimeAssumption DEF RuntimeInv, WritesFit
<1>12. WritesFit'
  BY <1>1, <1>2, <1>5, <1>11 DEF RuntimeInv, WritesFit
<1>13. ASSUME ~overlaps PROVE Sequential'
  <2>0. Sequential
    BY <1>13 DEF RuntimeInv
  <2>1. \A u, v \in Turns : (Active(u) /\ Active(v))' => u = v
    BY <1>8, <2>0 DEF Sequential
  <2>2. \A p : AboveOrWriting(p) => AboveOrWriting(p)'
    BY <1>1, <1>6, <1>7, <1>8 DEF AboveOrWriting
  <2>3. Above(n + 1)
    BY <1>2, <1>11 DEF Above
  <2>4. \A p : Above(p) => Above(p)'
    BY <1>1 DEF Above
  <2>5. \A u \in Turns : Active(u)' => turn'[u].session.pending = n + 1
    BY <1>1, <1>6, <1>7, <1>8, <2>1
  <2>6. \A u \in Turns : turn'[u].pc # "execute"
    BY <1>1, <1>6, <1>7, <2>0 DEF Sequential, Active
  <2>7. InOrder'
    BY <1>1, <2>0 DEF Sequential, InOrder
  <2> QED  BY <1>1, <2>0, <2>1, <2>2, <2>3, <2>4, <2>5, <2>6, <2>7 DEF Sequential
<1> QED  BY <1>1, <1>9, <1>10, <1>12, <1>13 DEF RuntimeInv

LEMMA TruncateKeeps ==
    ASSUME RuntimeInv, NEW t \in Turns, TruncateSession(t)
    PROVE  RuntimeInv'
<1> DEFINE w == [turn[t] EXCEPT !.pc = "save"]
<1>1. /\ turn[t].pc = "truncate" /\ Active(t) /\ saved' = Cut
      /\ turn' = [turn EXCEPT ![t] = w]
      /\ UNCHANGED <<offers, clock, writes, overlaps, unsaved, stops>>
  BY DEF TruncateSession, Active
<1>2. /\ w \in AtWork /\ w.pc = "save" /\ w.wrote = turn[t].wrote
      /\ w.session = turn[t].session
  <2>1. turn[t] \in AtWork
    BY <1>1, TurnTypes DEF RuntimeInv
  <2> QED  BY <2>1 DEF AtWork
<1> HIDE DEF w
<1>3. /\ turn' \in [Turns -> AtWork \cup {Resting}]
      /\ \A u \in Turns : turn'[u] = IF u = t THEN w ELSE turn[u]
  BY <1>1, <1>2 DEF RuntimeInv, RuntimeTypeOK
<1>4. \A u \in Turns : Active(u)' <=> Active(u)
  BY <1>1, <1>2, <1>3 DEF Active
<1>5. RuntimeTypeOK'
  BY <1>1, <1>3 DEF RuntimeInv, RuntimeTypeOK
<1>6. PendingsExist' /\ WritesFit'
  BY <1>1, <1>2, <1>3, <1>4 DEF RuntimeInv, PendingsExist, WritesFit
<1>7. ASSUME ~overlaps PROVE Sequential'
  <2>0. Sequential
    BY <1>7 DEF RuntimeInv
  <2>1. \A u, v \in Turns : (Active(u) /\ Active(v))' => u = v
    BY <1>4, <2>0 DEF Sequential
  <2>2. \A p : Above(p) => Above(p)'
    BY <1>1 DEF Above
  <2>3. \A u \in Turns : Active(u)' /\ turn'[u].session.pending # 0 =>
                            Above(turn'[u].session.pending)
    BY <1>2, <1>3, <1>4, <2>0 DEF Sequential
  <2>4. \A u \in Turns : turn'[u].pc # "execute"
    BY <1>1, <1>2, <1>3, <2>0 DEF Sequential, Active
  <2>5. InOrder'
    BY <1>1, <2>0 DEF Sequential, InOrder
  <2> QED  BY <1>1, <2>1, <2>2, <2>3, <2>4, <2>5 DEF Sequential
<1> QED  BY <1>1, <1>5, <1>6, <1>7 DEF RuntimeInv

\* What a turn saves holds no offer its own execution has used up.
LEMMA SaveKeeps ==
    ASSUME RuntimeInv, NEW t \in Turns, SaveSession(t)
    PROVE  RuntimeInv'
<1> DEFINE s == turn[t].session
<1>1. /\ turn[t].pc = "save" /\ Active(t)
      /\ saved' \in {s, Cut}
      /\ turn' = [turn EXCEPT ![t] = Resting]
      /\ UNCHANGED <<offers, clock, writes, overlaps, unsaved, stops>>
  BY DEF SaveSession, Active
<1>2. s \in Session
  BY <1>1, TurnTypes DEF RuntimeInv
<1>3. /\ turn' \in [Turns -> AtWork \cup {Resting}]
      /\ \A u \in Turns : turn'[u] = IF u = t THEN Resting ELSE turn[u]
  BY <1>1 DEF RuntimeInv, RuntimeTypeOK
<1>4. \A u \in Turns : Active(u)' <=> u # t /\ Active(u)
  BY <1>3 DEF Active, Resting
<1>5. RuntimeTypeOK'
  BY <1>1, <1>2, <1>3 DEF RuntimeInv, RuntimeTypeOK
<1>6. PendingsExist' /\ WritesFit'
  BY <1>1, <1>3, <1>4 DEF RuntimeInv, PendingsExist, WritesFit
<1>7. ASSUME ~overlaps PROVE Sequential'
  <2>0. Sequential
    BY <1>7 DEF RuntimeInv
  <2>1. \A u \in Turns : ~Active(u)'
    BY <1>1, <1>4, <2>0 DEF Sequential
  <2>2. \A u \in Turns : turn'[u].pc # "execute"
    BY <2>1 DEF Active
  <2>3. s.pending # 0 => Above(s.pending)
    BY <1>1, <2>0 DEF Sequential
  <2>4. \A p : Above(p) => AboveOrWriting(p)'
    BY <1>1 DEF Above, AboveOrWriting
  <2>5. InOrder'
    BY <1>1, <2>0 DEF Sequential, InOrder
  <2> QED  BY <1>1, <2>1, <2>2, <2>3, <2>4, <2>5 DEF Sequential
<1> QED  BY <1>1, <1>5, <1>6, <1>7 DEF RuntimeInv

\* A turn that dies leaves its write to unsaved.
LEMMA StopKeeps ==
    ASSUME RuntimeInv, NEW t \in Turns, StopTurn(t)
    PROVE  RuntimeInv'
<1>1. /\ Active(t) /\ stops < MaxStops /\ stops' = stops + 1
      /\ turn' = [turn EXCEPT ![t] = Resting]
      /\ unsaved' = unsaved \cup ({turn[t].wrote} \ {0})
      /\ UNCHANGED <<saved, offers, clock, writes, overlaps>>
  BY DEF StopTurn, Active
<1>2. turn[t].wrote \in 0..MaxOffers
  BY <1>1, TurnTypes DEF RuntimeInv
<1>3. /\ turn' \in [Turns -> AtWork \cup {Resting}]
      /\ \A u \in Turns : turn'[u] = IF u = t THEN Resting ELSE turn[u]
  BY <1>1 DEF RuntimeInv, RuntimeTypeOK
<1>4. \A u \in Turns : Active(u)' <=> u # t /\ Active(u)
  BY <1>3 DEF Active, Resting
<1>5. RuntimeTypeOK'
  <2>1. stops' \in 0..MaxStops /\ unsaved' \subseteq 1..MaxOffers
    <3>1. stops \in 0..MaxStops /\ unsaved \subseteq 1..MaxOffers
      BY DEF RuntimeInv, RuntimeTypeOK
    <3>2. {turn[t].wrote} \ {0} \subseteq 1..MaxOffers
      BY <1>2, RuntimeAssumption
    <3>3. stops' \in 0..MaxStops
      BY <1>1, <3>1, RuntimeAssumption
    <3> QED  BY <1>1, <3>1, <3>2, <3>3
  <2> QED  BY <1>1, <1>3, <2>1 DEF RuntimeInv, RuntimeTypeOK
<1>6. PendingsExist' /\ WritesFit'
  BY <1>1, <1>3, <1>4 DEF RuntimeInv, PendingsExist, WritesFit
<1>7. ASSUME ~overlaps PROVE Sequential'
  <2>0. Sequential
    BY <1>7 DEF RuntimeInv
  <2>1. \A u \in Turns : ~Active(u)'
    BY <1>1, <1>4, <2>0 DEF Sequential
  <2>2. \A u \in Turns : turn'[u].pc # "execute"
    BY <2>1 DEF Active
  <2>3. \A u \in Turns : Active(u) => u = t
    BY <1>1, <2>0 DEF Sequential
  <2>4. ASSUME NEW p, p # 0, AboveOrWriting(p) PROVE AboveOrWriting(p)'
    <3>1. (\E u \in Turns : Active(u) /\ turn[u].wrote = p) => p \in unsaved'
      BY <1>1, <2>3, <2>4
    <3> QED  BY <1>1, <2>4, <3>1 DEF AboveOrWriting
  <2>5. InOrder'
    BY <1>1, <2>0 DEF Sequential, InOrder
  <2> QED  BY <1>1, <2>0, <2>1, <2>2, <2>4, <2>5 DEF Sequential
<1> QED  BY <1>1, <1>5, <1>6, <1>7 DEF RuntimeInv

LEMMA RestKeeps ==
    ASSUME RuntimeInv, PassTime \/ UNCHANGED turnVars
    PROVE  RuntimeInv'
<1>1. /\ clock' \in 0..MaxClock
      /\ UNCHANGED <<saved, offers, turn, writes, overlaps, unsaved, stops>>
  BY RuntimeAssumption DEF PassTime, turnVars, RuntimeInv, RuntimeTypeOK
<1>2. RuntimeTypeOK'
  BY <1>1 DEF RuntimeInv, RuntimeTypeOK
<1>3. PendingsExist' /\ WritesFit'
  BY <1>1 DEF RuntimeInv, PendingsExist, WritesFit, Active
<1>4. Sequential => Sequential'
  BY <1>1 DEF Sequential, Active, Above, AboveOrWriting, InOrder
<1> QED  BY <1>1, <1>2, <1>3, <1>4 DEF RuntimeInv

LEMMA RuntimeInitially ==
    ASSUME RuntimeInit
    PROVE  RuntimeInv
<1>1. /\ offers = <<>> /\ Len(offers) = 0 /\ offers \in Seq(Binding)
      /\ writes = <<>> /\ Len(writes) = 0 /\ writes \in Seq(Write)
      /\ DOMAIN writes = {}
  BY EmptySeq DEF RuntimeInit
<1>2. saved \in Session /\ saved.pending = 0
  BY RuntimeAssumption DEF RuntimeInit, Session
<1>3. turn \in [Turns -> AtWork \cup {Resting}] /\ \A t \in Turns : turn[t] = Resting
  BY DEF RuntimeInit
<1>4. RuntimeTypeOK
  <2>1. 0 <= MaxOffers /\ 0 <= MaxWrites /\ 0 \in 0..MaxClock /\ 0 \in 0..MaxStops
    BY RuntimeAssumption
  <2>2. clock = 0 /\ stops = 0 /\ overlaps = FALSE /\ unsaved = {}
    BY DEF RuntimeInit
  <2> QED  BY <1>1, <1>2, <1>3, <2>1, <2>2 DEF RuntimeTypeOK
<1>5. \A t \in Turns : ~Active(t) /\ turn[t].pc # "execute"
  BY <1>3 DEF Active, Resting
<1>6. PendingsExist /\ WritesFit /\ Sequential
  BY <1>1, <1>2, <1>5 DEF PendingsExist, WritesFit, Sequential, InOrder
<1> QED  BY <1>4, <1>6 DEF RuntimeInv

LEMMA RuntimeSteps ==
    ASSUME RuntimeInv, [RuntimeNext]_turnVars
    PROVE  RuntimeInv'
<1>1. CASE PassTime \/ UNCHANGED turnVars
  BY <1>1, RestKeeps
<1>2. ASSUME NEW t \in Turns, NEW r \in RequestIds \cup {Nothing}, NEW v \in Conversations,
             NEW p \in Projects \cup {Nothing}, NEW execute \in BOOLEAN,
             StartTurn(t, r, v, p, execute)
      PROVE  RuntimeInv'
  BY <1>2, StartKeeps
<1>3. ASSUME NEW t \in Turns,
             \/ RefuseOffer(t) \/ WriteOffer(t) \/ OfferFails(t)
             \/ PlanOn(t) \/ Propose(t) \/ AskUser(t) \/ EndTurn(t)
             \/ TruncateSession(t) \/ SaveSession(t) \/ StopTurn(t)
      PROVE  RuntimeInv'
  BY <1>3, QuietStepsKeep, WriteKeeps, ProposeKeeps, TruncateKeeps, SaveKeeps, StopKeeps
<1> QED  BY <1>1, <1>2, <1>3 DEF RuntimeNext

THEOREM RuntimeHolds == RuntimeSpec => []RuntimeInv
<1>1. RuntimeInit => RuntimeInv
  BY RuntimeInitially
<1>2. RuntimeInv /\ [RuntimeNext]_turnVars => RuntimeInv'
  BY RuntimeSteps
<1> QED  BY <1>1, <1>2, PTL DEF RuntimeSpec

\* The types of the session file, the offers, the turns and the writes.
THEOREM RuntimeTypeCorrect == RuntimeSpec => []RuntimeTypeOK
<1>1. RuntimeInv => RuntimeTypeOK
  BY DEF RuntimeInv
<1> QED  BY <1>1, RuntimeHolds, PTL

\* For any number of turns, offers, conversations and projects: what is executed was
\* offered for that conversation and project and has not expired; while turns follow one
\* another it is executed once, and after nothing newer, unless its turn died unsaved.
THEOREM OffersWrittenOnce == RuntimeSpec => []WrittenAsOffered
<1>1. RuntimeInv => WrittenAsOffered
  BY DEF RuntimeInv, WrittenAsOffered, WritesFit, Sequential, InOrder
<1> QED  BY <1>1, RuntimeHolds, PTL
=============================================================================
