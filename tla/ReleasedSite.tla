----------------------------- MODULE ReleasedSite -----------------------------
(***************************************************************************)
(* What the material test sync promises an employee: the release a plan    *)
(* shows is brought to the test Site once the employee asks for it, alone, *)
(* over older or missing records only, and is called done when the Site    *)
(* was seen to hold it exactly; a release that is given up may be asked    *)
(* for again, and what was on its way then may still come.  Once the       *)
(* workbench has died, or such a write has come behind the last look at    *)
(* the Site, nobody keeps releases apart: what is left is that the Site    *)
(* changes to releases somebody asked for.                                 *)
(***************************************************************************)
EXTENDS Integers

CONSTANTS
    Requests,   \* what employees ask under
    Releases,   \* a catalog revision and the employee it is shown to
    Records, Support, Items, Catalog, Before, Absent, Foreign, Unmanaged,
    None, Torn  \* as in MaterialSync

VARIABLES
    shown,      \* the release a request shows, and to whom
    state,      \* "none", "open", "asked" or "done", by request
    work,       \* the requests whose release is being brought
    site,       \* the records of the Site
    held,       \* the requests whose release the Site was seen to hold
    asked,      \* the releases somebody asked for
    loose,      \* the writes of a release that may come later
    alone       \* the workbench has not died, nor a write come unseen

vars == <<shown, state, work, site, held, asked, loose, alone>>

Init ==
    /\ shown = [q \in Requests |-> None]
    /\ state = [q \in Requests |-> "none"]
    /\ work = {}
    /\ site \in Before
    /\ held = [q \in Requests |-> None]
    /\ asked = {}
    /\ loose = {}
    /\ alone = TRUE

\* The Site holds release v: its items, and no other that could be of a release.
Holds(v) ==
    /\ \A i \in Catalog[v] : site[i] = v
    /\ \A i \in Items \ Catalog[v] : site[i] \in {Absent, Unmanaged}

Show(q, s) ==
    /\ state[q] = "none"
    /\ shown' = [shown EXCEPT ![q] = s]
    /\ state' = [state EXCEPT ![q] = "open"]
    /\ UNCHANGED <<work, site, held, asked, loose, alone>>

Ask(q) ==
    /\ state[q] = "open"
    /\ state' = [state EXCEPT ![q] = "asked"]
    /\ asked' = asked \cup {shown[q].revision}
    /\ UNCHANGED <<shown, work, site, held, loose, alone>>

Begin(q) ==
    /\ state[q] = "asked"
    /\ work = {}
    /\ work' = {q}
    /\ UNCHANGED <<shown, state, site, held, asked, loose, alone>>

\* A missing or older record of the release becomes the release's.
Bring(q, r) ==
    LET v == shown[q].revision IN
    /\ work = {q}
    /\ r \in Support \cup Catalog[v]
    /\ site[r] \notin {Foreign, Unmanaged}
    /\ site[r] < v
    /\ site' = [site EXCEPT ![r] = v]
    /\ UNCHANGED <<shown, state, work, held, asked, loose, alone>>

\* The write of such a record is not done yet when the work on it is given up: a new
\* record will be made only where there is none by then.
Lose(q, r) ==
    LET v == shown[q].revision IN
    /\ work = {q}
    /\ r \in Support \cup Catalog[v]
    /\ site[r] \notin {Foreign, Unmanaged}
    /\ site[r] < v
    /\ loose' = loose \cup {[record |-> r, revision |-> v, creates |-> site[r] = Absent]}
    /\ UNCHANGED <<shown, state, work, site, held, asked, alone>>

Arrive(m) ==
    /\ m \in loose
    /\ m.creates => site[m.record] = Absent
    /\ loose' = loose \ {m}
    /\ site' = [site EXCEPT ![m.record] = m.revision]
    /\ UNCHANGED <<shown, state, work, held, asked, alone>>

Hold(q) ==
    /\ work = {q}
    /\ held # Torn
    /\ held[q] = None
    /\ Holds(shown[q].revision)
    /\ held' = [held EXCEPT ![q] = shown[q]]
    /\ UNCHANGED <<shown, state, work, site, asked, loose, alone>>

\* The record of what was held is lost, with the work on a release.
Forget ==
    /\ work # {}
    /\ held' = Torn
    /\ UNCHANGED <<shown, state, work, site, asked, loose, alone>>

Succeed(q) ==
    /\ work = {q}
    /\ held # Torn
    /\ held[q] = shown[q]
    /\ work' = {}
    /\ state' = [state EXCEPT ![q] = "done"]
    /\ UNCHANGED <<shown, site, held, asked, loose, alone>>

GiveUp(q) ==
    /\ work = {q}
    /\ work' = {}
    /\ state' = [state EXCEPT ![q] = "open"]
    /\ UNCHANGED <<shown, site, held, asked, loose, alone>>

\* The workbench dies or a write comes unseen, or that has happened before.
Unattended ==
    /\ alone' = FALSE
    /\ \/ site' = site /\ asked \subseteq asked'
       \/ /\ asked' = asked
          /\ \A r \in Records : site'[r] # site[r] =>
                site'[r] \in asked /\ site[r] \notin {Foreign, Unmanaged}

Attended ==
    \/ \E q \in Requests :
        \/ \E s \in Releases : Show(q, s)
        \/ Ask(q) \/ Begin(q) \/ Hold(q) \/ Succeed(q) \/ GiveUp(q)
        \/ \E r \in Records : Bring(q, r) \/ Lose(q, r)
    \/ \E m \in loose : Arrive(m)
    \/ Forget

Next == (alone /\ Attended) \/ Unattended

Spec == Init /\ [][Next]_vars
=============================================================================
