--------------------------- MODULE IncidentLedger ---------------------------
(***************************************************************************)
(* What signal processing promises, without queue, cache or handlers: each *)
(* signal ends up counted on one open incident of its own component, or is *)
(* given up for good.  A signal that was counted is never counted again    *)
(* nor moved, and only a counted signal is done.                           *)
(***************************************************************************)
CONSTANTS Signals, Incidents, ComponentOf, IncidentComponent(_), None

VARIABLES
    opened,    \* the incidents opened so far
    assigned,  \* the incident a signal is counted on
    outcome    \* "pending", "done" or "lost"

vars == <<opened, assigned, outcome>>

Init ==
    /\ opened = {}
    /\ assigned = [s \in Signals |-> None]
    /\ outcome = [s \in Signals |-> "pending"]

Pending(s) == outcome[s] = "pending"

\* A pending signal is counted on an open incident of its component, which it
\* may open with the same step.
Count(s, id) ==
    /\ Pending(s)
    /\ assigned[s] = None
    /\ IncidentComponent(id) = ComponentOf[s]
    /\ opened' \in {opened, opened \cup {id}}
    /\ id \in opened'
    /\ assigned' = [assigned EXCEPT ![s] = id]
    /\ UNCHANGED outcome

\* A signal counted before a retry opens a further incident, and stays where
\* it is counted.
Reopen(s, id) ==
    /\ Pending(s)
    /\ assigned[s] # None
    /\ id \notin opened
    /\ IncidentComponent(id) = ComponentOf[s]
    /\ opened' = opened \cup {id}
    /\ UNCHANGED <<assigned, outcome>>

Finish(s) ==
    /\ Pending(s)
    /\ assigned[s] # None
    /\ outcome' = [outcome EXCEPT ![s] = "done"]
    /\ UNCHANGED <<opened, assigned>>

\* Signals given up together: one out of attempts, or several in a crash.
GiveUp(S) ==
    /\ \A s \in S : Pending(s)
    /\ outcome' = [s \in Signals |-> IF s \in S THEN "lost" ELSE outcome[s]]
    /\ UNCHANGED <<opened, assigned>>

Next ==
    \/ \E s \in Signals, id \in Incidents : Count(s, id) \/ Reopen(s, id)
    \/ \E s \in Signals : Finish(s)
    \/ \E S \in SUBSET Signals : GiveUp(S)

Spec == Init /\ [][Next]_vars
=============================================================================
