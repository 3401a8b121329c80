----------------------------- MODULE IncidentPage -----------------------------
(***************************************************************************)
(* The page of one incident, IncidentDetail.tsx: it loads the incident of  *)
(* its route, moves it to the next status, submits its RCA, and loads it   *)
(* again after each.  The server is the abstract one of IncidentRecord,    *)
(* which WorkItemLifecycle implements; other users change it meanwhile.    *)
(*                                                                         *)
(* A handler keeps the id it was called with; going to another incident    *)
(* by the browser's history neither remounts the component nor cancels     *)
(* what is under way.                                                      *)
(***************************************************************************)
EXTENDS Integers, Sequences

CONSTANTS
    Incidents,
    First,      \* the incident the page is opened on
    NoItem,     \* workItem is null
    MaxMishaps  \* bound: a second load at the opening, jumps to another incident, requests
                \* that fail on their way and changes by other users, together

Stages == <<"OPEN", "INVESTIGATING", "RESOLVED", "CLOSED">>
Closed == Len(Stages)

\* What the page may show.
Views == [id : Incidents, stage : 1..Closed, rca : BOOLEAN, buttons : BOOLEAN]

ASSUME IncidentsAssumption == First \in Incidents /\ NoItem \notin Views
ASSUME MaxMishapsAssumption == MaxMishaps \in Nat

\* The runs of loadData, by who started them.
Loads == {"open", "again", "jump", "transition", "rca"}

VARIABLES
    stage, explained,  \* the server: see IncidentRecord
    route,          \* the id of the route
    workItem,       \* what is shown, or NoItem
    loads,          \* where each run of loadData is, and what it read
    patch,          \* the PATCH under way
    post,           \* the POST under way
    transitioning, rcaSubmitting, showRcaForm, rcaSuccess,
    failed,         \* history: the requests that failed, by who made them
    overtaken,      \* history: what was shown was not the last thing asked for
    acked,          \* history: the status the page was told, per incident
    jumped,         \* history: the route has changed
    mishaps

serverVars == <<stage, explained>>
buttonVars == <<transitioning, rcaSubmitting, showRcaForm, rcaSuccess>>
historyVars == <<failed, overtaken, acked, jumped>>
vars == <<serverVars, route, workItem, loads, patch, post, buttonVars, historyVars, mishaps>>

Server == INSTANCE IncidentRecord WITH Items <- Incidents

\* Nothing is read yet.
Load(at, id) == [at |-> at, id |-> id, stage |-> 0, rca |-> FALSE, late |-> FALSE]
NoLoad == Load("none", First)
NoCall == [at |-> "none", id |-> First]

\* loadData is called for an incident: GET /api/work-items/:id, and its signals.
Started(id) == Load("item", id)

\* The page loads its incident; the StrictMode of a development build does so twice.
Open ==
    \E opening \in {{"open"}, {"open", "again"}} :
        /\ loads = [k \in Loads |-> IF k \in opening THEN Started(First) ELSE NoLoad]
        /\ mishaps = IF "again" \in opening THEN 1 ELSE 0
        /\ mishaps <= MaxMishaps

Init ==
    /\ stage = [i \in Incidents |-> 1]
    /\ explained = [i \in Incidents |-> FALSE]
    /\ route = First
    /\ workItem = NoItem
    /\ Open
    /\ patch = NoCall /\ post = NoCall
    /\ transitioning = FALSE /\ rcaSubmitting = FALSE
    /\ showRcaForm = FALSE /\ rcaSuccess = FALSE
    /\ failed = {} /\ overtaken = FALSE
    /\ acked = [i \in Incidents |-> 0]
    /\ jumped = FALSE

Mishap == mishaps < MaxMishaps /\ mishaps' = mishaps + 1

-----------------------------------------------------------------------------
(* loadData                                                                *)

\* GET /api/work-items/:id reads the work item, and then its RCA.
\* mutant: they are read the other way round
ReadNext_Swapped(load) ==
    IF load.at = "item" THEN [load EXCEPT !.at = "rca", !.rca = explained[load.id]]
                        ELSE [load EXCEPT !.at = "reply", !.stage = stage[load.id]]
ReadNext(load) ==
    IF load.at = "item" THEN [load EXCEPT !.at = "rca", !.stage = stage[load.id]]
                        ELSE [load EXCEPT !.at = "reply", !.rca = explained[load.id]]

ServerReads(k) ==
    /\ loads[k].at \in {"item", "rca"}
    /\ loads' = [loads EXCEPT ![k] = ReadNext(@)]
    /\ UNCHANGED <<serverVars, route, workItem, patch, post, buttonVars, historyVars,
                   mishaps>>

\* A load that something was shown before is late.
Late(others_) ==
    [k \in Loads |-> IF others_[k].at = "none" THEN NoLoad
                                              ELSE [others_[k] EXCEPT !.late = TRUE]]

\* setWorkItem
Show(id, s, rca, buttons, late) ==
    /\ workItem' = [id |-> id, stage |-> s, rca |-> rca, buttons |-> buttons]
    /\ overtaken' = (overtaken \/ late \/ id # route)

\* mutant: only a reload that worked enables the buttons again
Settle_OnSuccess(k, ok) ==
    /\ transitioning' = (transitioning /\ ~(k = "transition" /\ ok))
    /\ rcaSubmitting' = (rcaSubmitting /\ ~(k = "rca" /\ ok))
\* The finally of the handler that awaited this load.
Settle(k, ok) ==
    /\ transitioning' = (transitioning /\ k # "transition")
    /\ rcaSubmitting' = (rcaSubmitting /\ k # "rca")

\* The answer of the server comes with the transitions the status allows.
Loaded(k) ==
    /\ loads[k].at = "reply"
    /\ Show(loads[k].id, loads[k].stage, loads[k].rca, loads[k].stage < Closed, loads[k].late)
    /\ loads' = Late([loads EXCEPT ![k] = NoLoad])
    /\ Settle(k, TRUE)
    /\ UNCHANGED <<serverVars, route, patch, post, showRcaForm, rcaSuccess, failed, acked,
                   jumped, mishaps>>

\* loadData shows the error and returns: what was shown stays.
LoadFails(k) ==
    /\ loads[k].at # "none"
    /\ Mishap
    /\ loads' = [loads EXCEPT ![k] = NoLoad]
    /\ failed' = failed \cup {k}
    /\ Settle(k, FALSE)
    /\ UNCHANGED <<serverVars, route, workItem, patch, post, showRcaForm, rcaSuccess,
                   overtaken, acked, jumped>>

-----------------------------------------------------------------------------
(* handleTransition                                                        *)

\* "Move to <the next status>" is there, and enabled.
CanMove == workItem # NoItem /\ workItem.buttons /\ ~transitioning

\* A click on it: the status comes from what is shown, the id from the route.
ClickTransition ==
    /\ CanMove
    /\ transitioning' = TRUE
    /\ patch' = [at |-> "sent", id |-> route, to |-> workItem.stage + 1]
    /\ UNCHANGED <<serverVars, route, workItem, loads, post, rcaSubmitting, showRcaForm,
                   rcaSuccess, historyVars, mishaps>>

\* The server moves the incident, or refuses.
ServerTransitions ==
    /\ patch.at = "sent"
    /\ \/ /\ stage[patch.id] + 1 = patch.to
          /\ Server!Advance(patch.id)
          /\ patch' = [patch EXCEPT !.at = "moved"]
       \/ /\ patch' = [patch EXCEPT !.at = "refused"]
          /\ UNCHANGED serverVars
    /\ UNCHANGED <<route, workItem, loads, post, buttonVars, historyVars, mishaps>>

\* mutant: the answer is shown and that is all
Reload_Not(k, id) == loads' = Late(loads) /\ transitioning' = FALSE
Reload(k, id) == loads' = [Late(loads) EXCEPT ![k] = Started(id)] /\ UNCHANGED transitioning

\* The work item of the answer has neither an RCA nor allowed transitions; the reload
\* brings both.
Transitioned ==
    /\ patch.at = "moved"
    /\ patch' = NoCall
    /\ Show(patch.id, patch.to, FALSE, FALSE, FALSE)
    /\ acked' = [acked EXCEPT ![patch.id] = patch.to]
    /\ Reload("transition", patch.id)
    /\ UNCHANGED <<serverVars, route, post, rcaSubmitting, showRcaForm, rcaSuccess, failed,
                   jumped, mishaps>>

\* Refused, or the request or its answer was lost.
TransitionFails ==
    /\ \/ patch.at = "refused" /\ UNCHANGED <<mishaps, failed>>
       \/ /\ patch.at \in {"sent", "moved"}
          /\ Mishap
          /\ failed' = failed \cup {"patch"}
    /\ patch' = NoCall
    /\ transitioning' = FALSE
    /\ UNCHANGED <<serverVars, route, workItem, loads, post, rcaSubmitting, showRcaForm,
                   rcaSuccess, overtaken, acked, jumped>>

-----------------------------------------------------------------------------
(* handleRcaSubmit                                                         *)

\* "Submit RCA" or "Update RCA" opens or closes the form, "Cancel" closes it; a closed
\* incident lacks the first button, but a form that is open stays.
ToggleForm ==
    /\ workItem # NoItem
    /\ workItem.stage < Closed \/ showRcaForm
    /\ showRcaForm' = ~showRcaForm
    /\ UNCHANGED <<serverVars, route, workItem, loads, patch, post, transitioning,
                   rcaSubmitting, rcaSuccess, historyVars, mishaps>>

\* The form is shown, and its button enabled.
CanSubmit == showRcaForm /\ ~rcaSubmitting

SubmitRca ==
    /\ CanSubmit
    /\ rcaSubmitting' = TRUE
    /\ post' = [at |-> "sent", id |-> route]
    /\ UNCHANGED <<serverVars, route, workItem, loads, patch, transitioning, showRcaForm,
                   rcaSuccess, historyVars, mishaps>>

\* request throws unless the status code is a success.
Outcome(ok) == IF ok THEN "stored" ELSE "refused"

ServerStoresRca ==
    /\ post.at = "sent"
    /\ \/ Server!Explain(post.id) /\ post' = [post EXCEPT !.at = Outcome(TRUE)]
       \/ UNCHANGED serverVars /\ post' = [post EXCEPT !.at = Outcome(FALSE)]
    /\ UNCHANGED <<route, workItem, loads, patch, buttonVars, historyVars, mishaps>>

Submitted ==
    /\ post.at = "stored"
    /\ post' = NoCall
    /\ rcaSuccess' = TRUE
    /\ showRcaForm' = FALSE
    /\ loads' = [loads EXCEPT !["rca"] = Started(post.id)]
    /\ UNCHANGED <<serverVars, route, workItem, patch, transitioning, rcaSubmitting,
                   historyVars, mishaps>>

SubmissionFails ==
    /\ \/ post.at = "refused" /\ UNCHANGED <<mishaps, failed>>
       \/ /\ post.at \in {"sent", "stored"}
          /\ Mishap
          /\ failed' = failed \cup {"post"}
    /\ post' = NoCall
    /\ rcaSubmitting' = FALSE
    /\ UNCHANGED <<serverVars, route, workItem, loads, patch, transitioning, showRcaForm,
                   rcaSuccess, overtaken, acked, jumped>>

-----------------------------------------------------------------------------
\* The route changes and with it loadData; nothing else is reset.
Jump ==
    /\ loads["jump"].at = "none"
    /\ Mishap
    /\ jumped' = TRUE
    /\ route' \in Incidents \ {route}
    /\ loads' = [loads EXCEPT !["jump"] = Started(route')]
    /\ UNCHANGED <<serverVars, workItem, patch, post, buttonVars, failed, overtaken, acked>>

OthersAct ==
    /\ Mishap
    /\ Server!Next
    /\ UNCHANGED <<route, workItem, loads, patch, post, buttonVars, historyVars>>

PatchStep ==
    \/ ServerTransitions \/ Transitioned
    \/ (patch.at = "refused" /\ TransitionFails)
PostStep ==
    \/ ServerStoresRca \/ Submitted
    \/ (post.at = "refused" /\ SubmissionFails)
LoadStep(k) == ServerReads(k) \/ Loaded(k)

Next ==
    \/ ClickTransition \/ ServerTransitions \/ Transitioned \/ TransitionFails
    \/ ToggleForm \/ SubmitRca \/ ServerStoresRca \/ Submitted \/ SubmissionFails
    \/ \E k \in Loads : LoadStep(k) \/ LoadFails(k)
    \/ Jump \/ OthersAct

Spec == Init /\ [][Next]_vars

\* A call under way is answered; nobody has to click.
FairSpec ==
    /\ Spec
    /\ \A k \in Loads : WF_vars(LoadStep(k))
    /\ WF_vars(PatchStep)
    /\ WF_vars(PostStep)

-----------------------------------------------------------------------------
(* Properties.                                                             *)

TypeOK ==
    /\ stage \in [Incidents -> 1..Closed] /\ explained \in [Incidents -> BOOLEAN]
    /\ route \in Incidents
    /\ workItem \in {NoItem} \cup Views
    /\ loads \in [Loads -> [at : {"none", "item", "rca", "reply"}, id : Incidents,
                            stage : 0..Closed, rca : BOOLEAN, late : BOOLEAN]]
    /\ patch.at \in {"none", "sent", "moved", "refused"}
    /\ post.at \in {"none", "sent", "stored", "refused"}
    /\ failed \subseteq Loads \cup {"patch", "post"}
    \* the buttons are disabled while, and only while, their call is under way
    /\ transitioning <=> (patch.at # "none" \/ loads["transition"].at # "none")
    /\ rcaSubmitting <=> (post.at # "none" \/ loads["rca"].at # "none")

\* What is shown was true when the server read it: not one status further, no RCA
\* that is not stored, and no success of a submission that was refused.  The two reads of
\* a GET are no snapshot, but in their order a closed incident is never shown without
\* its RCA, except between the answer of the PATCH and the reload.
PageTellsTruth ==
    /\ workItem # NoItem =>
         /\ workItem.stage <= stage[workItem.id]
         /\ workItem.rca => explained[workItem.id]
         /\ workItem.stage = Closed =>
              workItem.rca \/ loads["transition"].at # "none" \/ failed # {} \/ overtaken
    /\ rcaSuccess => \E i \in Incidents : explained[i] /\ (~jumped => i = route)

\* A page at rest shows the incident of its route, at least as far as the page was told,
\* with its buttons; unless a request failed, or two loads or a jump overtook each other.
Quiet ==
    /\ \A k \in Loads : loads[k].at = "none"
    /\ patch.at = "none" /\ post.at = "none"
QuietPageFresh ==
    Quiet /\ failed = {} /\ ~overtaken =>
        /\ workItem # NoItem
        /\ workItem.id = route
        /\ workItem.stage >= acked[route]
        /\ workItem.buttons <=> workItem.stage < Closed
        /\ rcaSuccess /\ ~jumped => workItem.rca

\* After a click the page offers the next move again, or shows a closed incident: refused,
\* lost or overtaken, only the loss of a reload leaves it without, since the answer of
\* the PATCH, which is what it shows then, allows no transition.  The RCA button comes
\* back whatever is lost.
ButtonsComeBack ==
    /\ transitioning ~> /\ ~transitioning
                        /\ workItem # NoItem
                        /\ workItem.buttons \/ workItem.stage = Closed \/ "transition" \in failed
    /\ rcaSubmitting ~> ~rcaSubmitting
=============================================================================
