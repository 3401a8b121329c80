------------------------- MODULE IncidentPageProofs -------------------------
(***************************************************************************)
(* Theorems about IncidentPage, for every set of incidents and any number  *)
(* of jumps, lost requests and acts of other users.                        *)
(***************************************************************************)
EXTENDS IncidentPage, TLAPS

Calls == {"sent", "moved", "refused"}

LoadStates == [at : {"none", "item", "rca", "reply"}, id : Incidents,
               stage : 0..4, rca : BOOLEAN, late : BOOLEAN]

Types ==
    /\ stage \in [Incidents -> 1..4] /\ explained \in [Incidents -> BOOLEAN]
    /\ route \in Incidents
    /\ workItem \in {NoItem} \cup
         [id : Incidents, stage : 1..4, rca : BOOLEAN, buttons : BOOLEAN]
    /\ loads \in [Loads -> LoadStates]
    /\ patch \in {NoCall} \cup [at : Calls, id : Incidents, to : 1..4]
    /\ post \in [at : {"none", "sent", "stored", "refused"}, id : Incidents]
    /\ transitioning \in BOOLEAN /\ rcaSubmitting \in BOOLEAN
    /\ failed \subseteq Loads \cup {"patch", "post"}
    /\ workItem # NoItem => (workItem.buttons => workItem.stage < 4)

\* What a load has read the server still has, and an item it read as closed has an RCA.
Honest(load) ==
    /\ load.at \in {"rca", "reply"} =>
         load.stage \in 1..4 /\ load.stage <= stage[load.id]
    /\ load.at = "reply" =>
         /\ load.rca => explained[load.id]
         /\ load.stage = 4 => load.rca

\* The server never closes an incident without an RCA, and what it answered it still has.
Answers ==
    /\ \A i \in Incidents : stage[i] = 4 => explained[i]
    /\ \A k \in Loads : Honest(loads[k])
    /\ patch.at = "moved" => patch.to <= stage[patch.id]
    /\ post.at = "stored" => explained[post.id]
    /\ ~jumped => route = First /\ post.id = First

\* A button is disabled for its request, and then for the reload, never for both.
Buttons ==
    /\ transitioning <=> (patch.at # "none" \/ loads["transition"].at # "none")
    /\ rcaSubmitting <=> (post.at # "none" \/ loads["rca"].at # "none")
    /\ patch.at = "none" \/ loads["transition"].at = "none"
    /\ post.at = "none" \/ loads["rca"].at = "none"

PageInv == Types /\ Answers /\ Buttons /\ PageTellsTruth

LEMMA ClosedIs4 == Closed = 4
  BY DEF Closed, Stages

LEMMA InitPageInv == Init => PageInv
  <1> SUFFICES ASSUME Init PROVE PageInv
    OBVIOUS
  <1>1. First \in Incidents
    BY IncidentsAssumption DEF IncidentsAssumption
  <1>2. PICK opening \in {{"open"}, {"open", "again"}} :
           loads = [k \in Loads |-> IF k \in opening THEN Started(First) ELSE NoLoad]
    BY DEF Init, Open
  <1>3. Types
    <2>1. 0 \in 0..4
      BY SMT
    <2>2. Started(First) \in LoadStates
      BY <1>1, <2>1 DEF Started, Load, LoadStates
    <2>3. NoLoad \in LoadStates
      BY <1>1, <2>1 DEF NoLoad, Load, LoadStates
    <2>4. NoCall \in [at : {"none", "sent", "stored", "refused"}, id : Incidents]
      BY <1>1 DEF NoCall
    <2>5. QED
      <3>1. 1 \in 1..4
        BY SMT
      <3>2. stage \in [Incidents -> 1..4]
        BY <3>1 DEF Init
      <3>3. explained \in [Incidents -> BOOLEAN]
        BY DEF Init
      <3>4. route \in Incidents /\ workItem = NoItem /\ patch = NoCall /\ post = NoCall
        BY <1>1 DEF Init
      <3>5. transitioning = FALSE /\ rcaSubmitting = FALSE
        BY DEF Init
      <3>6. QED
        BY <1>2, <2>2, <2>3, <2>4, <3>2, <3>3, <3>4, <3>5 DEF Init, Types
  <1>4. \A k \in Loads : /\ loads[k].at \in {"none", "item"}
                         /\ k \notin {"open", "again"} => loads[k].at = "none"
    <2>1. \A k \in Loads : loads[k] \in {Started(First), NoLoad}
                           /\ (k \notin {"open", "again"} => loads[k] = NoLoad)
      BY <1>2
    <2>2. Started(First).at = "item" /\ NoLoad.at = "none"
      BY DEF Started, NoLoad, Load
    <2>3. QED
      BY <2>1, <2>2
  <1>5. Answers
    <2>1. /\ \A i \in Incidents : stage[i] = 1
          /\ route = First /\ patch = NoCall /\ post = NoCall
      BY DEF Init
    <2>2. QED
      BY <1>4, <2>1, SMT DEF Answers, Honest, NoCall
  <1>6. Buttons
    <2>1. transitioning = FALSE /\ rcaSubmitting = FALSE /\ patch = NoCall /\ post = NoCall
      BY DEF Init
    <2>2. loads["transition"].at = "none" /\ loads["rca"].at = "none"
      BY <1>4 DEF Loads
    <2>3. QED
      BY <2>1, <2>2 DEF Buttons, NoCall
  <1>7. PageTellsTruth
    BY DEF Init, PageTellsTruth
  <1>8. QED
    BY <1>3, <1>5, <1>6, <1>7 DEF PageInv

\* The server only moves on.
LEMMA ServerFacts ==
    ASSUME Types, Answers, NEW i \in Incidents, Server!Advance(i) \/ Server!Explain(i)
    PROVE  /\ stage' \in [Incidents -> 1..4] /\ explained' \in [Incidents -> BOOLEAN]
           /\ \A j \in Incidents : stage[j] <= stage'[j] /\ (explained[j] => explained'[j])
           /\ \A j \in Incidents : stage'[j] = 4 => explained'[j]
           /\ Server!Advance(i) => stage'[i] = stage[i] + 1
           /\ Server!Explain(i) => explained'[i]
  <1>1. Len(Stages) = 4
    BY DEF Stages
  <1>2. CASE Server!Advance(i)
    <2>1. /\ stage[i] < 4 /\ (stage[i] + 1 = 4 => explained[i])
          /\ stage' = [stage EXCEPT ![i] = @ + 1] /\ explained' = explained
      BY <1>1, <1>2 DEF Server!Advance
    <2>2. \A j \in Incidents : stage'[j] = IF j = i THEN stage[i] + 1 ELSE stage[j]
      BY <2>1 DEF Types
    <2>3. stage[i] \in 1..4
      BY DEF Types
    <2>4. stage' \in [Incidents -> 1..4]
      BY <2>1, <2>3, SMT DEF Types
    <2>5. \A j \in Incidents : stage[j] <= stage'[j]
      BY <2>2, <2>3, SMT DEF Types
    <2>6. ~Server!Explain(i)
      <3>1. stage'[i] # stage[i]
        BY <2>2, <2>3, SMT
      <3>2. QED
        BY <3>1 DEF Server!Explain
    <2>7. QED
      BY <2>1, <2>2, <2>4, <2>5, <2>6 DEF Types, Answers
  <1>3. CASE Server!Explain(i)
    <2>1. stage' = stage /\ explained' = [explained EXCEPT ![i] = TRUE]
      BY <1>3 DEF Server!Explain
    <2>2. \A j \in Incidents : stage[j] <= stage'[j]
      BY <2>1, SMT DEF Types
    <2>3. ~Server!Advance(i)
      <3>1. stage[i] + 1 # stage[i]
        BY SMT DEF Types
      <3>2. QED
        BY <2>1, <3>1 DEF Server!Advance, Types
    <2>4. QED
      BY <2>1, <2>2, <2>3 DEF Types, Answers
  <1>4. QED
    BY <1>2, <1>3

\* A step of the server alone keeps what the page knows true.
LEMMA ServerOnly ==
    ASSUME PageInv,
           stage' \in [Incidents -> 1..4], explained' \in [Incidents -> BOOLEAN],
           \A j \in Incidents : stage[j] <= stage'[j] /\ (explained[j] => explained'[j]),
           \A j \in Incidents : stage'[j] = 4 => explained'[j],
           UNCHANGED <<route, workItem, loads, buttonVars, historyVars>>,
           patch' = patch \/ (/\ patch.at # "none" /\ patch'.at # "none"
                              /\ patch' \in [at : Calls, id : Incidents, to : 1..4]
                              /\ patch'.at = "moved" => patch'.to <= stage'[patch'.id]),
           post' = post \/ (/\ post.at # "none" /\ post'.at # "none" /\ post'.id = post.id
                            /\ post' \in [at : {"sent", "stored", "refused"}, id : Incidents]
                            /\ post'.at = "stored" => explained'[post'.id])
    PROVE  PageInv'
  <1>1. /\ route' = route /\ workItem' = workItem /\ loads' = loads
        /\ transitioning' = transitioning /\ rcaSubmitting' = rcaSubmitting
        /\ rcaSuccess' = rcaSuccess /\ failed' = failed /\ overtaken' = overtaken
        /\ jumped' = jumped
    BY DEF buttonVars, historyVars
  <1>2. Types'
    BY <1>1, SMT DEF PageInv, Types
  <1>3. \A n, m, l \in 0..4 : n <= m /\ m <= l => n <= l
    BY SMT
  <1>4. \A j \in Incidents : stage[j] \in 0..4 /\ stage'[j] \in 0..4
    BY SMT DEF PageInv, Types
  <1>5. \A k \in Loads : loads[k].id \in Incidents /\ loads[k].stage \in 0..4
    BY DEF PageInv, Types, LoadStates
  <1>6. patch.at = "moved" => patch.id \in Incidents /\ patch.to \in 0..4
    BY SMT DEF PageInv, Types, NoCall
  <1>7. post.id \in Incidents
    BY DEF PageInv, Types
  <1>8. Answers'
    <2>1. \A k \in Loads : loads[k].at \in {"rca", "reply"} => loads[k].stage <= stage'[loads[k].id]
      BY <1>3, <1>4, <1>5 DEF PageInv, Answers, Honest
    <2>2. patch'.at = "moved" => patch'.to <= stage'[patch'.id]
      BY <1>3, <1>4, <1>6 DEF PageInv, Answers
    <2>3. post'.at = "stored" => explained'[post'.id]
      BY <1>7 DEF PageInv, Answers
    <2>4. QED
      BY <1>1, <1>5, <2>1, <2>2, <2>3 DEF PageInv, Answers, Honest
  <1>9. Buttons'
    BY <1>1 DEF PageInv, Buttons
  <1>10. PageTellsTruth'
    <2>1. workItem # NoItem => workItem.id \in Incidents /\ workItem.stage \in 0..4
      BY SMT DEF PageInv, Types
    <2>2. workItem # NoItem => workItem.stage <= stage'[workItem.id]
      BY <1>3, <1>4, <2>1 DEF PageInv, PageTellsTruth
    <2>3. QED
      BY <1>1, <2>1, <2>2 DEF PageInv, PageTellsTruth
  <1>11. QED
    BY <1>2, <1>8, <1>9, <1>10 DEF PageInv

\* A step of the calls alone shows nothing new.
LEMMA CallsOnly ==
    ASSUME PageInv, Buttons',
           UNCHANGED <<stage, explained, route, workItem, loads, rcaSuccess, overtaken, jumped>>,
           failed \subseteq failed', failed' \subseteq Loads \cup {"patch", "post"},
           transitioning' \in BOOLEAN, rcaSubmitting' \in BOOLEAN,
           patch' = patch \/ (/\ patch' \in {NoCall} \cup [at : Calls, id : Incidents, to : 1..4]
                              /\ patch'.at # "moved"),
           post' = post \/ (/\ post' \in [at : {"none", "sent", "stored", "refused"},
                                         id : Incidents]
                            /\ post'.at # "stored"
                            /\ ~jumped => post'.id = First)
    PROVE  PageInv'
  <1>1. Types'
    BY DEF PageInv, Types
  <1>2. Answers'
    BY DEF PageInv, Answers, Honest
  <1>3. PageTellsTruth'
    BY DEF PageInv, PageTellsTruth
  <1>4. QED
    BY <1>1, <1>2, <1>3 DEF PageInv

LEMMA NoCallFacts ==
    /\ NoCall.at = "none" /\ NoCall.id = First
    /\ NoCall \in [at : {"none", "sent", "stored", "refused"}, id : Incidents]
  BY IncidentsAssumption DEF NoCall, IncidentsAssumption

LEMMA ClickStep == PageInv /\ ClickTransition => PageInv'
  <1> SUFFICES ASSUME PageInv, ClickTransition PROVE PageInv'
    OBVIOUS
  <1>1. route \in Incidents
    BY DEF PageInv, Types
  <1>2. workItem.stage + 1 \in 1..4
    <2>1. workItem \in [id : Incidents, stage : 1..4, rca : BOOLEAN, buttons : BOOLEAN]
      BY DEF ClickTransition, CanMove, PageInv, Types
    <2>2. workItem.stage \in 1..4 /\ workItem.stage < 4
      BY <2>1 DEF ClickTransition, CanMove, PageInv, Types
    <2>3. QED
      BY <2>2, SMT
  <1>3. patch' \in [at : Calls, id : Incidents, to : 1..4] /\ patch'.at = "sent"
    BY <1>1, <1>2 DEF ClickTransition, Calls
  <1>4. Buttons'
    BY <1>3 DEF ClickTransition, CanMove, PageInv, Buttons
  <1>5. QED
    BY <1>3, <1>4, CallsOnly
       DEF ClickTransition, PageInv, Types, historyVars, serverVars

LEMMA TransitionFailsStep == PageInv /\ TransitionFails => PageInv'
  <1> SUFFICES ASSUME PageInv, TransitionFails PROVE PageInv'
    OBVIOUS
  <1>1. patch.at # "none"
    BY DEF TransitionFails
  <1>2. Buttons'
    BY <1>1, NoCallFacts DEF TransitionFails, PageInv, Buttons
  <1>3. failed \subseteq failed' /\ failed' \subseteq Loads \cup {"patch", "post"}
    BY DEF TransitionFails, PageInv, Types
  <1>4. /\ UNCHANGED <<stage, explained, route, workItem, loads, rcaSuccess, overtaken, jumped>>
        /\ transitioning' \in BOOLEAN /\ rcaSubmitting' \in BOOLEAN
        /\ patch' = patch \/ patch' = NoCall
        /\ post' = post \/ post' = NoCall
    BY DEF TransitionFails, PageInv, Types, serverVars
  <1>5. QED
    BY <1>2, <1>3, <1>4, NoCallFacts, CallsOnly

LEMMA ToggleStep == PageInv /\ ToggleForm => PageInv'
  BY CallsOnly DEF ToggleForm, PageInv, Types, Buttons, historyVars, serverVars

LEMMA SubmitStep == PageInv /\ SubmitRca => PageInv'
  <1> SUFFICES ASSUME PageInv, SubmitRca PROVE PageInv'
    OBVIOUS
  <1>1. /\ post' \in [at : {"none", "sent", "stored", "refused"}, id : Incidents]
        /\ post'.at = "sent" /\ (~jumped => post'.id = First)
    BY DEF SubmitRca, PageInv, Types, Answers
  <1>2. Buttons'
    BY <1>1 DEF SubmitRca, CanSubmit, PageInv, Buttons
  <1>3. QED
    BY <1>1, <1>2, CallsOnly DEF SubmitRca, PageInv, Types, historyVars, serverVars

LEMMA SubmissionFailsStep == PageInv /\ SubmissionFails => PageInv'
  <1> SUFFICES ASSUME PageInv, SubmissionFails PROVE PageInv'
    OBVIOUS
  <1>1. post.at # "none"
    BY DEF SubmissionFails
  <1>2. Buttons'
    BY <1>1, NoCallFacts DEF SubmissionFails, PageInv, Buttons
  <1>3. failed \subseteq failed' /\ failed' \subseteq Loads \cup {"patch", "post"}
    BY DEF SubmissionFails, PageInv, Types
  <1>4. /\ UNCHANGED <<stage, explained, route, workItem, loads, rcaSuccess, overtaken, jumped>>
        /\ transitioning' \in BOOLEAN /\ rcaSubmitting' \in BOOLEAN
        /\ patch' = patch \/ patch' = NoCall
        /\ post' = post \/ post' = NoCall
    BY DEF SubmissionFails, PageInv, Types, serverVars
  <1>5. QED
    BY <1>2, <1>3, <1>4, NoCallFacts, CallsOnly

-----------------------------------------------------------------------------
\* A load that is not there, or has not read anything, is honest.
LEMMA FreshLoads ==
    ASSUME NEW id \in Incidents
    PROVE  /\ Started(id) \in LoadStates /\ Started(id).at = "item" /\ Honest(Started(id))
           /\ NoLoad \in LoadStates /\ NoLoad.at = "none" /\ Honest(NoLoad)
  <1>1. 0 \in 0..4
    BY SMT
  <1>2. First \in Incidents
    BY IncidentsAssumption DEF IncidentsAssumption
  <1>3. Started(id) \in LoadStates /\ Started(id).at = "item"
    BY <1>1 DEF Started, Load, LoadStates
  <1>4. NoLoad \in LoadStates /\ NoLoad.at = "none"
    BY <1>1, <1>2 DEF NoLoad, Load, LoadStates
  <1>5. QED
    BY <1>3, <1>4 DEF Honest

\* Being late changes nothing else of a load.
LEMMA LateFacts ==
    ASSUME NEW f \in [Loads -> LoadStates], \A k \in Loads : Honest(f[k])
    PROVE  /\ Late(f) \in [Loads -> LoadStates]
           /\ \A k \in Loads : Honest(Late(f)[k]) /\ Late(f)[k].at = f[k].at
  <1>1. SUFFICES ASSUME NEW k \in Loads
        PROVE  Late(f)[k] \in LoadStates /\ Honest(Late(f)[k]) /\ Late(f)[k].at = f[k].at
    BY DEF Late
  <1>2. First \in Incidents
    BY IncidentsAssumption DEF IncidentsAssumption
  <1>3. CASE f[k].at = "none"
    BY <1>2, <1>3, FreshLoads DEF Late
  <1>4. CASE f[k].at # "none"
    <2> DEFINE g == [f[k] EXCEPT !.late = TRUE]
    <2>1. Late(f)[k] = g
      BY <1>4 DEF Late
    <2>2. g \in LoadStates /\ g.at = f[k].at /\ g.id = f[k].id /\ g.stage = f[k].stage
          /\ g.rca = f[k].rca
      BY DEF LoadStates
    <2>3. QED
      BY <2>1, <2>2 DEF Honest
  <1>5. QED
    BY <1>3, <1>4

\* What an answered load shows is true, and closed only with an RCA.
LEMMA LoadFacts ==
    ASSUME PageInv, NEW k \in Loads
    PROVE  /\ loads[k].id \in Incidents /\ loads[k].rca \in BOOLEAN
           /\ loads[k].at = "reply" =>
                /\ loads[k].stage \in 1..4 /\ loads[k].stage <= stage[loads[k].id]
                /\ loads[k].rca => explained[loads[k].id]
                /\ loads[k].stage = 4 => loads[k].rca
  BY DEF PageInv, Types, LoadStates, Answers, Honest

LEMMA ServerReadsStep ==
    ASSUME PageInv, NEW k \in Loads, ServerReads(k) PROVE PageInv'
  <1> DEFINE l == loads[k]
             g == ReadNext(l)
  <1>1. l \in LoadStates /\ l.id \in Incidents
    BY DEF PageInv, Types, LoadStates
  <1>2. stage[l.id] \in 1..4 /\ explained[l.id] \in BOOLEAN /\ stage[l.id] <= stage[l.id]
    <2>1. stage[l.id] \in 1..4 /\ explained[l.id] \in BOOLEAN
      BY <1>1 DEF PageInv, Types
    <2>2. QED
      BY <2>1, SMT
  <1>3. g \in LoadStates /\ g.at # "none" /\ Honest(g)
    <2>1. CASE l.at = "item"
      <3>1. g = [l EXCEPT !.at = "rca", !.stage = stage[l.id]]
        BY <2>1 DEF ReadNext
      <3>2. stage[l.id] \in 0..4
        BY <1>2, SMT
      <3>3. g \in LoadStates /\ g.at = "rca" /\ g.stage = stage[l.id] /\ g.id = l.id
        BY <1>1, <3>1, <3>2 DEF LoadStates
      <3>4. QED
        BY <1>2, <3>3 DEF Honest
    <2>2. CASE l.at = "rca"
      <3>1. g = [l EXCEPT !.at = "reply", !.rca = explained[l.id]]
        BY <2>2 DEF ReadNext
      <3>2. /\ g \in LoadStates /\ g.at = "reply" /\ g.stage = l.stage /\ g.id = l.id
            /\ g.rca = explained[l.id]
        BY <1>1, <1>2, <3>1 DEF LoadStates
      <3>3. l.stage \in 1..4 /\ l.stage <= stage[l.id]
        BY <2>2 DEF PageInv, Answers, Honest
      <3>4. l.stage = 4 => stage[l.id] = 4
        BY <1>2, <3>3, SMT
      <3>5. stage[l.id] = 4 => explained[l.id]
        BY <1>1 DEF PageInv, Answers
      <3>6. QED
        BY <3>2, <3>3, <3>4, <3>5 DEF Honest
    <2>3. QED
      BY <2>1, <2>2 DEF ServerReads
  <1>4. /\ loads' = [loads EXCEPT ![k] = g] /\ l.at # "none"
        /\ UNCHANGED <<stage, explained, route, workItem, patch, post, transitioning,
                       rcaSubmitting, rcaSuccess, failed, overtaken, jumped>>
    BY DEF ServerReads, serverVars, buttonVars, historyVars
  <1>5. \A j \in Loads : loads'[j] = IF j = k THEN g ELSE loads[j]
    BY <1>4 DEF PageInv, Types
  <1>6. \A j \in Loads : loads'[j].at # "none" <=> loads[j].at # "none"
    BY <1>3, <1>4, <1>5
  <1>7. Types'
    BY <1>3, <1>4 DEF PageInv, Types
  <1>8. Answers'
    <2>1. \A j \in Loads : Honest(loads'[j])
      BY <1>3, <1>5 DEF PageInv, Answers
    <2>2. QED
      BY <1>4, <2>1 DEF PageInv, Answers, Honest
  <1>9. "transition" \in Loads /\ "rca" \in Loads
    BY DEF Loads
  <1>10. Buttons'
    BY <1>4, <1>6, <1>9 DEF PageInv, Buttons
  <1>11. PageTellsTruth'
    BY <1>4, <1>6, <1>9 DEF PageInv, PageTellsTruth
  <1>12. QED
    BY <1>7, <1>8, <1>10, <1>11 DEF PageInv

\* A load ends: the one of a handler enables its button again.
LEMMA LoadsAfter ==
    ASSUME PageInv, NEW k \in Loads
    PROVE  /\ [loads EXCEPT ![k] = NoLoad] \in [Loads -> LoadStates]
           /\ \A j \in Loads : /\ Honest([loads EXCEPT ![k] = NoLoad][j])
                               /\ [loads EXCEPT ![k] = NoLoad][j].at
                                    = IF j = k THEN "none" ELSE loads[j].at
  <1>1. First \in Incidents
    BY IncidentsAssumption DEF IncidentsAssumption
  <1>2. QED
    BY <1>1, FreshLoads DEF PageInv, Types, Answers

LEMMA LoadedStep == ASSUME PageInv, NEW k \in Loads, Loaded(k) PROVE PageInv'
  <1> DEFINE l == loads[k]
             f == [loads EXCEPT ![k] = NoLoad]
  <1>1. /\ l.at = "reply" /\ l.id \in Incidents /\ l.rca \in BOOLEAN
        /\ l.stage \in 1..4 /\ l.stage <= stage[l.id]
        /\ l.rca => explained[l.id]
        /\ l.stage = 4 => l.rca
    BY LoadFacts DEF Loaded
  <1>2. /\ workItem' = [id |-> l.id, stage |-> l.stage, rca |-> l.rca, buttons |-> l.stage < 4]
        /\ loads' = Late(f)
        /\ transitioning' = (transitioning /\ k # "transition")
        /\ rcaSubmitting' = (rcaSubmitting /\ k # "rca")
        /\ UNCHANGED <<stage, explained, route, patch, post, rcaSuccess, failed, jumped>>
    BY ClosedIs4 DEF Loaded, Show, Settle, serverVars
  <1>3. /\ loads' \in [Loads -> LoadStates]
        /\ \A j \in Loads : /\ Honest(loads'[j])
                            /\ loads'[j].at = IF j = k THEN "none" ELSE loads[j].at
    BY <1>2, LoadsAfter, LateFacts
  <1>4. Types'
    <2>1. workItem' \in [id : Incidents, stage : 1..4, rca : BOOLEAN, buttons : BOOLEAN]
          /\ (workItem'.buttons => workItem'.stage < 4)
      <3>1. (l.stage < 4) \in BOOLEAN
        OBVIOUS
      <3>2. workItem'.stage = l.stage /\ workItem'.buttons = (l.stage < 4)
        BY <1>2
      <3>3. workItem' \in [id : Incidents, stage : 1..4, rca : BOOLEAN, buttons : BOOLEAN]
        BY <1>1, <1>2, <3>1
      <3>4. QED
        BY <3>2, <3>3
    <2>2. QED
      BY <1>2, <1>3, <2>1 DEF PageInv, Types
  <1>5. Answers'
    BY <1>2, <1>3 DEF PageInv, Answers, Honest
  <1>6. Buttons'
    BY <1>1, <1>2, <1>3 DEF PageInv, Buttons, Loads
  <1>7. PageTellsTruth'
    <2>1. /\ workItem'.stage <= stage'[workItem'.id]
          /\ workItem'.rca => explained'[workItem'.id]
          /\ workItem'.stage = 4 => workItem'.rca
      BY <1>1, <1>2
    <2>2. rcaSuccess' => \E i \in Incidents : explained'[i] /\ (~jumped' => i = route')
      BY <1>2 DEF PageInv, PageTellsTruth
    <2>3. QED
      BY <2>1, <2>2, ClosedIs4 DEF PageTellsTruth
  <1>8. QED
    BY <1>4, <1>5, <1>6, <1>7 DEF PageInv

LEMMA LoadFailsStep == ASSUME PageInv, NEW k \in Loads, LoadFails(k) PROVE PageInv'
  <1>1. /\ loads[k].at # "none" /\ failed' = failed \cup {k}
        /\ loads' = [loads EXCEPT ![k] = NoLoad]
        /\ transitioning' = (transitioning /\ k # "transition")
        /\ rcaSubmitting' = (rcaSubmitting /\ k # "rca")
        /\ UNCHANGED <<stage, explained, route, workItem, patch, post, rcaSuccess,
                       overtaken, jumped>>
    BY DEF LoadFails, Settle, serverVars
  <1>2. /\ loads' \in [Loads -> LoadStates]
        /\ \A j \in Loads : /\ Honest(loads'[j])
                            /\ loads'[j].at = IF j = k THEN "none" ELSE loads[j].at
    BY <1>1, LoadsAfter
  <1>3. Types'
    BY <1>1, <1>2 DEF PageInv, Types
  <1>4. Answers'
    BY <1>1, <1>2 DEF PageInv, Answers, Honest
  <1>5. Buttons'
    BY <1>1, <1>2 DEF PageInv, Buttons, Loads
  <1>6. PageTellsTruth'
    BY <1>1 DEF PageInv, PageTellsTruth
  <1>7. QED
    BY <1>3, <1>4, <1>5, <1>6 DEF PageInv

\* A load starts, where one of its kind may be under way.
LEMMA LoadsBefore ==
    ASSUME NEW f \in [Loads -> LoadStates], \A k \in Loads : Honest(f[k]),
           NEW k \in Loads, NEW id \in Incidents
    PROVE  /\ [f EXCEPT ![k] = Started(id)] \in [Loads -> LoadStates]
           /\ \A j \in Loads : /\ Honest([f EXCEPT ![k] = Started(id)][j])
                               /\ [f EXCEPT ![k] = Started(id)][j].at
                                    = IF j = k THEN "item" ELSE f[j].at
  BY FreshLoads

LEMMA TransitionedStep == PageInv /\ Transitioned => PageInv'
  <1> SUFFICES ASSUME PageInv, Transitioned PROVE PageInv'
    OBVIOUS
  <1>1. /\ patch.at = "moved" /\ patch.id \in Incidents /\ patch.to \in 1..4
        /\ patch.to <= stage[patch.id]
    BY NoCallFacts DEF Transitioned, PageInv, Types, Answers
  <1>2. /\ patch' = NoCall
        /\ workItem' = [id |-> patch.id, stage |-> patch.to, rca |-> FALSE, buttons |-> FALSE]
        /\ loads' = [Late(loads) EXCEPT !["transition"] = Started(patch.id)]
        /\ UNCHANGED <<stage, explained, route, post, transitioning, rcaSubmitting,
                       rcaSuccess, failed, jumped>>
    BY DEF Transitioned, Show, Reload, serverVars
  <1>3. "transition" \in Loads /\ "rca" \in Loads
    BY DEF Loads
  <1>4. /\ loads' \in [Loads -> LoadStates]
        /\ \A j \in Loads : /\ Honest(loads'[j])
                            /\ loads'[j].at = IF j = "transition" THEN "item" ELSE loads[j].at
    <2>1. /\ Late(loads) \in [Loads -> LoadStates]
          /\ \A j \in Loads : Honest(Late(loads)[j]) /\ Late(loads)[j].at = loads[j].at
      BY LateFacts DEF PageInv, Types, Answers
    <2>2. QED
      BY <1>1, <1>2, <1>3, <2>1, LoadsBefore
  <1>5. Types'
    BY <1>1, <1>2, <1>4 DEF PageInv, Types
  <1>6. Answers'
    BY <1>2, <1>4, NoCallFacts DEF PageInv, Answers, Honest
  <1>7. Buttons'
    BY <1>1, <1>2, <1>3, <1>4, NoCallFacts DEF PageInv, Buttons
  <1>8. PageTellsTruth'
    BY <1>1, <1>2, <1>3, <1>4 DEF PageInv, PageTellsTruth
  <1>9. QED
    BY <1>5, <1>6, <1>7, <1>8 DEF PageInv

LEMMA SubmittedStep == PageInv /\ Submitted => PageInv'
  <1> SUFFICES ASSUME PageInv, Submitted PROVE PageInv'
    OBVIOUS
  <1>1. /\ post.at = "stored" /\ post.id \in Incidents /\ explained[post.id]
        /\ ~jumped => post.id = route
    BY DEF Submitted, PageInv, Types, Answers
  <1>2. /\ post' = NoCall /\ rcaSuccess' = TRUE
        /\ loads' = [loads EXCEPT !["rca"] = Started(post.id)]
        /\ UNCHANGED <<stage, explained, route, workItem, patch, transitioning,
                       rcaSubmitting, failed, overtaken, jumped>>
    BY DEF Submitted, serverVars, historyVars
  <1>3. "transition" \in Loads /\ "rca" \in Loads
    BY DEF Loads
  <1>4. /\ loads' \in [Loads -> LoadStates]
        /\ \A j \in Loads : /\ Honest(loads'[j])
                            /\ loads'[j].at = IF j = "rca" THEN "item" ELSE loads[j].at
    BY <1>1, <1>2, <1>3, LoadsBefore DEF PageInv, Types, Answers
  <1>5. Types'
    BY <1>2, <1>4, NoCallFacts DEF PageInv, Types
  <1>6. Answers'
    BY <1>2, <1>4, NoCallFacts DEF PageInv, Answers, Honest
  <1>7. Buttons'
    BY <1>1, <1>2, <1>3, <1>4, NoCallFacts DEF PageInv, Buttons
  <1>8. PageTellsTruth'
    BY <1>1, <1>2, <1>3, <1>4 DEF PageInv, PageTellsTruth
  <1>9. QED
    BY <1>5, <1>6, <1>7, <1>8 DEF PageInv

LEMMA JumpStep == PageInv /\ Jump => PageInv'
  <1> SUFFICES ASSUME PageInv, Jump PROVE PageInv'
    OBVIOUS
  <1>1. /\ jumped' = TRUE /\ route' \in Incidents
        /\ loads' = [loads EXCEPT !["jump"] = Started(route')]
        /\ UNCHANGED <<stage, explained, workItem, patch, post, transitioning,
                       rcaSubmitting, rcaSuccess, failed, overtaken>>
    BY DEF Jump, serverVars, buttonVars
  <1>2. /\ loads' \in [Loads -> LoadStates]
        /\ \A j \in Loads : /\ Honest(loads'[j])
                            /\ loads'[j].at = IF j = "jump" THEN "item" ELSE loads[j].at
    BY <1>1, LoadsBefore DEF PageInv, Types, Answers, Loads
  <1>3. Types'
    BY <1>1, <1>2 DEF PageInv, Types
  <1>4. Answers'
    BY <1>1, <1>2 DEF PageInv, Answers, Honest
  <1>5. Buttons'
    BY <1>1, <1>2 DEF PageInv, Buttons, Loads
  <1>6. PageTellsTruth'
    BY <1>1, <1>2 DEF PageInv, PageTellsTruth, Loads
  <1>7. QED
    BY <1>3, <1>4, <1>5, <1>6 DEF PageInv

-----------------------------------------------------------------------------
LEMMA ServerTransitionsStep == PageInv /\ ServerTransitions => PageInv'
  <1> SUFFICES ASSUME PageInv, ServerTransitions PROVE PageInv'
    OBVIOUS
  <1>1. /\ patch.at = "sent" /\ patch.id \in Incidents /\ patch.to \in 1..4
        /\ patch \in [at : Calls, id : Incidents, to : 1..4]
    BY NoCallFacts DEF ServerTransitions, PageInv, Types
  <1>2. UNCHANGED <<route, workItem, loads, post, buttonVars, historyVars>>
    BY DEF ServerTransitions
  <1>3. CASE /\ stage[patch.id] + 1 = patch.to
             /\ Server!Advance(patch.id)
             /\ patch' = [patch EXCEPT !.at = "moved"]
    <2>1. /\ patch' \in [at : Calls, id : Incidents, to : 1..4] /\ patch'.at = "moved"
          /\ patch'.id = patch.id /\ patch'.to = patch.to
      BY <1>1, <1>3 DEF Calls
    <2>2. patch'.to <= stage'[patch'.id]
      <3>1. stage'[patch.id] = patch.to
        BY <1>1, <1>3, ServerFacts DEF PageInv
      <3>2. patch.to <= patch.to
        BY <1>1, SMT
      <3>3. QED
        BY <2>1, <3>1, <3>2
    <2>3. QED
      BY <1>1, <1>2, <1>3, <2>1, <2>2, ServerFacts, ServerOnly DEF PageInv
  <1>4. CASE patch' = [patch EXCEPT !.at = "refused"] /\ UNCHANGED serverVars
    <2>1. /\ patch' \in [at : Calls, id : Incidents, to : 1..4] /\ patch'.at = "refused"
      BY <1>1, <1>4 DEF Calls
    <2>2. UNCHANGED <<stage, explained, route, workItem, loads, rcaSuccess, overtaken, jumped,
                      failed, transitioning, rcaSubmitting, post>>
      BY <1>2, <1>4 DEF serverVars, buttonVars, historyVars
    <2>3. Buttons'
      BY <1>1, <2>1, <2>2 DEF PageInv, Buttons
    <2>4. QED
      BY <2>1, <2>2, <2>3, CallsOnly DEF PageInv, Types
  <1>5. QED
    BY <1>3, <1>4 DEF ServerTransitions

LEMMA ServerStoresStep == PageInv /\ ServerStoresRca => PageInv'
  <1> SUFFICES ASSUME PageInv, ServerStoresRca PROVE PageInv'
    OBVIOUS
  <1>1. /\ post.at = "sent" /\ post.id \in Incidents
        /\ post \in [at : {"none", "sent", "stored", "refused"}, id : Incidents]
    BY DEF ServerStoresRca, PageInv, Types
  <1>2. UNCHANGED <<route, workItem, loads, patch, buttonVars, historyVars>>
    BY DEF ServerStoresRca
  <1>3. CASE Server!Explain(post.id) /\ post' = [post EXCEPT !.at = Outcome(TRUE)]
    <2>1. /\ post' \in [at : {"sent", "stored", "refused"}, id : Incidents]
          /\ post'.at = "stored" /\ post'.id = post.id
      BY <1>1, <1>3 DEF Outcome
    <2>2. explained'[post'.id]
      BY <1>1, <1>3, <2>1, ServerFacts DEF PageInv
    <2>3. QED
      BY <1>1, <1>2, <1>3, <2>1, <2>2, ServerFacts, ServerOnly DEF PageInv
  <1>4. CASE UNCHANGED serverVars /\ post' = [post EXCEPT !.at = Outcome(FALSE)]
    <2>1. /\ post' \in [at : {"none", "sent", "stored", "refused"}, id : Incidents]
          /\ post'.at = "refused" /\ post'.id = post.id
      BY <1>1, <1>4 DEF Outcome
    <2>2. UNCHANGED <<stage, explained, route, workItem, loads, rcaSuccess, overtaken, jumped,
                      failed, transitioning, rcaSubmitting, patch>>
      BY <1>2, <1>4 DEF serverVars, buttonVars, historyVars
    <2>3. Buttons'
      BY <1>1, <2>1, <2>2 DEF PageInv, Buttons
    <2>4. QED
      BY <2>1, <2>2, <2>3, CallsOnly DEF PageInv, Types, Answers
  <1>5. QED
    BY <1>3, <1>4 DEF ServerStoresRca

LEMMA OthersStep == PageInv /\ OthersAct => PageInv'
  <1> SUFFICES ASSUME PageInv, OthersAct PROVE PageInv'
    OBVIOUS
  <1>1. PICK i \in Incidents : Server!Explain(i) \/ Server!Advance(i)
    BY DEF OthersAct, Server!Next
  <1>2. UNCHANGED <<route, workItem, loads, patch, post, buttonVars, historyVars>>
    BY DEF OthersAct
  <1>3. QED
    BY <1>1, <1>2, ServerFacts, ServerOnly DEF PageInv

LEMMA NextPageInv == PageInv /\ [Next]_vars => PageInv'
  <1> SUFFICES ASSUME PageInv, [Next]_vars PROVE PageInv'
    OBVIOUS
  <1>1. CASE ClickTransition
    BY <1>1, ClickStep
  <1>2. CASE ServerTransitions
    BY <1>2, ServerTransitionsStep
  <1>3. CASE Transitioned
    BY <1>3, TransitionedStep
  <1>4. CASE TransitionFails
    BY <1>4, TransitionFailsStep
  <1>5. CASE ToggleForm
    BY <1>5, ToggleStep
  <1>6. CASE SubmitRca
    BY <1>6, SubmitStep
  <1>7. CASE ServerStoresRca
    BY <1>7, ServerStoresStep
  <1>8. CASE Submitted
    BY <1>8, SubmittedStep
  <1>9. CASE SubmissionFails
    BY <1>9, SubmissionFailsStep
  <1>10. ASSUME NEW k \in Loads, LoadStep(k) \/ LoadFails(k) PROVE PageInv'
    BY <1>10, ServerReadsStep, LoadedStep, LoadFailsStep DEF LoadStep
  <1>11. CASE Jump
    BY <1>11, JumpStep
  <1>12. CASE OthersAct
    BY <1>12, OthersStep
  <1>13. CASE UNCHANGED vars
    BY <1>13 DEF vars, serverVars, buttonVars, historyVars, PageInv, Types, Answers, Honest,
                 Buttons, PageTellsTruth
  <1>14. QED
    BY <1>1, <1>2, <1>3, <1>4, <1>5, <1>6, <1>7, <1>8, <1>9, <1>10, <1>11, <1>12, <1>13
       DEF Next

\* The page and the server stay what they are: above all, a button is disabled while, and
\* only while, its request or the reload after it is under way.
THEOREM TypeCorrect == Spec => []TypeOK
  <1>1. PageInv => TypeOK
    BY ClosedIs4, NoCallFacts
       DEF PageInv, Types, Buttons, TypeOK, Views, LoadStates, Calls
  <1>2. QED
    BY <1>1, InitPageInv, NextPageInv, PTL DEF Spec

\* Whatever loads overtake each other, whatever requests are lost and whatever others do,
\* the page shows no status and no RCA the server did not have, and a closed incident
\* without its RCA only until the reload.
THEOREM TruthCorrect == Spec => []PageTellsTruth
  <1>1. PageInv => PageTellsTruth
    BY DEF PageInv
  <1>2. QED
    BY <1>1, InitPageInv, NextPageInv, PTL DEF Spec
-----------------------------------------------------------------------------
(* A page at rest.                                                         *)

\* As long as the route is the first, everything is about the first incident.
OnFirst ==
    ~jumped => patch.id = First /\ \A k \in Loads : loads[k].id = First

\* The server has what the page was told, and so has a load that was started since.
Told ==
    /\ acked \in [Incidents -> 0..4]
    /\ \A i \in Incidents : acked[i] <= stage[i]
    /\ \A k \in Loads :
         loads[k].at \in {"rca", "reply"} /\ ~loads[k].late =>
             acked[loads[k].id] <= loads[k].stage

\* The load after a submission is of an incident that has an RCA, and finds it.
Explained ==
    LET load == loads["rca"] IN
    /\ load.at # "none" => explained[load.id]
    /\ load.at = "reply" => load.rca

\* What is shown lacks something only while a load that brings it is under way.
ShownItem ==
    /\ workItem = NoItem => loads["open"].at # "none"
    /\ workItem # NoItem =>
         /\ workItem.id = route \/ loads["jump"].at # "none"
         /\ acked[workItem.id] <= workItem.stage
         /\ (workItem.buttons <=> workItem.stage < 4) \/ loads["transition"].at # "none"
ShownRca ==
    rcaSuccess /\ ~jumped =>
        \/ loads["rca"].at # "none"
        \/ /\ workItem # NoItem => workItem.rca \/ loads["transition"].at # "none"
           /\ \A k \in Loads : loads[k].at = "reply" /\ ~loads[k].late => loads[k].rca
Shown == failed = {} /\ ~overtaken => ShownItem /\ ShownRca

FreshInv == OnFirst /\ Told /\ Explained /\ Shown

\* Numbers and types the steps need.
LEMMA FreshFacts ==
    ASSUME PageInv, FreshInv
    PROVE  /\ \A n, m, l \in 0..4 : n <= m /\ m <= l => n <= l
           /\ \A i \in Incidents : stage[i] \in 0..4 /\ acked[i] \in 0..4
           /\ \A k \in Loads : loads[k].id \in Incidents /\ loads[k].stage \in 0..4
           /\ {"open", "again", "jump", "transition", "rca"} \subseteq Loads
  <1>1. \A n, m, l \in 0..4 : n <= m /\ m <= l => n <= l
    BY SMT
  <1>2. \A i \in Incidents : stage[i] \in 0..4
    BY SMT DEF PageInv, Types
  <1>3. QED
    BY <1>1, <1>2 DEF PageInv, Types, LoadStates, FreshInv, Told, Loads

LEMMA StartedFacts ==
    ASSUME NEW id
    PROVE  /\ Started(id).at = "item" /\ Started(id).id = id /\ ~Started(id).late
           /\ NoLoad.at = "none" /\ NoLoad.id = First
  BY DEF Started, NoLoad, Load

\* What a load read stays as it is when the load is late.
LEMMA LateKeeps ==
    ASSUME NEW f \in [Loads -> LoadStates], NEW k \in Loads
    PROVE  /\ f[k].at = "none" => Late(f)[k] = NoLoad
           /\ f[k].at # "none" =>
                /\ Late(f)[k].at = f[k].at /\ Late(f)[k].id = f[k].id
                /\ Late(f)[k].rca = f[k].rca /\ Late(f)[k].late
  <1>1. CASE f[k].at = "none"
    BY <1>1 DEF Late
  <1>2. CASE f[k].at # "none"
    <2>1. Late(f)[k] = [f[k] EXCEPT !.late = TRUE]
      BY <1>2 DEF Late
    <2>2. QED
      BY <1>2, <2>1 DEF LoadStates
  <1>3. QED
    BY <1>1, <1>2

LEMMA InitFresh == Init => FreshInv
  <1> SUFFICES ASSUME Init PROVE FreshInv
    OBVIOUS
  <1>1. PICK opening \in {{"open"}, {"open", "again"}} :
           loads = [k \in Loads |-> IF k \in opening THEN Started(First) ELSE NoLoad]
    BY DEF Init, Open
  <1>2. \A k \in Loads : loads[k].id = First /\ loads[k].at \in {"none", "item"}
    BY <1>1, StartedFacts
  <1>3. "open" \in Loads /\ "rca" \in Loads
    BY DEF Loads
  <1>4. loads["open"].at = "item" /\ loads["rca"].at = "none"
    BY <1>1, <1>3, StartedFacts
  <1>5. Told
    <2>1. 0 \in 0..4 /\ 0 <= 1
      BY SMT
    <2>2. QED
      BY <1>2, <2>1 DEF Init, Told
  <1>6. QED
    BY <1>2, <1>4, <1>5, NoCallFacts
       DEF Init, FreshInv, OnFirst, Explained, Shown, ShownItem, ShownRca

\* A step that shows and loads nothing, while the server moves on.
LEMMA NothingShown ==
    ASSUME PageInv, FreshInv, PageInv',
           \A i \in Incidents : stage[i] <= stage'[i] /\ (explained[i] => explained'[i]),
           UNCHANGED <<route, workItem, loads, rcaSuccess, overtaken, acked, jumped>>,
           failed \subseteq failed',
           ~jumped => patch'.id = First
    PROVE  FreshInv'
  <1>1. \A i \in Incidents : stage'[i] \in 0..4
    BY SMT DEF PageInv, Types
  <1>2. OnFirst'
    BY DEF FreshInv, OnFirst
  <1>3. Told'
    <2>1. \A i \in Incidents : acked[i] <= stage'[i]
      BY <1>1, FreshFacts DEF FreshInv, Told
    <2>2. QED
      BY <2>1 DEF FreshInv, Told
  <1>4. Explained'
    BY FreshFacts DEF FreshInv, Explained
  <1>5. Shown'
    BY DEF FreshInv, Shown, ShownItem, ShownRca
  <1>6. QED
    BY <1>2, <1>3, <1>4, <1>5 DEF FreshInv

\* The steps of the calls and of the others.
LEMMA CallsFresh ==
    ASSUME PageInv, FreshInv, PageInv',
           \/ ClickTransition \/ ServerTransitions \/ TransitionFails \/ ToggleForm
           \/ SubmitRca \/ ServerStoresRca \/ SubmissionFails \/ OthersAct
    PROVE  FreshInv'
  <1>0. ASSUME UNCHANGED <<stage, explained>>
        PROVE  \A i \in Incidents : stage[i] <= stage'[i] /\ (explained[i] => explained'[i])
    BY <1>0, SMT DEF PageInv, Types
  <1>a. /\ ~jumped => route = First /\ patch.id = First
        /\ NoCall.id = First
        /\ patch.id \in Incidents /\ post.id \in Incidents
    BY NoCallFacts DEF PageInv, Types, Answers, FreshInv, OnFirst
  <1>1. CASE ClickTransition
    <2>1. patch'.id = route
      BY <1>1 DEF ClickTransition
    <2>2. QED
      BY <1>0, <1>1, <1>a, <2>1, NothingShown DEF ClickTransition, serverVars, historyVars
  <1>2. CASE ServerTransitions
    <2>1. patch'.id = patch.id
      <3>1. patch \in [at : Calls, id : Incidents, to : 1..4]
        BY <1>2, NoCallFacts DEF ServerTransitions, PageInv, Types
      <3>2. QED
        BY <1>2, <3>1 DEF ServerTransitions
    <2>2. \A i \in Incidents : stage[i] <= stage'[i] /\ (explained[i] => explained'[i])
      BY <1>0, <1>2, <1>a, ServerFacts DEF ServerTransitions, serverVars, PageInv
    <2>3. QED
      BY <1>2, <1>a, <2>1, <2>2, NothingShown DEF ServerTransitions, buttonVars, historyVars
  <1>3. CASE TransitionFails
    BY <1>0, <1>3, <1>a, NothingShown DEF TransitionFails, serverVars
  <1>4. CASE ToggleForm
    BY <1>0, <1>4, <1>a, NothingShown DEF ToggleForm, serverVars, historyVars
  <1>5. CASE SubmitRca
    BY <1>0, <1>5, <1>a, NothingShown DEF SubmitRca, serverVars, historyVars
  <1>6. CASE ServerStoresRca
    <2>1. \A i \in Incidents : stage[i] <= stage'[i] /\ (explained[i] => explained'[i])
      BY <1>0, <1>6, <1>a, ServerFacts DEF ServerStoresRca, serverVars, PageInv
    <2>2. QED
      BY <1>6, <1>a, <2>1, NothingShown DEF ServerStoresRca, buttonVars, historyVars
  <1>7. CASE SubmissionFails
    BY <1>0, <1>7, <1>a, NothingShown DEF SubmissionFails, serverVars
  <1>8. CASE OthersAct
    <2>1. \A i \in Incidents : stage[i] <= stage'[i] /\ (explained[i] => explained'[i])
      BY <1>8, ServerFacts DEF OthersAct, Server!Next, PageInv
    <2>2. QED
      BY <1>8, <1>a, <2>1, NothingShown DEF OthersAct, buttonVars, historyVars
  <1>9. QED
    BY <1>1, <1>2, <1>3, <1>4, <1>5, <1>6, <1>7, <1>8

\* The server reads what is at least what the page was told.
LEMMA ServerReadsFresh ==
    ASSUME PageInv, FreshInv, NEW k \in Loads, ServerReads(k) PROVE FreshInv'
  <1> DEFINE l == loads[k]
             g == ReadNext(l)
  <1>1. l \in LoadStates /\ l.id \in Incidents /\ l.at \in {"item", "rca"}
    BY DEF PageInv, Types, LoadStates, ServerReads
  <1>2. /\ g.at # "none" /\ g.id = l.id /\ g.late = l.late
        /\ g.at = "reply" => l.at = "rca" /\ g.rca = explained[l.id] /\ g.stage = l.stage
        /\ g.at = "rca" => g.stage = stage[l.id]
        /\ g.at \in {"rca", "reply"}
    BY <1>1 DEF ReadNext, LoadStates
  <1>3. \A j \in Loads : loads'[j] = IF j = k THEN g ELSE loads[j]
    BY DEF ServerReads, PageInv, Types
  <1>4. UNCHANGED <<stage, explained, route, workItem, patch, rcaSuccess, failed, overtaken,
                    acked, jumped>>
    BY DEF ServerReads, serverVars, buttonVars, historyVars
  <1>5. \A j \in Loads : (loads'[j].at = "none" <=> loads[j].at = "none")
                         /\ loads'[j].id = loads[j].id
    BY <1>1, <1>2, <1>3
  <1>6. OnFirst'
    BY <1>4, <1>5 DEF FreshInv, OnFirst
  <1>7. Told'
    <2>1. g.at \in {"rca", "reply"} /\ ~g.late => acked[g.id] <= g.stage
      BY <1>1, <1>2 DEF FreshInv, Told
    <2>2. QED
      BY <1>3, <1>4, <2>1 DEF FreshInv, Told
  <1>8. Explained'
    BY <1>1, <1>2, <1>3, <1>4, FreshFacts DEF FreshInv, Explained
  <1>9. Shown'
    <2>1. ShownItem => ShownItem'
      BY <1>4, <1>5, FreshFacts DEF ShownItem
    <2>2. ShownRca => ShownRca'
      <3> SUFFICES ASSUME ShownRca, rcaSuccess, ~jumped, loads["rca"].at = "none"
                   PROVE  ShownRca'
        BY <1>4, <1>5, FreshFacts DEF ShownRca
      <3>1. explained[l.id]
        BY <1>1 DEF PageInv, PageTellsTruth, Answers, FreshInv, OnFirst
      <3>2. \A j \in Loads : loads'[j].at = "reply" /\ ~loads'[j].late => loads'[j].rca
        BY <1>2, <1>3, <3>1 DEF ShownRca
      <3>3. QED
        BY <1>4, <1>5, <3>2, FreshFacts DEF ShownRca
    <2>3. QED
      BY <1>4, <2>1, <2>2 DEF FreshInv, Shown
  <1>10. QED
    BY <1>6, <1>7, <1>8, <1>9 DEF FreshInv

\* What is shown in time is what the last load brought, and makes every other one late.
LEMMA LoadedFresh ==
    ASSUME PageInv, FreshInv, NEW k \in Loads, Loaded(k) PROVE FreshInv'
  <1> DEFINE l == loads[k]
             f == [loads EXCEPT ![k] = NoLoad]
  <1>1. /\ l.at = "reply" /\ l.id \in Incidents /\ l.rca \in BOOLEAN
        /\ l.stage \in 1..4
    BY LoadFacts DEF Loaded
  <1>2. /\ workItem' = [id |-> l.id, stage |-> l.stage, rca |-> l.rca, buttons |-> l.stage < 4]
        /\ loads' = Late(f)
        /\ overtaken' = (overtaken \/ l.late \/ l.id # route)
        /\ UNCHANGED <<stage, explained, route, patch, rcaSuccess, failed, acked, jumped>>
    BY ClosedIs4 DEF Loaded, Show, serverVars
  <1>3. /\ f \in [Loads -> LoadStates] /\ f[k] = NoLoad
        /\ \A j \in Loads : j # k => f[j] = loads[j]
    BY LoadsAfter DEF PageInv, Types
  <1>4. \A j \in Loads :
           \/ loads'[j] = NoLoad
           \/ /\ j # k /\ loads'[j].at = loads[j].at /\ loads'[j].id = loads[j].id
              /\ loads'[j].rca = loads[j].rca /\ loads'[j].late
    <2> SUFFICES ASSUME NEW j \in Loads, loads'[j] # NoLoad
                 PROVE  /\ j # k /\ loads'[j].at = loads[j].at /\ loads'[j].id = loads[j].id
                        /\ loads'[j].rca = loads[j].rca /\ loads'[j].late
      OBVIOUS
    <2>1. f[j].at # "none"
      BY <1>2, <1>3, LateKeeps
    <2>2. j # k
      BY <1>3, <2>1, StartedFacts
    <2>3. f[j] = loads[j]
      BY <1>3, <2>2
    <2>4. /\ Late(f)[j].at = f[j].at /\ Late(f)[j].id = f[j].id
          /\ Late(f)[j].rca = f[j].rca /\ Late(f)[j].late
      <3> HIDE DEF f
      <3>1. QED
        BY <1>3, <2>1, LateKeeps
    <2>5. QED
      <3> HIDE DEF f
      <3>1. QED
        BY <1>2, <2>2, <2>3, <2>4
  <1>5. OnFirst'
    BY <1>2, <1>4, StartedFacts DEF FreshInv, OnFirst
  <1>6. Told'
    BY <1>2, <1>4, StartedFacts DEF FreshInv, Told
  <1>7. Explained'
    BY <1>2, <1>4, StartedFacts, FreshFacts DEF FreshInv, Explained
  <1>8. workItem'.id = l.id /\ workItem'.stage = l.stage /\ workItem'.rca = l.rca
        /\ workItem'.buttons = (l.stage < 4)
    BY <1>2
  <1>9. Shown'
    <2> SUFFICES ASSUME failed = {}, ~overtaken, ~l.late, l.id = route
                 PROVE  ShownItem' /\ ShownRca'
      BY <1>2 DEF Shown
    <2>1. ShownItem'
      <3>1. workItem' # NoItem
        <4>1. (l.stage < 4) \in BOOLEAN
          OBVIOUS
        <4>2. workItem' \in Views
          BY <1>1, <1>2, <4>1, ClosedIs4 DEF Views
        <4>3. QED
          BY <4>2, IncidentsAssumption DEF IncidentsAssumption
      <3>2. acked[l.id] <= l.stage
        BY <1>1 DEF FreshInv, Told
      <3>3. QED
        BY <1>2, <1>8, <3>1, <3>2 DEF ShownItem
    <2>2. ShownRca'
      <3> SUFFICES ASSUME rcaSuccess, ~jumped, loads'["rca"].at = "none"
                   PROVE  l.rca
        BY <1>2, <1>4, <1>8, StartedFacts DEF ShownRca
      <3>1. CASE k = "rca"
        BY <1>1, <3>1 DEF FreshInv, Explained
      <3>2. CASE k # "rca"
        <4>1. loads["rca"].at = "none"
          <5>1. f["rca"] = loads["rca"]
            BY <1>3, <3>2, FreshFacts
          <5>2. loads'["rca"].at = f["rca"].at
            BY <1>2, <1>3, <5>1, FreshFacts, LateKeeps, StartedFacts
          <5>3. QED
            BY <5>1, <5>2
        <4>2. QED
          BY <1>1, <4>1 DEF FreshInv, Shown, ShownRca
      <3>3. QED
        BY <3>1, <3>2
    <2>3. QED
      BY <2>1, <2>2
  <1>10. QED
    BY <1>5, <1>6, <1>7, <1>9 DEF FreshInv

LEMMA LoadFailsFresh ==
    ASSUME PageInv, FreshInv, NEW k \in Loads, LoadFails(k) PROVE FreshInv'
  <1>1. /\ failed' = failed \cup {k}
        /\ UNCHANGED <<stage, explained, patch, acked, jumped>>
    BY DEF LoadFails, serverVars
  <1>2. \A j \in Loads : loads'[j] = IF j = k THEN NoLoad ELSE loads[j]
    BY DEF LoadFails, PageInv, Types
  <1>3. OnFirst'
    BY <1>1, <1>2, StartedFacts DEF FreshInv, OnFirst
  <1>4. Told'
    BY <1>1, <1>2, StartedFacts DEF FreshInv, Told
  <1>5. Explained'
    BY <1>1, <1>2, StartedFacts, FreshFacts DEF FreshInv, Explained
  <1>6. QED
    BY <1>1, <1>3, <1>4, <1>5 DEF FreshInv, Shown

\* The answer of a PATCH is shown, and what it lacks is on its way.
LEMMA TransitionedFresh ==
    ASSUME PageInv, FreshInv, Transitioned PROVE FreshInv'
  <1>1. /\ patch.at = "moved" /\ patch.id \in Incidents /\ patch.to \in 1..4
        /\ patch.to <= stage[patch.id]
    BY NoCallFacts DEF Transitioned, PageInv, Types, Answers
  <1>2. /\ patch' = NoCall
        /\ workItem' = [id |-> patch.id, stage |-> patch.to, rca |-> FALSE, buttons |-> FALSE]
        /\ overtaken' = (overtaken \/ patch.id # route)
        /\ acked' = [acked EXCEPT ![patch.id] = patch.to]
        /\ loads' = [Late(loads) EXCEPT !["transition"] = Started(patch.id)]
        /\ UNCHANGED <<stage, explained, route, rcaSuccess, failed, jumped>>
    BY DEF Transitioned, Show, Reload, serverVars
  <1>3. loads \in [Loads -> LoadStates] /\ Late(loads) \in [Loads -> LoadStates]
    BY LateFacts DEF PageInv, Types, Answers
  <1>4. \A j \in Loads :
           \/ j = "transition" /\ loads'[j] = Started(patch.id)
           \/ j # "transition" /\ loads'[j] = NoLoad
           \/ /\ j # "transition"
              /\ loads'[j].at = loads[j].at /\ loads'[j].id = loads[j].id
              /\ loads'[j].rca = loads[j].rca /\ loads'[j].late
    <2> SUFFICES ASSUME NEW j \in Loads, j # "transition", loads'[j] # NoLoad
                 PROVE  /\ loads'[j].at = loads[j].at /\ loads'[j].id = loads[j].id
                        /\ loads'[j].rca = loads[j].rca /\ loads'[j].late
      BY <1>2, <1>3
    <2>1. loads'[j] = Late(loads)[j]
      BY <1>2, <1>3
    <2>2. QED
      BY <1>3, <2>1, LateKeeps
  <1>5. loads'["transition"] = Started(patch.id) /\ "rca" \in Loads
    BY <1>2, <1>3, FreshFacts
  <1>6. OnFirst'
    BY <1>2, <1>4, StartedFacts, NoCallFacts DEF FreshInv, OnFirst
  <1>7. Told'
    <2>1. patch.to \in 0..4
      BY <1>1, SMT
    <2>2. acked' \in [Incidents -> 0..4]
      BY <1>2, <2>1 DEF FreshInv, Told
    <2>3. \A i \in Incidents : acked'[i] <= stage'[i]
      BY <1>1, <1>2 DEF FreshInv, Told
    <2>4. \A j \in Loads : loads'[j].at \in {"rca", "reply"} => loads'[j].late
      BY <1>4, StartedFacts
    <2>5. QED
      BY <2>2, <2>3, <2>4 DEF Told
  <1>8. Explained'
    <2>1. "rca" # "transition"
      OBVIOUS
    <2>2. QED
      BY <1>2, <1>4, <1>5, <2>1, StartedFacts DEF FreshInv, Explained
  <1>9. Shown'
    <2> SUFFICES ASSUME failed = {}, ~overtaken, patch.id = route
                 PROVE  ShownItem' /\ ShownRca'
      BY <1>2 DEF Shown
    <2>1. workItem'.id = patch.id /\ workItem'.stage = patch.to
      BY <1>2
    <2>2. loads'["transition"].at # "none"
      BY <1>5, StartedFacts
    <2>3. ShownItem'
      <3>1. acked'[patch.id] <= patch.to
        BY <1>1, <1>2, SMT DEF FreshInv, Told
      <3>2. workItem' # NoItem
        <4>1. workItem' \in Views
          BY <1>1, <1>2, ClosedIs4 DEF Views
        <4>2. QED
          BY <4>1, IncidentsAssumption DEF IncidentsAssumption
      <3>3. QED
        BY <1>2, <2>1, <2>2, <3>1, <3>2 DEF ShownItem
    <2>4. ShownRca'
      BY <1>4, <2>2, StartedFacts DEF ShownRca
    <2>5. QED
      BY <2>3, <2>4
  <1>10. QED
    BY <1>6, <1>7, <1>8, <1>9 DEF FreshInv

\* An RCA was stored, and the load that shows it starts.
LEMMA SubmittedFresh ==
    ASSUME PageInv, FreshInv, Submitted PROVE FreshInv'
  <1>1. /\ post.id \in Incidents /\ explained[post.id]
        /\ ~jumped => post.id = First
    BY DEF Submitted, PageInv, Types, Answers
  <1>2. UNCHANGED <<stage, explained, route, workItem, patch, failed, overtaken, acked, jumped>>
    BY DEF Submitted, serverVars, historyVars
  <1>3. \A j \in Loads : loads'[j] = IF j = "rca" THEN Started(post.id) ELSE loads[j]
    BY DEF Submitted, PageInv, Types
  <1>4. loads'["rca"].at = "item" /\ loads'["rca"].id = post.id
    BY <1>3, StartedFacts, FreshFacts
  <1>5. OnFirst'
    BY <1>1, <1>2, <1>3, StartedFacts DEF FreshInv, OnFirst
  <1>6. Told'
    BY <1>2, <1>3, StartedFacts DEF FreshInv, Told
  <1>7. Explained'
    BY <1>1, <1>2, <1>4 DEF Explained
  <1>8. Shown'
    BY <1>2, <1>3, <1>4, FreshFacts DEF FreshInv, Shown, ShownItem, ShownRca
  <1>9. QED
    BY <1>5, <1>6, <1>7, <1>8 DEF FreshInv

\* A jump loads the incident it jumps to.
LEMMA JumpFresh ==
    ASSUME PageInv, FreshInv, Jump PROVE FreshInv'
  <1>1. /\ jumped' = TRUE /\ route' \in Incidents
        /\ UNCHANGED <<stage, explained, workItem, failed, overtaken, acked>>
    BY DEF Jump, serverVars
  <1>2. \A j \in Loads : loads'[j] = IF j = "jump" THEN Started(route') ELSE loads[j]
    BY DEF Jump, PageInv, Types
  <1>3. loads'["jump"].at = "item"
    BY <1>2, StartedFacts, FreshFacts
  <1>4. OnFirst' /\ ShownRca'
    BY <1>1 DEF OnFirst, ShownRca
  <1>5. Told'
    BY <1>1, <1>2, StartedFacts DEF FreshInv, Told
  <1>6. Explained'
    BY <1>1, <1>2, FreshFacts DEF FreshInv, Explained
  <1>7. Shown'
    BY <1>1, <1>2, <1>3, <1>4, FreshFacts DEF FreshInv, Shown, ShownItem
  <1>8. QED
    BY <1>4, <1>5, <1>6, <1>7 DEF FreshInv

LEMMA NextFresh == PageInv /\ FreshInv /\ [Next]_vars => FreshInv'
  <1> SUFFICES ASSUME PageInv, FreshInv, [Next]_vars PROVE FreshInv'
    OBVIOUS
  <1>0. PageInv'
    BY NextPageInv
  <1>1. ASSUME NEW k \in Loads, LoadStep(k) \/ LoadFails(k) PROVE FreshInv'
    BY <1>1, ServerReadsFresh, LoadedFresh, LoadFailsFresh DEF LoadStep
  <1>2. CASE UNCHANGED vars
    BY <1>2 DEF vars, serverVars, buttonVars, historyVars, FreshInv, OnFirst, Told, Explained,
                Shown, ShownItem, ShownRca
  <1>3. QED
    BY <1>0, <1>1, <1>2, CallsFresh, TransitionedFresh, SubmittedFresh, JumpFresh DEF Next

\* A page at rest after which nothing failed and nothing was overtaken shows the incident
\* of its route, no earlier than the page was told, with its buttons and a stored RCA.
THEOREM QuietCorrect == Spec => []QuietPageFresh
  <1>1. PageInv /\ FreshInv => QuietPageFresh
    <2> SUFFICES ASSUME PageInv, FreshInv, Quiet, failed = {}, ~overtaken
                 PROVE  /\ workItem # NoItem
                        /\ workItem.id = route
                        /\ workItem.stage >= acked[route]
                        /\ workItem.buttons <=> workItem.stage < Closed
                        /\ rcaSuccess /\ ~jumped => workItem.rca
      BY DEF QuietPageFresh
    <2>1. \A k \in Loads : loads[k].at = "none"
      BY DEF Quiet
    <2>2. ShownItem /\ ShownRca
      BY DEF FreshInv, Shown
    <2>3. /\ workItem # NoItem /\ workItem.id = route
          /\ acked[route] <= workItem.stage
          /\ workItem.buttons <=> workItem.stage < 4
          /\ rcaSuccess /\ ~jumped => workItem.rca
      BY <2>1, <2>2, FreshFacts DEF ShownItem, ShownRca
    <2>4. workItem.stage \in 1..4 /\ acked[route] \in 0..4
      BY <2>3 DEF PageInv, Types, FreshInv, Told
    <2>5. QED
      BY <2>3, <2>4, ClosedIs4, SMT
  <1>2. QED
    BY <1>1, InitPageInv, NextPageInv, InitFresh, NextFresh, PTL DEF Spec
=============================================================================
