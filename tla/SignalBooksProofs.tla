-------------------------- MODULE SignalBooksProofs --------------------------
(***************************************************************************)
(* Theorems about what SignalPipeline adds up: the metrics counter, and    *)
(* the books of items, rows and alerts as long as nothing has failed.      *)
(***************************************************************************)
EXTENDS SignalPipelineProofs

-----------------------------------------------------------------------------
(* The metrics counter.                                                    *)

AfterIncr == {"claim", "create", "alert", "setalert", "await", "read", "refresh", "record", "patch",
              "mark", "return"}

\* The signals that are known to have been counted: by the run under way, by one that
\* marked the job, or by one that completed it.
Metered == {s \in Signals : job[s] = "completed" \/ processed[s] \/ pc[s] \in AfterIncr}

MeteredInv == Cardinality(Metered) <= signalCounter

\* Only the INCR makes a signal known to be counted.
LEMMA MeteredSteps ==
    ASSUME TypeInv, [Next]_vars
    PROVE  \/ Metered' \subseteq Metered /\ signalCounter' = signalCounter
           \/ \E s \in Signals : /\ Metered' \subseteq Metered \cup {s}
                                 /\ signalCounter' = signalCounter + 1
  <1> USE DEF TypeInv, TypeOK, Labels, Metered, AfterIncr, queueVars, handlerVars, redisVars,
          pgVars, alertVars
  <1>1. ASSUME NEW s \in Signals, IncrementSignalCounter(s)
        PROVE  Metered' \subseteq Metered \cup {s} /\ signalCounter' = signalCounter + 1
    BY <1>1 DEF IncrementSignalCounter, Goto
  <1>2. ASSUME NEW s \in Signals,
               \/ Start(s) \/ IsJobProcessed(s) \/ PersistSignal(s) \/ CallFails(s)
               \/ ExpireProcessed(s)
        PROVE  Metered' \subseteq Metered /\ signalCounter' = signalCounter
    BY <1>2 DEF Start, IsJobProcessed, Complete, EndRun, Goto, PersistSignal, CallFails,
       FailAttempt, ExpireProcessed
  <1>3. ASSUME NEW s \in Signals,
               \/ ClaimDebounceSlot(s) \/ CreateWorkItem(s) \/ ReadAlertSlot(s)
               \/ ClaimAlertSlot(s) \/ AlertSettles(s) \/ AlertTimesOut(s) \/ UpdateSignalWorkItemId(s)
               \/ MarkJobProcessed(s) \/ Return(s)
        PROVE  Metered' \subseteq Metered /\ signalCounter' = signalCounter
    BY <1>3 DEF ClaimDebounceSlot, CreateWorkItem, ReadAlertSlot, ClaimAlertSlot,
       AlertSettles, AlertTimesOut, UpdateSignalWorkItemId, MarkJobProcessed, Return, Complete, EndRun, Goto
  <1>4. ASSUME NEW s \in Signals,
               CheckDebounce(s) \/ RefreshDebounceIfUnchanged(s) \/ RecordSignalAndIncrement(s)
        PROVE  Metered' \subseteq Metered /\ signalCounter' = signalCounter
    BY <1>4 DEF CheckDebounce, RefreshDebounceIfUnchanged, RecordSignalAndIncrement, Defer,
       FailAttempt, EndRun, Goto
  <1>5. ASSUME NEW id \in Items, DispatchStep(id) \/ AlertRejects(id) \/ ExpireAlertSlot(id)
        PROVE  Metered' \subseteq Metered /\ signalCounter' = signalCounter
    BY <1>5 DEF DispatchStep, DispatchAlert, ConfirmAlertDelivered, AlertRejects,
       ExpireAlertSlot
  <1>6. ASSUME NEW c \in Components, ExpireSlot(c)
        PROVE  Metered' \subseteq Metered /\ signalCounter' = signalCounter
    BY <1>6 DEF ExpireSlot
  <1>7. CASE Crash
    BY <1>7 DEF Crash
  <1>8. CASE UNCHANGED vars
    BY <1>8 DEF vars
  <1>9. ASSUME NEW s \in Signals, ReplyLost(s)
        PROVE  /\ Metered' \subseteq Metered
               /\ signalCounter' \in {signalCounter, signalCounter + 1}
    BY <1>9 DEF ReplyLost, TakesEffect, FailAttempt, EndRun, Goto
  <1>10. QED
    BY <1>1, <1>2, <1>3, <1>4, <1>5, <1>6, <1>7, <1>8, <1>9 DEF Next, HandlerStep, Idle

LEMMA MeteredFinite ==
    /\ IsFiniteSet(Metered) /\ Cardinality(Metered) \in Nat
    /\ IsFiniteSet(Metered') /\ Cardinality(Metered') \in Nat
  <1>1. Metered \in SUBSET Signals /\ Metered' \in SUBSET Signals
    BY DEF Metered
  <1>2. IsFiniteSet(Metered) /\ IsFiniteSet(Metered')
    BY <1>1, SignalsAssumption, FS_Subset DEF SignalsAssumption
  <1>3. QED
    BY <1>2, FS_CardinalityType

LEMMA NextMeteredInv == TypeInv /\ MeteredInv /\ [Next]_vars => MeteredInv'
  <1> SUFFICES ASSUME TypeInv, MeteredInv, [Next]_vars
               PROVE  Cardinality(Metered') <= signalCounter'
    BY DEF MeteredInv
  <1>1. signalCounter \in Nat
    BY DEF TypeInv, TypeOK
  <1>2. CASE Metered' \subseteq Metered /\ signalCounter' = signalCounter
    <2>1. Cardinality(Metered') <= Cardinality(Metered)
      BY <1>2, MeteredFinite, FS_Subset
    <2>2. QED
      BY <1>1, <1>2, <2>1, MeteredFinite, SMT DEF MeteredInv
  <1>3. ASSUME NEW s \in Signals, Metered' \subseteq Metered \cup {s},
               signalCounter' = signalCounter + 1
        PROVE  Cardinality(Metered') <= signalCounter'
    <2>1. /\ IsFiniteSet(Metered \cup {s})
          /\ Cardinality(Metered \cup {s}) \in {Cardinality(Metered), Cardinality(Metered) + 1}
      BY MeteredFinite, FS_AddElement
    <2>2. Cardinality(Metered') <= Cardinality(Metered \cup {s})
      BY <1>3, <2>1, FS_Subset
    <2>3. QED
      BY <1>1, <1>3, <2>1, <2>2, MeteredFinite, SMT DEF MeteredInv
  <1>4. QED
    BY <1>2, <1>3, MeteredSteps

\* Whatever fails between the upsert and the INCR, is retried or lapses, the counter is
\* never below the number of completed signals.
THEOREM MeteringCorrect == Spec => []CompletedIsMetered
  <1>1. Init => MeteredInv
    <2> SUFFICES ASSUME Init PROVE MeteredInv
      OBVIOUS
    <2>1. Metered = {}
      BY DEF Init, Metered, AfterIncr
    <2>2. QED
      BY <2>1, FS_EmptySet, SMT DEF Init, MeteredInv
  <1>2. TypeInv /\ MeteredInv => CompletedIsMetered
    <2> SUFFICES ASSUME TypeInv, MeteredInv PROVE CompletedIsMetered
      OBVIOUS
    <2> DEFINE Done == {s \in Signals : job[s] = "completed"}
    <2>1. Done \in SUBSET Metered
      BY DEF Metered
    <2>2. IsFiniteSet(Done) /\ Cardinality(Done) <= Cardinality(Metered)
      BY <2>1, MeteredFinite, FS_Subset
    <2>3. Cardinality(Done) \in Nat
      BY <2>2, FS_CardinalityType
    <2>4. QED
      BY <2>2, <2>3, MeteredFinite, SMT DEF MeteredInv, CompletedIsMetered, TypeInv, TypeOK
  <1>3. QED
    BY <1>1, <1>2, NextMeteredInv, InitTypeInv, NextTypeInv, PTL DEF Spec

-----------------------------------------------------------------------------
(* Alerts that are lost.                                                   *)

\* An open item whose alert is not sent, not under way, and will not be claimed: no run is
\* at its key, or the run will find the key it set itself.
Doomed(id) ==
    /\ count[id] > 0 /\ alerts[id] = 0 /\ dispatch[id] # "running"
    /\ pc[id.signal] \in {"alert", "setalert"} /\ target[id.signal] = id =>
         pc[id.signal] = "setalert" /\ alertSlot[id] = "pending"
DoomedItems == {id \in Items : Doomed(id)}

DoomedInv == crashes = 0 => /\ IsFiniteSet(DoomedItems)
                            /\ Cardinality(DoomedItems) <= faults

\* A step of a handler that is not at the alert key opens no item and dooms none.
LEMMA AwayFromKey ==
    ASSUME NEW s \in Signals, UNCHANGED <<alerts, dispatch, alertSlot>>,
           \A id \in Items : count'[id] > 0 => count[id] > 0,
           {pc[s], pc'[s]} \cap {"alert", "setalert"} = {},
           \A x \in Signals \ {s} : UNCHANGED <<pc[x], target[x]>>
    PROVE  DoomedItems' \subseteq DoomedItems
  <1>1. \A id \in Items : id.signal \in Signals
    BY DEF Items
  <1>2. QED
    BY <1>1 DEF DoomedItems, Doomed

\* A failed call, a lost reply or a rejected dispatch dooms at most one item.
LEMMA FaultDoomsOne ==
    ASSUME TypeInv, [Next]_vars, faults' # faults
    PROVE  \E d : DoomedItems' \subseteq DoomedItems \cup {d} /\ faults' = faults + 1
  <1>0. \A id \in Items : id.signal \in Signals
    BY DEF Items
  <1> USE <1>0 DEF TypeInv, TypeOK, DoomedItems, Doomed
  <1>1. ASSUME NEW s \in Signals, CallFails(s)
        PROVE  DoomedItems' \subseteq DoomedItems \cup {target[s]} /\ faults' = faults + 1
    BY <1>1 DEF CallFails, FailAttempt, EndRun, Goto, redisVars, pgVars, alertVars
  <1>2. ASSUME NEW s \in Signals, ReplyLost(s)
        PROVE  DoomedItems' \subseteq DoomedItems \cup {target[s]} /\ faults' = faults + 1
    <2>1. /\ UNCHANGED <<count, alerts, dispatch>> /\ faults' = faults + 1
          /\ \A id \in Items \ {target[s]} : alertSlot'[id] = alertSlot[id]
      BY <1>2 DEF ReplyLost, TakesEffect, pgVars, alertVars
    <2>2. \/ UNCHANGED <<pc, target>>
          \/ /\ pc' = [pc EXCEPT ![s] = "idle"]
             /\ target' = [target EXCEPT ![s] = NoItem]
      BY <1>2 DEF ReplyLost, FailAttempt, EndRun, Goto, handlerVars
    <2>3. QED
      BY <2>1, <2>2
  <1>3. ASSUME NEW id \in Items, AlertRejects(id)
        PROVE  DoomedItems' \subseteq DoomedItems \cup {id} /\ faults' = faults + 1
    BY <1>3 DEF AlertRejects, handlerVars, pgVars
  <1>4. ASSUME NEW s \in Signals, Start(s) \/ HandlerStep(s) \/ ExpireProcessed(s)
        PROVE  UNCHANGED faults
    BY <1>4 DEF Start, HandlerStep, IsJobProcessed, PersistSignal, IncrementSignalCounter,
       ClaimDebounceSlot, CreateWorkItem, ReadAlertSlot, ClaimAlertSlot, AlertSettles,
       AlertTimesOut, CheckDebounce, RefreshDebounceIfUnchanged, RecordSignalAndIncrement,
       UpdateSignalWorkItemId, MarkJobProcessed, Return, ExpireProcessed, boundVars
  <1>5. ASSUME NEW id \in Items, DispatchStep(id) \/ ExpireAlertSlot(id)
        PROVE  UNCHANGED faults
    BY <1>5 DEF DispatchStep, DispatchAlert, ConfirmAlertDelivered, ExpireAlertSlot, boundVars
  <1>6. (Crash \/ UNCHANGED vars \/ \E c \in Components : ExpireSlot(c)) => UNCHANGED faults
    BY DEF Crash, vars, boundVars, ExpireSlot
  <1>7. QED
    BY <1>1, <1>2, <1>3, <1>4, <1>5, <1>6 DEF Next, Idle

\* Nothing else but a crash dooms an item.
LEMMA OnlyFaultsDoom ==
    ASSUME TypeInv, AlertInv, IdsAgree, [Next]_vars, faults' = faults, ~Crash
    PROVE  DoomedItems' \subseteq DoomedItems
  <1>0. /\ \A id \in Items : id.signal \in Signals
        /\ \A n \in Nat : n # n + 1
        /\ faults \in Nat
    BY BoundsAssumption, SMT DEF Items, TypeInv, TypeOK, BoundsAssumption
  <1>1. ASSUME NEW s \in Signals, CreateWorkItem(s)
        PROVE  DoomedItems' \subseteq DoomedItems
    <2>1. /\ pc[s] = "create" /\ pc' = [pc EXCEPT ![s] = "alert"] /\ target[s] \in Items
          /\ \A id \in Items \ {target[s]} : count'[id] = count[id]
          /\ target[s].signal = s
          /\ UNCHANGED <<target, alerts, dispatch, alertSlot>>
      BY <1>1 DEF CreateWorkItem, Goto, redisVars, alertVars, TypeInv, HandlerOK, IdsAgree
    <2>2. QED
      BY <1>0, <2>1 DEF DoomedItems, Doomed, TypeInv, TypeOK
  <1>2. ASSUME NEW s \in Signals, ReadAlertSlot(s) \/ ClaimAlertSlot(s)
        PROVE  DoomedItems' \subseteq DoomedItems
    <2> DEFINE t == target[s]
    <2>1. /\ t \in Items /\ t.signal = s /\ t = Candidate(s) /\ HandlerAlertOK(s)
          /\ count[t] > 0 /\ alerts[t] = 0 /\ dispatch[t] = "none"
      BY <1>2 DEF ReadAlertSlot, ClaimAlertSlot, TypeInv, HandlerOK, IdsAgree, AlertInv,
         HandlerAlertOK, BeforeAlert, Untouched
    <2>2. UNCHANGED <<count, alerts, target>>
      BY <1>2 DEF ReadAlertSlot, ClaimAlertSlot, pgVars, alertVars
    <2>3. CASE ReadAlertSlot(s)
      <3>1. /\ pc[s] = "alert" /\ alertSlot[t] = "missing" /\ pc' = [pc EXCEPT ![s] = "setalert"]
            /\ UNCHANGED <<alertSlot, dispatch>>
        BY <2>1, <2>3 DEF ReadAlertSlot, Goto, HandlerAlertOK, BeforeAlert, Untouched,
           redisVars, alertVars
      <3>2. QED
        BY <1>0, <2>1, <2>2, <3>1 DEF DoomedItems, Doomed, TypeInv, TypeOK
    <2>4. CASE ClaimAlertSlot(s) /\ AlertClaimable(t)
      <3>1. /\ pc[s] = "setalert" /\ pc' = [pc EXCEPT ![s] = "await"]
            /\ alertSlot' = [alertSlot EXCEPT ![t] = "pending"]
            /\ dispatch' = [dispatch EXCEPT ![t] = "running"]
        BY <2>4 DEF ClaimAlertSlot, Goto
      <3>2. QED
        BY <1>0, <2>1, <2>2, <3>1 DEF DoomedItems, Doomed, TypeInv, TypeOK
    <2>5. CASE ClaimAlertSlot(s) /\ ~AlertClaimable(t)
      <3>1. /\ pc[s] = "setalert" /\ pc' = [pc EXCEPT ![s] = "patch"]
            /\ alertSlot[t] = "pending" /\ UNCHANGED <<alertSlot, dispatch>>
        BY <2>1, <2>5 DEF ClaimAlertSlot, AlertClaimable, Goto, HandlerAlertOK, TypeInv, TypeOK
      <3>2. QED
        BY <1>0, <2>1, <2>2, <3>1 DEF DoomedItems, Doomed, TypeInv, TypeOK
    <2>6. QED
      BY <1>2, <2>3, <2>4, <2>5
  <1>3. ASSUME NEW s \in Signals, RecordSignalAndIncrement(s)
        PROVE  DoomedItems' \subseteq DoomedItems
    <2>1. /\ pc[s] = "record" /\ pc'[s] \notin {"alert", "setalert"} /\ target[s] \in Items
          /\ \A x \in Signals \ {s} : UNCHANGED <<pc[x], target[x]>>
          /\ UNCHANGED <<alerts, dispatch, alertSlot>>
      BY <1>3 DEF RecordSignalAndIncrement, FailAttempt, EndRun, Goto, redisVars, alertVars,
         TypeInv, TypeOK, HandlerOK
    <2>2. \A id \in Items : count'[id] > 0 => count[id] > 0
      BY <1>3, <2>1, SMT DEF RecordSignalAndIncrement, ViolatesForeignKey, Increment, IsNew,
         pgVars, TypeInv, TypeOK
    <2>3. QED
      BY <2>1, <2>2, AwayFromKey
  <1>4. ASSUME NEW s \in Signals,
               \/ Start(s) \/ IsJobProcessed(s) \/ PersistSignal(s)
               \/ IncrementSignalCounter(s) \/ ClaimDebounceSlot(s)
        PROVE  DoomedItems' \subseteq DoomedItems
    <2>1. /\ {pc[s], pc'[s]} \cap {"alert", "setalert"} = {}
          /\ \A x \in Signals \ {s} : UNCHANGED <<pc[x], target[x]>>
          /\ UNCHANGED <<count, alerts, dispatch, alertSlot>>
      BY <1>4 DEF Start, IsJobProcessed, PersistSignal, IncrementSignalCounter,
         ClaimDebounceSlot, Complete, EndRun, Goto, redisVars, pgVars, alertVars, TypeInv,
         TypeOK, HandlerOK
    <2>2. QED
      BY <2>1, AwayFromKey
  <1>5. ASSUME NEW s \in Signals,
               \/ AlertSettles(s) \/ AlertTimesOut(s) \/ CheckDebounce(s)
               \/ RefreshDebounceIfUnchanged(s) \/ UpdateSignalWorkItemId(s)
               \/ MarkJobProcessed(s) \/ Return(s)
        PROVE  DoomedItems' \subseteq DoomedItems
    <2>1. /\ {pc[s], pc'[s]} \cap {"alert", "setalert"} = {}
          /\ \A x \in Signals \ {s} : UNCHANGED <<pc[x], target[x]>>
          /\ UNCHANGED <<count, alerts, dispatch, alertSlot>>
      BY <1>5 DEF AlertSettles, AlertTimesOut, CheckDebounce, RefreshDebounceIfUnchanged,
         UpdateSignalWorkItemId, MarkJobProcessed, Return, Complete, Defer, EndRun, Goto,
         redisVars, pgVars, alertVars, TypeInv, TypeOK
    <2>2. QED
      BY <2>1, AwayFromKey
  <1>6. ASSUME NEW d \in Items, DispatchStep(d) \/ ExpireAlertSlot(d)
        PROVE  DoomedItems' \subseteq DoomedItems
    <2>1. UNCHANGED <<pc, target, count>>
      BY <1>6 DEF DispatchStep, DispatchAlert, ConfirmAlertDelivered, ExpireAlertSlot,
         handlerVars, pgVars
    <2>2. CASE DispatchAlert(d)
      <3>1. /\ \A id \in Items \ {d} : alerts'[id] = alerts[id] /\ dispatch'[id] = dispatch[id]
            /\ alerts'[d] = alerts[d] + 1 /\ alertSlot' = alertSlot /\ alerts[d] \in Nat
        BY <2>2 DEF DispatchAlert, redisVars, TypeInv, TypeOK
      <3>2. alerts'[d] # 0
        BY <3>1, SMT
      <3>3. QED
        BY <2>1, <3>1, <3>2 DEF DoomedItems, Doomed
    <2>3. CASE ConfirmAlertDelivered(d)
      <3>1. /\ dispatch[d] = "sent" /\ alerts' = alerts
            /\ \A id \in Items \ {d} : alertSlot'[id] = alertSlot[id] /\ dispatch'[id] = dispatch[id]
        BY <2>3 DEF ConfirmAlertDelivered, TypeInv, TypeOK
      <3>2. ~(pc[d.signal] \in {"alert", "setalert"} /\ target[d.signal] = d)
        BY <1>0, <3>1 DEF AlertInv, HandlerAlertOK, BeforeAlert, Untouched
      <3>3. QED
        BY <2>1, <3>1, <3>2 DEF DoomedItems, Doomed
    <2>4. CASE ExpireAlertSlot(d)
      <3>1. /\ UNCHANGED <<alerts, dispatch>>
            /\ alertSlot' = [alertSlot EXCEPT ![d] = "missing"]
        BY <2>4 DEF ExpireAlertSlot, alertVars
      <3>2. QED
        BY <2>1, <3>1 DEF DoomedItems, Doomed, TypeInv, TypeOK
    <2>5. QED
      BY <1>6, <2>2, <2>3, <2>4 DEF DispatchStep
  <1>7. ASSUME \/ UNCHANGED vars
               \/ \E c \in Components : ExpireSlot(c)
               \/ \E s \in Signals : ExpireProcessed(s)
        PROVE  DoomedItems' \subseteq DoomedItems
    <2>1. UNCHANGED <<pc, target, count, alerts, dispatch, alertSlot>>
      BY <1>7 DEF vars, ExpireSlot, ExpireProcessed, handlerVars, redisVars, pgVars, alertVars
    <2>2. QED
      BY <2>1 DEF DoomedItems, Doomed
  <1>8. /\ \A s \in Signals : ~CallFails(s) /\ ~ReplyLost(s)
        /\ \A id \in Items : ~AlertRejects(id)
    BY <1>0 DEF CallFails, ReplyLost, AlertRejects
  <1>9. QED
    BY <1>1, <1>2, <1>3, <1>4, <1>5, <1>6, <1>7, <1>8 DEF Next, HandlerStep, Idle

\* As many items are doomed as calls failed, at most, until a crash.
LEMMA NextDoomedInv ==
    TypeInv /\ AlertInv /\ IdsAgree /\ DoomedInv /\ [Next]_vars => DoomedInv'
  <1> SUFFICES ASSUME TypeInv, AlertInv, IdsAgree, DoomedInv, [Next]_vars, crashes' = 0
               PROVE  IsFiniteSet(DoomedItems') /\ Cardinality(DoomedItems') <= faults'
    BY DEF DoomedInv
  <1>1. faults \in Nat /\ faults' \in Nat /\ crashes \in Nat
    BY NextTypeInv, BoundsAssumption, SMT DEF TypeInv, TypeOK, BoundsAssumption
  <1>2. ~Crash
    <2>1. \A n \in Nat : n + 1 # 0
      BY SMT
    <2>2. QED
      BY <1>1, <2>1 DEF Crash
  <1>3. crashes' = crashes
    <2>1. ASSUME NEW s \in Signals, Start(s) \/ HandlerStep(s) \/ ExpireProcessed(s)
          PROVE  UNCHANGED crashes
      BY <2>1 DEF Start, HandlerStep, IsJobProcessed, PersistSignal, IncrementSignalCounter,
         ClaimDebounceSlot, CreateWorkItem, ReadAlertSlot, ClaimAlertSlot, AlertSettles,
         AlertTimesOut, CheckDebounce, RefreshDebounceIfUnchanged, RecordSignalAndIncrement,
         UpdateSignalWorkItemId, MarkJobProcessed, Return, ExpireProcessed, boundVars
    <2>2. ASSUME NEW s \in Signals, CallFails(s) \/ ReplyLost(s) PROVE UNCHANGED crashes
      BY <2>2 DEF CallFails, ReplyLost
    <2>3. ASSUME NEW id \in Items, DispatchStep(id) \/ AlertRejects(id) \/ ExpireAlertSlot(id)
          PROVE  UNCHANGED crashes
      BY <2>3 DEF DispatchStep, DispatchAlert, ConfirmAlertDelivered, AlertRejects,
         ExpireAlertSlot, boundVars
    <2>4. (UNCHANGED vars \/ \E c \in Components : ExpireSlot(c)) => UNCHANGED crashes
      BY DEF vars, boundVars, ExpireSlot
    <2>5. QED
      BY <1>2, <2>1, <2>2, <2>3, <2>4 DEF Next, Idle
  <1>4. /\ IsFiniteSet(DoomedItems) /\ Cardinality(DoomedItems) <= faults
        /\ Cardinality(DoomedItems) \in Nat
    BY <1>3, FS_CardinalityType DEF DoomedInv
  <1>5. CASE faults' = faults
    <2>1. DoomedItems' \subseteq DoomedItems
      BY <1>2, <1>5, OnlyFaultsDoom
    <2>2. /\ IsFiniteSet(DoomedItems') /\ Cardinality(DoomedItems') <= Cardinality(DoomedItems)
          /\ Cardinality(DoomedItems') \in Nat
      BY <1>4, <2>1, FS_Subset, FS_CardinalityType
    <2>3. QED
      BY <1>1, <1>4, <1>5, <2>2, SMT
  <1>6. CASE faults' # faults
    <2>1. PICK d : DoomedItems' \subseteq DoomedItems \cup {d} /\ faults' = faults + 1
      BY <1>6, FaultDoomsOne
    <2>2. /\ IsFiniteSet(DoomedItems \cup {d})
          /\ Cardinality(DoomedItems \cup {d}) \in
               {Cardinality(DoomedItems), Cardinality(DoomedItems) + 1}
      BY <1>4, FS_AddElement
    <2>3. /\ IsFiniteSet(DoomedItems')
          /\ Cardinality(DoomedItems') <= Cardinality(DoomedItems \cup {d})
          /\ Cardinality(DoomedItems') \in Nat
      BY <2>1, <2>2, FS_Subset, FS_CardinalityType
    <2>4. QED
      BY <1>1, <1>4, <2>1, <2>2, <2>3, SMT
  <1>7. QED
    BY <1>5, <1>6

\* ... in every reachable state.
LEMMA DoomedInvariant == Spec => [](TypeInv /\ AlertInv /\ IdsAgree /\ DoomedInv)
  <1>1. Init => DoomedInv
    <2> SUFFICES ASSUME Init PROVE DoomedInv
      OBVIOUS
    <2>1. DoomedItems = {}
      BY SMT DEF Init, DoomedItems, Doomed
    <2>2. QED
      BY <2>1, FS_EmptySet, SMT DEF Init, DoomedInv
  <1>2. QED
    BY <1>1, NextDoomedInv, InitTypeInv, NextTypeInv, InitAlertInv, NextAlertInv, InitIdsAgree,
       NextIdsAgree, PTL DEF Spec

\* Without a crash, every alert that is lost was lost by a failed call or a lost reply of
\* its own: not by the timer, a lapse, a deferral or a retry.
THEOREM AlertLossCorrect == Spec => []AlertLossBounded
  <1>1. TypeInv /\ DoomedInv => AlertLossBounded
    <2> SUFFICES ASSUME TypeInv, DoomedInv, crashes = 0 PROVE Cardinality(Silent) <= faults
      BY DEF AlertLossBounded
    <2>1. Silent \subseteq DoomedItems
      BY DEF Silent, Opened, DoomedItems, Doomed, Items
    <2>2. IsFiniteSet(DoomedItems) /\ Cardinality(DoomedItems) <= faults
      BY DEF DoomedInv
    <2>3. /\ Cardinality(Silent) <= Cardinality(DoomedItems)
          /\ Cardinality(Silent) \in Nat /\ Cardinality(DoomedItems) \in Nat
      BY <2>1, <2>2, FS_Subset, FS_CardinalityType
    <2>4. faults \in Nat
      BY BoundsAssumption, SMT DEF BoundsAssumption, TypeInv, TypeOK
    <2>5. QED
      BY <2>2, <2>3, <2>4, SMT
  <1>2. QED
    BY <1>1, DoomedInvariant, PTL

-----------------------------------------------------------------------------
(* The books, as long as nothing has failed.                               *)

Untroubled == faults = 0 /\ crashes = 0

\* The alert of an item is about to be claimed, under way or delivered.
AlertOnItsWay(id) ==
    \/ pc[id.signal] \in {"alert", "setalert"} /\ target[id.signal] = id
    \/ dispatch[id] = "running" /\ alerts[id] = 0
    \/ dispatch[id] \in {"sent", "delivered"} /\ alerts[id] = 1

\* A handler that has written its row goes on to the end, so that it never comes back with
\* another id: the opener of an item is counted on that item, and its alert is on its way.
BooksInv ==
    /\ \A s \in Signals : ledger[s] # NoItem =>
         pc[s] \in {"alert", "setalert", "await", "patch", "mark", "return"} \/ job[s] = "completed"
    /\ \A id \in Items : count[id] > 0 => ledger[id.signal] = id /\ AlertOnItsWay(id)

LEMMA InitBooksInv == Init => BooksInv
  BY SMT DEF Init, BooksInv

\* createWorkItem: the signal had no row, so the new item gets the first one.
LEMMA CreateBooksInv ==
    ASSUME TypeInv, IdsAgree, BooksInv, NEW s \in Signals, CreateWorkItem(s)
    PROVE  BooksInv'
  <1> DEFINE t == target[s]
  <1>1. /\ pc[s] = "create" /\ job[s] = "active" /\ t \in Items /\ t.signal = s
        /\ ledger[s] = NoItem
    BY DEF CreateWorkItem, TypeInv, HandlerOK, IdsAgree, BooksInv
  <1>2. /\ ledger' = [ledger EXCEPT ![s] = t]
        /\ count' = [count EXCEPT ![t] = IF @ = 0 THEN 1 ELSE @]
        /\ pc' = [pc EXCEPT ![s] = "alert"]
        /\ UNCHANGED <<job, target, dispatch, alerts>>
    BY <1>1 DEF CreateWorkItem, IsNew, Goto, queueVars, alertVars
  <1>3. \A id \in Items : count[id] > 0 => id.signal # s
    BY <1>1, NoItemAssumption DEF BooksInv
  <1>4. \A x \in Signals : ledger'[x] # NoItem =>
          pc'[x] \in {"alert", "setalert", "await", "patch", "mark", "return"} \/ job'[x] = "completed"
    BY <1>2 DEF BooksInv, TypeInv, TypeOK
  <1>5. ASSUME NEW id \in Items, count'[id] > 0
        PROVE  ledger'[id.signal] = id /\ AlertOnItsWay(id)'
    <2>1. id.signal \in Signals
      BY DEF Items
    <2>2. CASE id = t
      BY <1>1, <1>2, <2>2 DEF AlertOnItsWay, TypeInv, TypeOK
    <2>3. CASE id # t
      <3>1. count[id] > 0
        BY <1>2, <1>5, <2>3 DEF TypeInv, TypeOK
      <3>2. id.signal # s
        BY <1>3, <3>1
      <3>3. QED
        BY <1>2, <2>1, <3>1, <3>2 DEF BooksInv, AlertOnItsWay, TypeInv, TypeOK
    <2>4. QED
      BY <2>2, <2>3
  <1>6. QED
    BY <1>4, <1>5 DEF BooksInv

\* recordSignalAndIncrement: the signal has no row, so it has opened no item either.
LEMMA RecordBooksInv ==
    ASSUME TypeInv, BooksInv, NEW s \in Signals, RecordSignalAndIncrement(s)
    PROVE  BooksInv'
  <1> DEFINE t == target[s]
  <1>1. /\ pc[s] = "record" /\ job[s] = "active" /\ t \in Items /\ ledger[s] = NoItem
    BY DEF RecordSignalAndIncrement, TypeInv, HandlerOK, BooksInv
  <1>2. \A id \in Items : count[id] > 0 => id.signal # s
    BY <1>1, NoItemAssumption DEF BooksInv
  <1>3. CASE UNCHANGED pgVars
    <2>1. /\ UNCHANGED <<ledger, count, dispatch, alerts>>
          /\ \A x \in Signals \ {s} : UNCHANGED <<pc[x], job[x], target[x]>>
      BY <1>3 DEF RecordSignalAndIncrement, FailAttempt, EndRun, Goto, queueVars, alertVars,
         pgVars, TypeInv, TypeOK
    <2>2. \A id \in Items : id.signal \in Signals
      BY DEF Items
    <2>3. QED
      BY <1>1, <1>2, <2>1, <2>2 DEF BooksInv, AlertOnItsWay
  <1>4. CASE ~ViolatesForeignKey(s)
    <2>1. /\ ledger' = [ledger EXCEPT ![s] = t]
          /\ count' = [count EXCEPT ![t] = @ + 1]
          /\ pc' = [pc EXCEPT ![s] = "patch"]
          /\ UNCHANGED <<job, target, dispatch, alerts>>
      BY <1>1, <1>4 DEF RecordSignalAndIncrement, IsNew, Increment, Goto, queueVars, alertVars
    <2>2. count[t] > 0
      BY <1>1, <1>4, SMT DEF ViolatesForeignKey, IsNew, TypeInv, TypeOK
    <2>3. \A x \in Signals : ledger'[x] # NoItem =>
            pc'[x] \in {"alert", "setalert", "await", "patch", "mark", "return"} \/ job'[x] = "completed"
      BY <2>1 DEF BooksInv, TypeInv, TypeOK
    <2>4. ASSUME NEW id \in Items, count'[id] > 0
          PROVE  ledger'[id.signal] = id /\ AlertOnItsWay(id)'
      <3>1. count[id] > 0
        BY <2>1, <2>2, <2>4 DEF TypeInv, TypeOK
      <3>2. id.signal \in Signals /\ id.signal # s
        BY <1>2, <3>1 DEF Items
      <3>3. QED
        BY <2>1, <3>1, <3>2 DEF BooksInv, AlertOnItsWay, TypeInv, TypeOK
    <2>5. QED
      BY <2>3, <2>4 DEF BooksInv
  <1>5. QED
    BY <1>3, <1>4 DEF RecordSignalAndIncrement

\* The alert key is missing, so the claim starts the dispatch.
LEMMA ClaimBooksInv ==
    ASSUME TypeInv, AlertInv, IdsAgree, DoomedInv, Untroubled, BooksInv,
           NEW s \in Signals, ClaimAlertSlot(s)
    PROVE  BooksInv'
  <1> DEFINE t == target[s]
  <1>0. DoomedItems = {}
    <2>1. /\ IsFiniteSet(DoomedItems) /\ Cardinality(DoomedItems) <= 0
          /\ Cardinality(DoomedItems) \in Nat
      BY FS_CardinalityType DEF DoomedInv, Untroubled
    <2>2. Cardinality(DoomedItems) = 0
      BY <2>1, SMT
    <2>3. QED
      BY <2>1, <2>2, FS_EmptySet
  <1>1. pc[s] = "setalert" /\ t \in Items /\ alertSlot[t] = "missing" /\ alerts[t] = 0
    <2>1. /\ pc[s] = "setalert" /\ t \in Items /\ t.signal = s /\ alerts[t] = 0
          /\ count[t] > 0 /\ dispatch[t] = "none" /\ alertSlot[t] # "delivered"
      BY DEF ClaimAlertSlot, TypeInv, HandlerOK, AlertInv, HandlerAlertOK, IdsAgree
    <2>2. ~Doomed(t)
      BY <1>0, <2>1 DEF DoomedItems
    <2>3. alertSlot[t] # "pending"
      BY <2>1, <2>2 DEF Doomed
    <2>4. QED
      BY <2>1, <2>3 DEF TypeInv, TypeOK
  <1>2. /\ dispatch' = [dispatch EXCEPT ![t] = "running"]
        /\ pc' = [pc EXCEPT ![s] = "await"]
        /\ UNCHANGED <<job, target, ledger, count, alerts>>
    BY <1>1 DEF ClaimAlertSlot, AlertClaimable, Goto, queueVars, handlerVars, pgVars
  <1>3. \A x \in Signals : ledger'[x] # NoItem =>
          pc'[x] \in {"alert", "setalert", "await", "patch", "mark", "return"} \/ job'[x] = "completed"
    BY <1>2 DEF BooksInv, TypeInv, TypeOK
  <1>4. ASSUME NEW id \in Items, count'[id] > 0
        PROVE  ledger'[id.signal] = id /\ AlertOnItsWay(id)'
    <2>1. /\ id.signal \in Signals /\ ledger[id.signal] = id /\ AlertOnItsWay(id)
      BY <1>2, <1>4 DEF BooksInv, Items
    <2>2. CASE id = t
      BY <1>1, <1>2, <2>1, <2>2 DEF AlertOnItsWay, TypeInv, TypeOK
    <2>3. CASE id # t
      BY <1>1, <1>2, <2>1, <2>3 DEF AlertOnItsWay, TypeInv, TypeOK
    <2>4. QED
      BY <2>2, <2>3
  <1>5. QED
    BY <1>3, <1>4 DEF BooksInv

\* A dispatch goes on by itself and sends its alert once.
LEMMA DispatchBooksInv ==
    ASSUME TypeInv, BooksInv, NEW d \in Items, DispatchStep(d)
    PROVE  BooksInv'
  <1>1. UNCHANGED <<pc, job, target, ledger, count>>
    BY DEF DispatchStep, DispatchAlert, ConfirmAlertDelivered, queueVars, handlerVars, pgVars
  <1>2. ASSUME NEW id \in Items, count[id] > 0 PROVE AlertOnItsWay(id)'
    <2>1. AlertOnItsWay(id) /\ alerts[id] \in Nat
      BY <1>2 DEF BooksInv, TypeInv, TypeOK
    <2>2. CASE DispatchAlert(d)
      <3>1. /\ dispatch[d] = "running" /\ dispatch' = [dispatch EXCEPT ![d] = "sent"]
            /\ alerts' = [alerts EXCEPT ![d] = @ + 1]
        BY <2>2 DEF DispatchAlert
      <3>2. CASE id = d
        BY <1>1, <2>1, <3>1, <3>2 DEF AlertOnItsWay, TypeInv, TypeOK
      <3>3. CASE id # d
        BY <1>1, <2>1, <3>1, <3>3 DEF AlertOnItsWay, TypeInv, TypeOK
      <3>4. QED
        BY <3>2, <3>3
    <2>3. CASE ConfirmAlertDelivered(d)
      <3>1. /\ dispatch[d] = "sent" /\ dispatch' = [dispatch EXCEPT ![d] = "delivered"]
            /\ alerts' = alerts
        BY <2>3 DEF ConfirmAlertDelivered
      <3>2. QED
        BY <1>1, <2>1, <3>1 DEF AlertOnItsWay, TypeInv, TypeOK
    <2>4. QED
      BY <2>2, <2>3 DEF DispatchStep
  <1>3. QED
    BY <1>1, <1>2 DEF BooksInv

\* A step of a handler that writes neither table nor alert, and does not go back once the
\* row is written.
LEMMA OtherBooksInv ==
    ASSUME TypeInv, BooksInv, UNCHANGED <<ledger, count, dispatch, alerts>>,
           NEW s \in Signals, pc[s] \notin {"alert", "setalert"},
           \A x \in Signals \ {s} : UNCHANGED <<pc[x], job[x], target[x]>>,
           ledger[s] # NoItem =>
             pc'[s] \in {"alert", "setalert", "await", "patch", "mark", "return"} \/ job'[s] = "completed"
    PROVE  BooksInv'
  <1>1. \A id \in Items : id.signal \in Signals
    BY DEF Items
  <1>2. \A id \in Items : AlertOnItsWay(id) => AlertOnItsWay(id)'
    BY <1>1 DEF AlertOnItsWay
  <1>3. QED
    BY <1>1, <1>2 DEF BooksInv

LEMMA NextBooksInv ==
    TypeInv /\ AlertInv /\ IdsAgree /\ DoomedInv /\ (Untroubled => BooksInv) /\ [Next]_vars
      => (Untroubled' => BooksInv')
  <1> SUFFICES ASSUME TypeInv, AlertInv, IdsAgree, DoomedInv, Untroubled => BooksInv,
                      [Next]_vars, Untroubled'
               PROVE  BooksInv'
    OBVIOUS
  <1>1. /\ \A s \in Signals : ~CallFails(s) /\ ~ReplyLost(s)
        /\ \A id \in Items : ~AlertRejects(id)
        /\ ~Crash
    <2>1. \A n \in Nat : n + 1 # 0
      BY SMT
    <2>2. faults \in Nat /\ crashes \in Nat
      BY BoundsAssumption, SMT DEF BoundsAssumption, TypeInv, TypeOK
    <2>3. QED
      BY <2>1, <2>2 DEF Untroubled, CallFails, ReplyLost, AlertRejects, Crash
  <1>2. UNCHANGED <<faults, crashes>>
    <2>1. ASSUME NEW s \in Signals, Start(s) \/ HandlerStep(s) \/ ExpireProcessed(s)
          PROVE  UNCHANGED <<faults, crashes>>
      BY <2>1 DEF Start, HandlerStep, IsJobProcessed, PersistSignal, IncrementSignalCounter,
         ClaimDebounceSlot, CreateWorkItem, ReadAlertSlot, ClaimAlertSlot, AlertSettles,
         AlertTimesOut, CheckDebounce, RefreshDebounceIfUnchanged, RecordSignalAndIncrement,
         UpdateSignalWorkItemId, MarkJobProcessed, Return, ExpireProcessed, boundVars
    <2>2. ASSUME NEW id \in Items, DispatchStep(id) \/ ExpireAlertSlot(id)
          PROVE  UNCHANGED <<faults, crashes>>
      BY <2>2 DEF DispatchStep, DispatchAlert, ConfirmAlertDelivered, ExpireAlertSlot, boundVars
    <2>3. ASSUME NEW c \in Components, ExpireSlot(c) PROVE UNCHANGED <<faults, crashes>>
      BY <2>3 DEF ExpireSlot
    <2>4. CASE UNCHANGED vars
      BY <2>4 DEF vars, boundVars
    <2>5. QED
      BY <1>1, <2>1, <2>2, <2>3, <2>4 DEF Next, Idle
  <1>3. BooksInv /\ Untroubled
    BY <1>2 DEF Untroubled
  <1> USE <1>3
  <1>4. ASSUME NEW s \in Signals,
               CreateWorkItem(s) \/ RecordSignalAndIncrement(s) \/ ClaimAlertSlot(s)
        PROVE  BooksInv'
    BY <1>4, CreateBooksInv, RecordBooksInv, ClaimBooksInv
  <1>5. ASSUME NEW s \in Signals,
               Start(s) \/ IsJobProcessed(s) \/ CheckDebounce(s)
                 \/ RefreshDebounceIfUnchanged(s)
        PROVE  BooksInv'
    <2>1. /\ pc[s] \notin {"alert", "setalert", "await", "patch", "mark", "return"}
          /\ job[s] # "completed"
      BY <1>5 DEF Start, IsJobProcessed, CheckDebounce, RefreshDebounceIfUnchanged, TypeInv,
         HandlerOK
    <2>2. ledger[s] = NoItem
      BY <2>1 DEF BooksInv
    <2>3. UNCHANGED <<ledger, count, dispatch, alerts>>
      BY <1>5 DEF Start, IsJobProcessed, CheckDebounce, RefreshDebounceIfUnchanged, pgVars,
         alertVars
    <2>4. \A x \in Signals \ {s} : UNCHANGED <<pc[x], job[x], target[x]>>
      BY <1>5 DEF Start, IsJobProcessed, CheckDebounce, RefreshDebounceIfUnchanged, Complete,
         Defer, EndRun, Goto, queueVars, TypeInv, TypeOK
    <2>5. QED
      BY <2>1, <2>2, <2>3, <2>4, OtherBooksInv
  <1>6. ASSUME NEW s \in Signals,
               PersistSignal(s) \/ IncrementSignalCounter(s) \/ ClaimDebounceSlot(s)
        PROVE  BooksInv'
    <2>1. pc[s] \in {"persist", "incr", "claim"} /\ job[s] = "active"
      BY <1>6 DEF PersistSignal, IncrementSignalCounter, ClaimDebounceSlot, TypeInv, HandlerOK
    <2>2. ledger[s] = NoItem
      BY <2>1 DEF BooksInv
    <2>3. UNCHANGED <<ledger, count, dispatch, alerts>>
      BY <1>6 DEF PersistSignal, IncrementSignalCounter, ClaimDebounceSlot, pgVars, alertVars
    <2>4. \A x \in Signals \ {s} : UNCHANGED <<pc[x], job[x], target[x]>>
      BY <1>6 DEF PersistSignal, IncrementSignalCounter, ClaimDebounceSlot, Goto, queueVars,
         TypeInv, TypeOK
    <2>5. QED
      BY <2>1, <2>2, <2>3, <2>4, OtherBooksInv
  <1>7. ASSUME NEW s \in Signals,
               AlertSettles(s) \/ AlertTimesOut(s) \/ UpdateSignalWorkItemId(s)
                 \/ MarkJobProcessed(s) \/ Return(s)
        PROVE  BooksInv'
    <2>1. pc[s] \in {"await", "patch", "mark", "return"}
      BY <1>7 DEF AlertSettles, AlertTimesOut, UpdateSignalWorkItemId, MarkJobProcessed, Return
    <2>2. pc'[s] \in {"patch", "mark", "return"} \/ job'[s] = "completed"
      BY <1>7 DEF AlertSettles, AlertTimesOut, UpdateSignalWorkItemId, MarkJobProcessed,
         Return, Complete, EndRun, Goto, TypeInv, TypeOK
    <2>3. UNCHANGED <<ledger, count, dispatch, alerts>>
      BY <1>7 DEF AlertSettles, AlertTimesOut, UpdateSignalWorkItemId, MarkJobProcessed,
         Return, pgVars, alertVars
    <2>4. \A x \in Signals \ {s} : UNCHANGED <<pc[x], job[x], target[x]>>
      BY <1>7 DEF AlertSettles, AlertTimesOut, UpdateSignalWorkItemId, MarkJobProcessed,
         Return, Complete, EndRun, Goto, queueVars, TypeInv, TypeOK
    <2>5. QED
      BY <2>1, <2>2, <2>3, <2>4, OtherBooksInv
  <1>8. ASSUME NEW id \in Items, DispatchStep(id) PROVE BooksInv'
    BY <1>8, DispatchBooksInv
  <1>9. ASSUME NEW s \in Signals, ExpireProcessed(s) PROVE BooksInv'
    BY <1>9 DEF ExpireProcessed, BooksInv, AlertOnItsWay, queueVars, handlerVars, pgVars,
                alertVars
  <1>10. ASSUME NEW id \in Items, ExpireAlertSlot(id) PROVE BooksInv'
    BY <1>10 DEF ExpireAlertSlot, BooksInv, AlertOnItsWay, queueVars, handlerVars, pgVars,
                 alertVars
  <1>11. ASSUME NEW c \in Components, ExpireSlot(c) PROVE BooksInv'
    BY <1>11 DEF ExpireSlot, BooksInv, AlertOnItsWay, queueVars, handlerVars, pgVars,
                 alertVars
  <1>12. CASE UNCHANGED vars
    BY <1>12 DEF vars, BooksInv, AlertOnItsWay, queueVars, handlerVars, pgVars, alertVars
  <1>13. ASSUME NEW s \in Signals, ReadAlertSlot(s) PROVE BooksInv'
    <2>1. /\ pc[s] = "alert" /\ pc' = [pc EXCEPT ![s] = "setalert"]
          /\ UNCHANGED <<job, target, ledger, count, dispatch, alerts>>
      BY <1>13 DEF ReadAlertSlot, Goto, AlertInv, HandlerAlertOK, BeforeAlert, Untouched,
         queueVars, pgVars, alertVars
    <2>2. \A id \in Items : id.signal \in Signals
      BY DEF Items
    <2>3. QED
      BY <2>1, <2>2 DEF BooksInv, AlertOnItsWay, TypeInv, TypeOK
  <1>14. QED
    BY <1>1, <1>13, <1>4, <1>5, <1>6, <1>7, <1>8, <1>9, <1>10, <1>11, <1>12
       DEF Next, HandlerStep, Idle

\* As long as no call has failed and no worker has crashed, and whatever keys lapse, alerts
\* time out or attempts run out, an empty queue leaves every item alerted and confirmed,
\* with exactly the signals of its rows counted.
THEOREM BooksCorrect == Spec => [](Untroubled => BooksBalance)
  <1>1. TypeInv /\ LedgerInv /\ (Untroubled => BooksInv) => (Untroubled => BooksBalance)
    <2> SUFFICES ASSUME TypeInv, LedgerInv, BooksInv, Quiescent,
                        NEW id \in Items, count[id] > 0
                 PROVE  /\ alerts[id] = 1 /\ dispatch[id] = "delivered"
                        /\ count[id] = Cardinality(RowsOf(id))
      BY DEF BooksBalance, Opened
    <2>1. id.signal \in Signals /\ ledger[id.signal] = id /\ AlertOnItsWay(id)
      BY DEF BooksInv, Items
    <2>2. pc[id.signal] \notin {"alert", "setalert"}
      BY <2>1 DEF Quiescent, Settled, TypeInv, HandlerOK
    <2>3. alerts[id] = 1 /\ dispatch[id] = "delivered"
      BY <2>1, <2>2 DEF AlertOnItsWay, Quiescent, Quiet
    <2>4. id.signal \in RowsOf(id)
      BY <2>1 DEF RowsOf
    <2>5. Cardinality(RowsOf(id) \ {id.signal}) = Cardinality(RowsOf(id)) - 1
      BY <2>4, RowsFinite, FS_RemoveElement
    <2>6. count[id] = 1 + Cardinality(RowsOf(id) \ {id.signal})
      BY DEF LedgerInv, CountMatchesLedger, Opened
    <2>7. Cardinality(RowsOf(id)) \in Nat
      BY RowsFinite, FS_CardinalityType
    <2>8. QED
      BY <2>3, <2>5, <2>6, <2>7, SMT
  <1>2. Init => (Untroubled => BooksInv)
    BY InitBooksInv
  <1>3. Spec => [](Untroubled => BooksInv)
    BY <1>2, NextBooksInv, DoomedInvariant, PTL DEF Spec
  <1>4. QED
    BY <1>1, <1>3, LedgerInvariant, PTL
=============================================================================
