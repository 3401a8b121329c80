------------------------ MODULE SignalPipelineProofs ------------------------
(***************************************************************************)
(* Theorems about SignalPipeline, for every set of signals and components  *)
(* and every bound.                                                        *)
(***************************************************************************)
EXTENDS SignalPipeline, FiniteSetTheorems, TLAPS


\* What ties a job to its handler: the handler runs exactly while the job is
\* active, a live job has attempts and stalls left, and the locals a step reads
\* were set by an earlier one.
HandlerOK ==
    \A s \in Signals :
        /\ job[s] = "active" <=> pc[s] # "idle"
        /\ job[s] \in {"waiting", "active"} =>
               attempts[s] < MaxAttempts /\ stalls[s] <= MaxStalls
        /\ pc[s] = "gate" => run[s] < MaxRuns
        /\ pc[s] \notin {"idle", "gate"} => run[s] >= 1
        /\ pc[s] \in {"create", "alert", "setalert", "await", "refresh",
                     "record", "patch"} =>
               target[s] \in Items

TypeInv == TypeOK /\ HandlerOK

\* No handler runs at the start, and every store is empty.
LEMMA InitTypeInv == Init => TypeInv
  BY SignalsAssumption, BoundsAssumption, NoItemAssumption, SMT
  DEF SignalsAssumption, BoundsAssumption, Init, TypeInv, TypeOK, HandlerOK,
      ItemOrNone, Labels

\* Every handler, dispatch, failure, crash and lapse keeps the types and the
\* locals a handler relies on at each await.
LEMMA NextTypeInv == TypeInv /\ [Next]_vars => TypeInv'
  <1> SUFFICES ASSUME TypeInv, [Next]_vars PROVE TypeInv'
    OBVIOUS
  <1> USE SignalsAssumption, BoundsAssumption, NoItemAssumption
      DEF SignalsAssumption, BoundsAssumption, TypeInv, TypeOK, HandlerOK, ItemOrNone,
          Labels, queueVars, handlerVars, redisVars, pgVars, alertVars, boundVars
  <1>1. ASSUME NEW s \in Signals, Start(s) PROVE TypeInv'
    BY <1>1, SMT DEF Start, Goto
  <1>2. ASSUME NEW s \in Signals, IsJobProcessed(s) PROVE TypeInv'
    BY <1>2, SMT DEF IsJobProcessed, Complete, EndRun, Goto
  <1>3. ASSUME NEW s \in Signals, PersistSignal(s) PROVE TypeInv'
    BY <1>3, SMT DEF PersistSignal, Upsert, Candidate, Items, Goto
  <1>4. ASSUME NEW s \in Signals, IncrementSignalCounter(s) PROVE TypeInv'
    BY <1>4, SMT DEF IncrementSignalCounter, Goto
  <1>5. ASSUME NEW s \in Signals, ClaimDebounceSlot(s) PROVE TypeInv'
    <2>1. Candidate(s) \in Items
      BY <1>5, SMT DEF ClaimDebounceSlot, Candidate, Items
    <2>2. QED
      BY <1>5, <2>1, SMT DEF ClaimDebounceSlot, Claimable, DebounceKey, Goto
  <1>6. ASSUME NEW s \in Signals, CreateWorkItem(s) PROVE TypeInv'
    BY <1>6, SMT DEF CreateWorkItem, IsNew, Goto
  <1>7. ASSUME NEW s \in Signals, ClaimAlertSlot(s) PROVE TypeInv'
    BY <1>7, SMT DEF ClaimAlertSlot, AlertClaimable, Goto
  <1>8. ASSUME NEW s \in Signals, AlertSettles(s) PROVE TypeInv'
    BY <1>8, SMT DEF AlertSettles, Goto
  <1>9. ASSUME NEW s \in Signals, AlertTimesOut(s) PROVE TypeInv'
    BY <1>9, SMT DEF AlertTimesOut, Goto
  <1>10. ASSUME NEW s \in Signals, CheckDebounce(s) PROVE TypeInv'
    BY <1>10, SMT DEF CheckDebounce, DebounceKey, Defer, EndRun, Goto
  <1>11. ASSUME NEW s \in Signals, RefreshDebounceIfUnchanged(s) PROVE TypeInv'
    BY <1>11, SMT DEF RefreshDebounceIfUnchanged, DebounceKey, Defer, EndRun, Goto
  <1>12. ASSUME NEW s \in Signals, RecordSignalAndIncrement(s) PROVE TypeInv'
    BY <1>12, SMT DEF RecordSignalAndIncrement, ViolatesForeignKey, Increment, IsNew, FailAttempt, Exhausted, EndRun, Goto
  <1>13. ASSUME NEW s \in Signals, UpdateSignalWorkItemId(s) PROVE TypeInv'
    BY <1>13, SMT DEF UpdateSignalWorkItemId, Candidate, Goto
  <1>14. ASSUME NEW s \in Signals, MarkJobProcessed(s) PROVE TypeInv'
    BY <1>14, SMT DEF MarkJobProcessed, Goto
  <1>15. ASSUME NEW s \in Signals, Return(s) PROVE TypeInv'
    BY <1>15, SMT DEF Return, Complete, EndRun, Goto
  <1>16. ASSUME NEW s \in Signals, CallFails(s) PROVE TypeInv'
    BY <1>16, SMT DEF CallFails, FailAttempt, Exhausted, EndRun, Goto
  <1>17. ASSUME NEW s \in Signals, ExpireProcessed(s) PROVE TypeInv'
    BY <1>17, SMT DEF ExpireProcessed
  <1>18. ASSUME NEW id \in Items, DispatchAlert(id) PROVE TypeInv'
    BY <1>18, SMT DEF DispatchAlert
  <1>19. ASSUME NEW id \in Items, ConfirmAlertDelivered(id) PROVE TypeInv'
    BY <1>19, SMT DEF ConfirmAlertDelivered
  <1>20. ASSUME NEW id \in Items, AlertRejects(id) PROVE TypeInv'
    BY <1>20, SMT DEF AlertRejects
  <1>21. ASSUME NEW id \in Items, ExpireAlertSlot(id) PROVE TypeInv'
    BY <1>21, SMT DEF ExpireAlertSlot
  <1>22. ASSUME NEW c \in Components, ExpireSlot(c) PROVE TypeInv'
    BY <1>22, SMT DEF ExpireSlot
  <1>23. CASE Crash
    <2>1. stalls' \in [Signals -> 0..(MaxStalls + 1)]
      BY <1>23, SMT DEF Crash, Active
    <2>2. /\ job' \in [Signals -> {"waiting", "active", "completed", "failed"}]
          /\ \A s \in Signals : job'[s] # "active"
      BY <1>23, SMT DEF Crash, Active
    <2>3. \A s \in Signals : job'[s] \in {"waiting", "active"} =>
              attempts'[s] < MaxAttempts /\ stalls'[s] <= MaxStalls
      BY <1>23, SMT DEF Crash, Active, StalledOut
    <2>4. dispatch' \in [Items -> {"none", "running", "sent", "delivered", "failed"}]
      BY <1>23, SMT DEF Crash
    <2>5. /\ pc' = [s \in Signals |-> "idle"]
          /\ target' = [s \in Signals |-> NoItem]
          /\ tries' = [s \in Signals |-> 0]
          /\ crashes' \in 0..MaxCrashes
          /\ UNCHANGED <<attempts, run, redisVars, doc, pgVars, alerts, faults, expired,
                         lapses>>
      BY <1>23, SMT DEF Crash
    <2>6. QED
      BY <2>1, <2>2, <2>3, <2>4, <2>5, SMT
  <1>24. CASE UNCHANGED vars
    BY <1>24, SMT DEF vars
  <1>25. ASSUME NEW s \in Signals, ReadAlertSlot(s) PROVE TypeInv'
    BY <1>25, SMT DEF ReadAlertSlot, Goto
  <1>26. ASSUME NEW s \in Signals, ReplyLost(s) PROVE TypeInv'
    <2>1. pc[s] \in {"incr", "claim", "setalert"} /\ Candidate(s) \in Items
      BY <1>26, SMT DEF ReplyLost, TakesEffect, Candidate, Items
    <2>2. /\ slot' \in [Components -> ItemOrNone]
          /\ alertSlot' \in [Items -> {"missing", "pending", "delivered"}]
          /\ signalCounter' \in Nat /\ faults' \in 0..MaxFaults
      BY <1>26, <2>1, SMT DEF ReplyLost, TakesEffect, DebounceKey
    <2>3. UNCHANGED <<run, processed, doc, count, ledger, dispatch, alerts, crashes, expired,
                      lapses>>
      BY <1>26 DEF ReplyLost, FailAttempt, EndRun
    <2>4. CASE UNCHANGED <<queueVars, handlerVars>>
      BY <2>2, <2>3, <2>4, SMT
    <2>5. CASE FailAttempt(s)
      BY <2>1, <2>2, <2>3, <2>5, SMT DEF FailAttempt, Exhausted, EndRun, Goto
    <2>6. QED
      BY <1>26, <2>4, <2>5 DEF ReplyLost
  <1>27. QED
    BY <1>1, <1>2, <1>3, <1>4, <1>5, <1>6, <1>7, <1>8, <1>9, <1>10, <1>11, <1>12,
       <1>13, <1>14, <1>15, <1>16, <1>17, <1>18, <1>19, <1>20, <1>21, <1>22, <1>23,
       <1>24, <1>25, <1>26 DEF Next, HandlerStep, DispatchStep, Idle

\* Type correctness: the worker never leaves the states it was written for,
\* whatever calls fail and whenever the process dies.
THEOREM TypeCorrect == Spec => []TypeOK
  <1>1. TypeInv => TypeOK
    BY DEF TypeInv
  <1>2. QED
    BY <1>1, InitTypeInv, NextTypeInv, PTL DEF Spec

\* The types, with the locals at each await: what the later invariants rest on.
THEOREM TypeInvariant == Spec => []TypeInv
  BY InitTypeInv, NextTypeInv, PTL DEF Spec

-----------------------------------------------------------------------------
(* Ids stay with their component on the way from the claim to the ledger.  *)

\* A debounce key and a handler's workItemId name items of their own component,
\* and the winner's is the id it generated itself.
IdsAgree ==
    /\ \A c \in Components : slot[c] # NoItem => ItemComponent(slot[c]) = c
    /\ \A s \in Signals :
          /\ target[s] # NoItem => ItemComponent(target[s]) = ComponentOf[s]
          /\ pc[s] \in {"create", "alert", "setalert", "await"} => target[s].signal = s

\* No id is in flight at the start.
LEMMA InitIdsAgree == Init => IdsAgree
  BY SMT DEF Init, IdsAgree

\* An id passes from the debounce key to a local and never to another component:
\* the claim, the read and the refresh use the component of the signal.
LEMMA NextIdsAgree == TypeInv /\ IdsAgree /\ [Next]_vars => IdsAgree'
  <1> SUFFICES ASSUME TypeInv, IdsAgree, [Next]_vars PROVE IdsAgree'
    OBVIOUS
  <1> USE SignalsAssumption
      DEF SignalsAssumption, TypeInv, TypeOK, HandlerOK, IdsAgree, ItemOrNone,
          ItemComponent, queueVars, handlerVars, redisVars
  <1>1. ASSUME NEW s \in Signals, Start(s) PROVE IdsAgree'
    BY <1>1, SMT DEF Start, Goto
  <1>2. ASSUME NEW s \in Signals, IsJobProcessed(s) PROVE IdsAgree'
    BY <1>2, SMT DEF IsJobProcessed, Complete, EndRun, Goto
  <1>3. ASSUME NEW s \in Signals, PersistSignal(s) PROVE IdsAgree'
    BY <1>3, SMT DEF PersistSignal, Goto
  <1>4. ASSUME NEW s \in Signals, IncrementSignalCounter(s) PROVE IdsAgree'
    BY <1>4, SMT DEF IncrementSignalCounter, Goto
  <1>5. ASSUME NEW s \in Signals, ClaimDebounceSlot(s) PROVE IdsAgree'
    BY <1>5, SMT DEF ClaimDebounceSlot, Claimable, DebounceKey, Candidate, Goto
  <1>6. ASSUME NEW s \in Signals, CreateWorkItem(s) PROVE IdsAgree'
    BY <1>6, SMT DEF CreateWorkItem, IsNew, Goto
  <1>7. ASSUME NEW s \in Signals, ClaimAlertSlot(s) PROVE IdsAgree'
    BY <1>7, SMT DEF ClaimAlertSlot, AlertClaimable, Goto
  <1>8. ASSUME NEW s \in Signals, AlertSettles(s) PROVE IdsAgree'
    BY <1>8, SMT DEF AlertSettles, Goto
  <1>9. ASSUME NEW s \in Signals, AlertTimesOut(s) PROVE IdsAgree'
    BY <1>9, SMT DEF AlertTimesOut, Goto
  <1>10. ASSUME NEW s \in Signals, CheckDebounce(s) PROVE IdsAgree'
    BY <1>10, SMT DEF CheckDebounce, DebounceKey, Defer, EndRun, Goto
  <1>11. ASSUME NEW s \in Signals, RefreshDebounceIfUnchanged(s) PROVE IdsAgree'
    BY <1>11, SMT DEF RefreshDebounceIfUnchanged, DebounceKey, Defer, EndRun, Goto
  <1>12. ASSUME NEW s \in Signals, RecordSignalAndIncrement(s) PROVE IdsAgree'
    BY <1>12, SMT DEF RecordSignalAndIncrement, ViolatesForeignKey, Increment, IsNew, FailAttempt, Exhausted, EndRun, Goto
  <1>13. ASSUME NEW s \in Signals, UpdateSignalWorkItemId(s) PROVE IdsAgree'
    BY <1>13, SMT DEF UpdateSignalWorkItemId, Candidate, Goto
  <1>14. ASSUME NEW s \in Signals, MarkJobProcessed(s) PROVE IdsAgree'
    BY <1>14, SMT DEF MarkJobProcessed, Goto
  <1>15. ASSUME NEW s \in Signals, Return(s) PROVE IdsAgree'
    BY <1>15, SMT DEF Return, Complete, EndRun, Goto
  <1>16. ASSUME NEW s \in Signals, CallFails(s) PROVE IdsAgree'
    BY <1>16, SMT DEF CallFails, FailAttempt, Exhausted, EndRun, Goto
  <1>17. ASSUME NEW s \in Signals, ExpireProcessed(s) PROVE IdsAgree'
    BY <1>17, SMT DEF ExpireProcessed
  <1>18. ASSUME NEW id \in Items, DispatchAlert(id) PROVE IdsAgree'
    BY <1>18, SMT DEF DispatchAlert
  <1>19. ASSUME NEW id \in Items, ConfirmAlertDelivered(id) PROVE IdsAgree'
    BY <1>19, SMT DEF ConfirmAlertDelivered
  <1>20. ASSUME NEW id \in Items, AlertRejects(id) PROVE IdsAgree'
    BY <1>20, SMT DEF AlertRejects
  <1>21. ASSUME NEW id \in Items, ExpireAlertSlot(id) PROVE IdsAgree'
    BY <1>21, SMT DEF ExpireAlertSlot
  <1>22. ASSUME NEW c \in Components, ExpireSlot(c) PROVE IdsAgree'
    BY <1>22, SMT DEF ExpireSlot
  <1>23. CASE Crash
    BY <1>23, SMT DEF Crash
  <1>24. CASE UNCHANGED vars
    BY <1>24, SMT DEF vars
  <1>25. ASSUME NEW s \in Signals, ReadAlertSlot(s) PROVE IdsAgree'
    BY <1>25, SMT DEF ReadAlertSlot, Goto
  <1>26. ASSUME NEW s \in Signals, ReplyLost(s) PROVE IdsAgree'
    BY <1>26, SMT DEF ReplyLost, TakesEffect, Claimable, DebounceKey, Candidate, Items,
       AlertClaimable, FailAttempt, Exhausted, EndRun, Goto
  <1>27. QED
    BY <1>1, <1>2, <1>3, <1>4, <1>5, <1>6, <1>7, <1>8, <1>9, <1>10, <1>11, <1>12,
       <1>13, <1>14, <1>15, <1>16, <1>17, <1>18, <1>19, <1>20, <1>21, <1>22, <1>23,
       <1>24, <1>25, <1>26 DEF Next, HandlerStep, DispatchStep, Idle

-----------------------------------------------------------------------------
(* The two tables: work_items.signal_count and signal_work_items.          *)

\* Only the two transactions write the tables.
LEMMA TableSteps ==
  ASSUME TypeInv, [Next]_vars
  PROVE  \/ UNCHANGED pgVars
         \/ \E s \in Signals : CreateWorkItem(s)
         \/ \E s \in Signals : RecordSignalAndIncrement(s) /\ ~ViolatesForeignKey(s)
  BY SMT DEF Next, HandlerStep, DispatchStep, Idle, vars, pgVars, Start, IsJobProcessed,
     PersistSignal, IncrementSignalCounter, ClaimDebounceSlot, ReadAlertSlot, ClaimAlertSlot,
     AlertSettles, AlertTimesOut, DispatchAlert, ConfirmAlertDelivered, AlertRejects,
     CheckDebounce, RefreshDebounceIfUnchanged, RecordSignalAndIncrement,
     UpdateSignalWorkItemId, MarkJobProcessed, Return, CallFails, ReplyLost, Crash, ExpireSlot,
     ExpireProcessed, ExpireAlertSlot

\* Whoever opened an item is itself counted, so it cannot be counted again as a
\* loser of its own item.
OpenerCounted == \A id \in Opened : ledger[id.signal] # NoItem

LedgerInv == CountedOnOwnComponent /\ OpenerCounted /\ CountMatchesLedger

\* A work item has finitely many rows, so its rows can be counted.
LEMMA RowsFinite ==
  ASSUME NEW id PROVE IsFiniteSet(RowsOf(id)) /\ IsFiniteSet(RowsOf(id) \ {id.signal})
  <1>1. IsFiniteSet(RowsOf(id))
    BY SignalsAssumption, FS_Subset DEF SignalsAssumption, RowsOf
  <1>2. QED
    BY <1>1, FS_Subset

\* Both tables are empty at the start.
LEMMA InitLedgerInv == Init => LedgerInv
  BY SMT DEF Init, LedgerInv, CountedOnOwnComponent, OpenerCounted, CountMatchesLedger,
     Opened

\* createWorkItem: the new item counts its opener, or nobody if the opener was
\* already counted elsewhere; no older row names the new item.
LEMMA CreateLedgerInv ==
  ASSUME TypeInv, IdsAgree, LedgerInv, NEW s \in Signals, CreateWorkItem(s)
  PROVE  LedgerInv'
  <1> DEFINE t == target[s]
  <1>1. t \in Items /\ t.signal = s /\ ItemComponent(t) = ComponentOf[s]
    BY NoItemAssumption, SMT
    DEF TypeInv, HandlerOK, IdsAgree, NoItemAssumption, CreateWorkItem
  <1>2. count' = [count EXCEPT ![t] = IF count[t] = 0 THEN 1 ELSE count[t]]
    BY DEF CreateWorkItem
  <1>3. ledger' = [ledger EXCEPT ![s] = IF ledger[s] = NoItem THEN t ELSE ledger[s]]
    BY DEF CreateWorkItem, IsNew
  <1>4. count \in [Items -> Nat] /\ ledger \in [Signals -> ItemOrNone]
    BY DEF TypeInv, TypeOK
  <1>5. Opened' = Opened \cup {t}
    BY <1>1, <1>2, <1>4, SMT DEF Opened
  <1>6. ledger'[s] # NoItem /\ \A x \in Signals : ledger[x] # NoItem => ledger'[x] = ledger[x]
    BY <1>1, <1>3, <1>4, NoItemAssumption, SMT DEF NoItemAssumption
  <1>7. CountedOnOwnComponent'
    BY <1>1, <1>3, <1>4, <1>5, SMT DEF LedgerInv, CountedOnOwnComponent, ItemComponent
  <1>8. OpenerCounted'
    BY <1>1, <1>5, <1>6, SMT DEF LedgerInv, OpenerCounted, Opened, Items
  <1>9. CountMatchesLedger'
    <2> SUFFICES ASSUME NEW id \in Opened'
                 PROVE  count'[id] = 1 + Cardinality(RowsOf(id)' \ {id.signal})
      BY DEF CountMatchesLedger
    <2>1. CASE id \in Opened
      <3>1. count'[id] = count[id]
        BY <1>2, <1>4, <2>1, SMT DEF Opened
      <3>2. RowsOf(id)' \ {id.signal} = RowsOf(id) \ {id.signal}
        <4>1. id \in Items
          BY <2>1 DEF Opened
        <4>2. QED
          BY <1>1, <1>3, <1>4, <4>1, NoItemAssumption, SMT DEF RowsOf, NoItemAssumption
      <3>3. QED
        BY <2>1, <3>1, <3>2 DEF LedgerInv, CountMatchesLedger
    <2>2. CASE id \notin Opened
      <3>1. id = t /\ count'[id] = 1
        BY <1>1, <1>2, <1>4, <1>5, <2>2, SMT DEF Opened
      <3>2. RowsOf(id)' \ {id.signal} = {}
        BY <1>1, <1>3, <1>4, <2>2, <3>1, NoItemAssumption, SMT
        DEF RowsOf, LedgerInv, CountedOnOwnComponent, NoItemAssumption
      <3>3. QED
        BY <3>1, <3>2, FS_EmptySet
    <2>3. QED
      BY <2>1, <2>2
  <1>10. QED
    BY <1>7, <1>8, <1>9 DEF LedgerInv

\* recordSignalAndIncrement: a new row adds one signal, never the opener, to one
\* item's rows and one to its count.
LEMMA RecordLedgerInv ==
  ASSUME TypeInv, IdsAgree, LedgerInv, NEW s \in Signals, RecordSignalAndIncrement(s),
         ~ViolatesForeignKey(s)
  PROVE  LedgerInv'
  <1> DEFINE t == target[s]
  <1>1. t \in Items /\ ItemComponent(t) = ComponentOf[s]
    BY NoItemAssumption, SMT
    DEF TypeInv, HandlerOK, IdsAgree, NoItemAssumption, RecordSignalAndIncrement
  <1>2. count \in [Items -> Nat] /\ ledger \in [Signals -> ItemOrNone]
    BY DEF TypeInv, TypeOK
  <1>3. CASE ~IsNew(s)
    <2>1. count' = count /\ ledger' = ledger
      BY <1>1, <1>2, <1>3, SMT DEF RecordSignalAndIncrement, Increment
    <2>2. QED
      BY <2>1 DEF LedgerInv, CountedOnOwnComponent, OpenerCounted, CountMatchesLedger,
         Opened, RowsOf
  <1>4. CASE IsNew(s)
    <2>1. /\ ledger[s] = NoItem
          /\ t \in Opened
          /\ t.signal # s
      BY <1>1, <1>2, <1>4, SMT
      DEF IsNew, ViolatesForeignKey, Opened, LedgerInv, OpenerCounted
    <2>2. /\ count' = [count EXCEPT ![t] = count[t] + 1]
          /\ ledger' = [ledger EXCEPT ![s] = t]
      BY <1>4 DEF RecordSignalAndIncrement, Increment
    <2>3. Opened' = Opened
      BY <1>1, <1>2, <2>1, <2>2, SMT DEF Opened
    <2>4. CountedOnOwnComponent'
      BY <1>1, <1>2, <2>1, <2>2, <2>3, SMT
      DEF LedgerInv, CountedOnOwnComponent, ItemComponent
    <2>5. OpenerCounted'
      BY <1>1, <1>2, <2>1, <2>2, <2>3, NoItemAssumption, SMT
      DEF LedgerInv, OpenerCounted, Opened, Items, NoItemAssumption
    <2>6. CountMatchesLedger'
      <3> SUFFICES ASSUME NEW id \in Opened
                   PROVE  count'[id] = 1 + Cardinality(RowsOf(id)' \ {id.signal})
        BY <2>3 DEF CountMatchesLedger
      <3> DEFINE rows == RowsOf(id) \ {id.signal}
      <3>1. count[id] = 1 + Cardinality(rows)
        BY DEF LedgerInv, CountMatchesLedger
      <3>2. CASE id # t
        <4>1. count'[id] = count[id] /\ RowsOf(id)' \ {id.signal} = rows
          BY <1>2, <2>1, <2>2, <3>2, NoItemAssumption, SMT
          DEF RowsOf, Opened, NoItemAssumption
        <4>2. QED
          BY <3>1, <4>1
      <3>3. CASE id = t
        <4>1. count'[id] = count[id] + 1
          BY <1>1, <2>2, <1>2, <3>3, SMT
        <4>2. RowsOf(id)' \ {id.signal} = rows \cup {s} /\ s \notin rows
          BY <1>1, <1>2, <2>1, <2>2, <3>3, NoItemAssumption, SMT
          DEF RowsOf, NoItemAssumption
        <4>3. Cardinality(rows \cup {s}) = Cardinality(rows) + 1
          BY <4>2, RowsFinite, FS_AddElement
        <4>4. Cardinality(rows) \in Nat
          BY RowsFinite, FS_CardinalityType
        <4>5. QED
          BY <3>1, <4>1, <4>2, <4>3, <4>4, SMT
      <3>4. QED
        BY <3>2, <3>3
    <2>7. QED
      BY <2>4, <2>5, <2>6 DEF LedgerInv
  <1>5. QED
    BY <1>3, <1>4

\* Every step keeps the two tables in agreement.
LEMMA NextLedgerInv ==
  TypeInv /\ IdsAgree /\ LedgerInv /\ [Next]_vars => LedgerInv'
  <1> SUFFICES ASSUME TypeInv, IdsAgree, LedgerInv, [Next]_vars PROVE LedgerInv'
    OBVIOUS
  <1>1. CASE UNCHANGED pgVars
    BY <1>1 DEF pgVars, LedgerInv, CountedOnOwnComponent, OpenerCounted,
       CountMatchesLedger, Opened, RowsOf
  <1>2. ASSUME NEW s \in Signals, CreateWorkItem(s) PROVE LedgerInv'
    BY <1>2, CreateLedgerInv
  <1>3. ASSUME NEW s \in Signals, RecordSignalAndIncrement(s), ~ViolatesForeignKey(s)
        PROVE  LedgerInv'
    BY <1>3, RecordLedgerInv
  <1>4. QED
    BY <1>1, <1>2, <1>3, TableSteps

\* The two tables agree in every reachable state.
LEMMA LedgerInvariant == Spec => [](TypeInv /\ IdsAgree /\ LedgerInv)
  BY InitTypeInv, NextTypeInv, InitIdsAgree, NextIdsAgree, InitLedgerInv, NextLedgerInv,
     PTL DEF Spec

\* No duplicate signal counts: for any number of signals, retries, crashes and
\* expired keys a work item's signal_count is its opener plus the other signals
\* whose ledger row names it.
THEOREM CountCorrect == Spec => []CountMatchesLedger
  <1>1. LedgerInv => CountMatchesLedger
    BY DEF LedgerInv
  <1>2. QED
    BY <1>1, LedgerInvariant, PTL

\* No signal is ever counted on an incident of another component or on a work
\* item whose transaction did not commit.
THEOREM ComponentCorrect == Spec => []CountedOnOwnComponent
  <1>1. LedgerInv => CountedOnOwnComponent
    BY DEF LedgerInv
  <1>2. QED
    BY <1>1, LedgerInvariant, PTL

\* The ledger is append-only and counts never fall, on every step.
THEOREM LedgerAppendOnly == Spec => LedgerStable
  <1>1. TypeInv /\ IdsAgree /\ [Next]_vars =>
          [/\ \A s \in Signals : ledger[s] # NoItem => ledger'[s] = ledger[s]
           /\ \A id \in Items : count'[id] >= count[id]]_vars
    <2> SUFFICES ASSUME TypeInv, IdsAgree, [Next]_vars
                 PROVE  /\ \A s \in Signals : ledger[s] # NoItem => ledger'[s] = ledger[s]
                        /\ \A id \in Items : count'[id] >= count[id]
      OBVIOUS
    <2> USE DEF TypeInv, TypeOK
    <2>1. CASE UNCHANGED pgVars
      BY <2>1, SMT DEF pgVars
    <2>2. CASE \E s \in Signals : CreateWorkItem(s)
      BY <2>2, SMT DEF CreateWorkItem, IsNew
    <2>3. CASE \E s \in Signals : RecordSignalAndIncrement(s) /\ ~ViolatesForeignKey(s)
      BY <2>3, SMT DEF RecordSignalAndIncrement, Increment, IsNew
    <2>4. QED
      BY <2>1, <2>2, <2>3, TableSteps
  <1>2. QED
    BY <1>1, LedgerInvariant, PTL DEF Spec, LedgerStable

-----------------------------------------------------------------------------
(* The order of the handler's writes.                                      *)

\* What a handler has written by the time it reaches a label, what a finished
\* signal has, and what a signal without a document cannot have.
WorkDone ==
    \A s \in Signals :
        /\ \/ pc[s] \in {"alert", "setalert", "await", "patch", "mark", "return"}
           \/ processed[s] \/ job[s] = "completed"
           => ledger[s] # NoItem
        /\ \/ pc[s] \notin {"idle", "gate", "persist"}
           \/ processed[s] \/ job[s] = "completed"
           => doc[s] # NoItem
        /\ doc[s] = NoItem =>
              /\ ledger[s] = NoItem
              /\ \A c \in Components : slot[c] # NoItem => slot[c].signal # s
              /\ \A id \in Items : count[id] > 0 => id.signal # s

\* No job has passed any of its steps at the start.
LEMMA InitWorkDone == Init => WorkDone
  BY SMT DEF Init, WorkDone

\* Each await of the handler is reached only after the effects of the steps
\* before it, and no later step, crash or lapse takes them back.
LEMMA NextWorkDone == TypeInv /\ IdsAgree /\ WorkDone /\ [Next]_vars => WorkDone'
  <1> SUFFICES ASSUME TypeInv, IdsAgree, WorkDone, [Next]_vars PROVE WorkDone'
    OBVIOUS
  <1> USE SignalsAssumption, NoItemAssumption
      DEF SignalsAssumption, NoItemAssumption, TypeInv, TypeOK, HandlerOK, IdsAgree,
          WorkDone, ItemOrNone, Labels, queueVars, handlerVars, redisVars, pgVars
  <1>1. ASSUME NEW s \in Signals, Start(s) PROVE WorkDone'
    BY <1>1, SMT DEF Start, Goto
  <1>2. ASSUME NEW s \in Signals, IsJobProcessed(s) PROVE WorkDone'
    BY <1>2, SMT DEF IsJobProcessed, Complete, EndRun, Goto
  <1>3. ASSUME NEW s \in Signals, PersistSignal(s) PROVE WorkDone'
    BY <1>3, SMT DEF PersistSignal, Upsert, Candidate, Items, Goto
  <1>4. ASSUME NEW s \in Signals, IncrementSignalCounter(s) PROVE WorkDone'
    BY <1>4, SMT DEF IncrementSignalCounter, Goto
  <1>5. ASSUME NEW s \in Signals, ClaimDebounceSlot(s) PROVE WorkDone'
    BY <1>5, SMT DEF ClaimDebounceSlot, Claimable, DebounceKey, Candidate, Items, Goto
  <1>6. ASSUME NEW s \in Signals, CreateWorkItem(s) PROVE WorkDone'
    BY <1>6, SMT DEF CreateWorkItem, IsNew, Goto
  <1>7. ASSUME NEW s \in Signals, ClaimAlertSlot(s) PROVE WorkDone'
    BY <1>7, SMT DEF ClaimAlertSlot, AlertClaimable, Goto
  <1>8. ASSUME NEW s \in Signals, AlertSettles(s) PROVE WorkDone'
    BY <1>8, SMT DEF AlertSettles, Goto
  <1>9. ASSUME NEW s \in Signals, AlertTimesOut(s) PROVE WorkDone'
    BY <1>9, SMT DEF AlertTimesOut, Goto
  <1>10. ASSUME NEW s \in Signals, CheckDebounce(s) PROVE WorkDone'
    BY <1>10, SMT DEF CheckDebounce, DebounceKey, Defer, EndRun, Goto
  <1>11. ASSUME NEW s \in Signals, RefreshDebounceIfUnchanged(s) PROVE WorkDone'
    BY <1>11, SMT DEF RefreshDebounceIfUnchanged, DebounceKey, Defer, EndRun, Goto
  <1>12. ASSUME NEW s \in Signals, RecordSignalAndIncrement(s) PROVE WorkDone'
    <2>1. target[s] \in Items /\ pc[s] = "record"
      BY <1>12, SMT DEF RecordSignalAndIncrement
    <2>2. CASE ViolatesForeignKey(s)
      BY <1>12, <2>2, SMT
      DEF RecordSignalAndIncrement, FailAttempt, Exhausted, EndRun, Goto
    <2>3. CASE ~ViolatesForeignKey(s)
      <3>1. \A id \in Items : count'[id] > 0 => count[id] > 0
        BY <1>12, <2>1, <2>3, SMT
        DEF RecordSignalAndIncrement, ViolatesForeignKey, Increment, IsNew
      <3>2. /\ ledger'[s] # NoItem
            /\ \A x \in Signals \ {s} : ledger'[x] = ledger[x]
            /\ pc' = [pc EXCEPT ![s] = "patch"]
            /\ UNCHANGED <<job, processed, slot, doc>>
        BY <1>12, <2>1, <2>3, SMT DEF RecordSignalAndIncrement, IsNew, Goto
      <3>3. QED
        BY <2>1, <3>1, <3>2, SMT
    <2>4. QED
      BY <2>2, <2>3
  <1>13. ASSUME NEW s \in Signals, UpdateSignalWorkItemId(s) PROVE WorkDone'
    BY <1>13, SMT DEF UpdateSignalWorkItemId, Candidate, Goto
  <1>14. ASSUME NEW s \in Signals, MarkJobProcessed(s) PROVE WorkDone'
    BY <1>14, SMT DEF MarkJobProcessed, Goto
  <1>15. ASSUME NEW s \in Signals, Return(s) PROVE WorkDone'
    BY <1>15, SMT DEF Return, Complete, EndRun, Goto
  <1>16. ASSUME NEW s \in Signals, CallFails(s) PROVE WorkDone'
    BY <1>16, SMT DEF CallFails, FailAttempt, Exhausted, EndRun, Goto
  <1>17. ASSUME NEW s \in Signals, ExpireProcessed(s) PROVE WorkDone'
    BY <1>17, SMT DEF ExpireProcessed
  <1>18. ASSUME NEW id \in Items, DispatchAlert(id) PROVE WorkDone'
    BY <1>18, SMT DEF DispatchAlert
  <1>19. ASSUME NEW id \in Items, ConfirmAlertDelivered(id) PROVE WorkDone'
    BY <1>19, SMT DEF ConfirmAlertDelivered
  <1>20. ASSUME NEW id \in Items, AlertRejects(id) PROVE WorkDone'
    BY <1>20, SMT DEF AlertRejects
  <1>21. ASSUME NEW id \in Items, ExpireAlertSlot(id) PROVE WorkDone'
    BY <1>21, SMT DEF ExpireAlertSlot
  <1>22. ASSUME NEW c \in Components, ExpireSlot(c) PROVE WorkDone'
    BY <1>22, SMT DEF ExpireSlot
  <1>23. CASE Crash
    BY <1>23, SMT DEF Crash
  <1>24. CASE UNCHANGED vars
    BY <1>24, SMT DEF vars
  <1>25. ASSUME NEW s \in Signals, ReadAlertSlot(s) PROVE WorkDone'
    BY <1>25, SMT DEF ReadAlertSlot, Goto
  <1>26. ASSUME NEW s \in Signals, ReplyLost(s) PROVE WorkDone'
    <2>1. pc[s] \in {"incr", "claim", "setalert"} /\ doc[s] # NoItem
      BY <1>26, SMT DEF ReplyLost, TakesEffect
    <2>2. \A c \in Components : slot'[c] = slot[c] \/ slot'[c].signal = s
      BY <1>26, SMT DEF ReplyLost, TakesEffect, DebounceKey, Candidate
    <2>3. UNCHANGED <<processed, doc, count, ledger>>
      BY <1>26 DEF ReplyLost
    <2>4. /\ \A x \in Signals \ {s} : pc'[x] = pc[x] /\ job'[x] = job[x]
          /\ \/ pc'[s] = pc[s] /\ job'[s] = job[s]
             \/ pc'[s] = "idle" /\ job'[s] \in {"waiting", "failed"}
      BY <1>26, SMT DEF ReplyLost, FailAttempt, EndRun, Goto
    <2>5. QED
      BY <2>1, <2>2, <2>3, <2>4, SMT
  <1>27. QED
    BY <1>1, <1>2, <1>3, <1>4, <1>5, <1>6, <1>7, <1>8, <1>9, <1>10, <1>11, <1>12,
       <1>13, <1>14, <1>15, <1>16, <1>17, <1>18, <1>19, <1>20, <1>21, <1>22, <1>23,
       <1>24, <1>25, <1>26 DEF Next, HandlerStep, DispatchStep, Idle

\* What a handler has behind it is done, in every reachable state.
LEMMA WorkDoneInvariant == Spec => [](TypeInv /\ IdsAgree /\ WorkDone)
  BY InitTypeInv, NextTypeInv, InitIdsAgree, NextIdsAgree, InitWorkDone, NextWorkDone,
     PTL DEF Spec

\* A completed job, and one the idempotency gate would skip, is always counted.
THEOREM CompletionCorrect == Spec => []CompletedIsCounted
  <1>1. WorkDone => CompletedIsCounted
    BY SMT DEF WorkDone, CompletedIsCounted
  <1>2. QED
    BY <1>1, WorkDoneInvariant, PTL

\* The document of a signal exists before any key, row or item names the signal.
THEOREM DocumentFirst == Spec => []PersistedFirst
  <1>1. WorkDone => PersistedFirst
    BY SMT DEF WorkDone, PersistedFirst, Opened
  <1>2. QED
    BY <1>1, WorkDoneInvariant, PTL

-----------------------------------------------------------------------------
(* Alerts.                                                                 *)

\* Nothing was ever done about the alert of this item.
Untouched(id) == alertSlot[id] = "missing" /\ dispatch[id] = "none" /\ alerts[id] = 0

\* Ids of later runs are untouched; a dispatch belongs to a committed item and
\* sends one alert.
ItemAlertOK(id) ==
    /\ id.run > run[id.signal] => Untouched(id)
    /\ dispatch[id] \in {"none", "running"} => alerts[id] = 0
    /\ alerts[id] <= 1
    /\ dispatch[id] # "none" => count[id] > 0

\* A run that has not claimed its alert yet has an untouched id, except that it may have
\* set the key and missed the reply.
BeforeAlert == {"persist", "incr", "claim", "create", "alert"}
HandlerAlertOK(s) ==
    /\ pc[s] \in BeforeAlert => Untouched(Candidate(s))
    /\ pc[s] \in {"create", "alert", "setalert"} => target[s] = Candidate(s)
    /\ pc[s] \in {"alert", "setalert"} => count[Candidate(s)] > 0
    /\ pc[s] = "setalert" => /\ dispatch[Candidate(s)] = "none" /\ alerts[Candidate(s)] = 0
                             /\ alertSlot[Candidate(s)] # "delivered"

AlertInv == /\ \A id \in Items : ItemAlertOK(id)
            /\ \A s \in Signals : HandlerAlertOK(s)

\* No alert is under way at the start.
LEMMA InitAlertInv == Init => AlertInv
  BY SMT DEF Init, AlertInv, ItemAlertOK, HandlerAlertOK, BeforeAlert, Untouched

\* The part of the type invariant the alert steps need.
AlertTypes ==
    /\ count \in [Items -> Nat] /\ alerts \in [Items -> Nat]
    /\ alertSlot \in [Items -> {"missing", "pending", "delivered"}]
    /\ dispatch \in [Items -> {"none", "running", "sent", "delivered", "failed"}]
    /\ pc \in [Signals -> Labels] /\ run \in [Signals -> 0..MaxRuns]
    /\ target \in [Signals -> ItemOrNone]
    /\ \A s \in Signals : pc[s] \notin {"idle", "gate"} => Candidate(s) \in Items
    /\ \A s \in Signals : pc[s] = "gate" => [signal |-> s, run |-> run[s] + 1] \in Items
    /\ \A s \in Signals : pc[s] = "record" => target[s] \in Items

\* The part of the type invariant that the alert proofs use.
LEMMA AlertTypesHold == TypeInv => AlertTypes
  <1> SUFFICES ASSUME TypeInv PROVE AlertTypes
    OBVIOUS
  <1> USE BoundsAssumption DEF BoundsAssumption, TypeInv, HandlerOK, Items
  <1>1. \A s \in Signals : pc[s] \notin {"idle", "gate"} => Candidate(s) \in Items
    BY SMT DEF TypeOK, Candidate
  <1>2. \A s \in Signals : pc[s] = "gate" => [signal |-> s, run |-> run[s] + 1] \in Items
    BY SMT DEF TypeOK
  <1>3. \A s \in Signals : pc[s] = "record" => target[s] \in Items
    BY SMT
  <1>4. QED
    BY <1>1, <1>2, <1>3 DEF TypeOK, AlertTypes

\* The gate: the next id comes from a run nobody has seen.
LEMMA GateAlertInv ==
  ASSUME TypeInv, AlertInv, NEW s \in Signals, IsJobProcessed(s)
  PROVE  AlertInv'
  <1>1. AlertTypes
    BY AlertTypesHold
  <1>2. CASE processed[s]
    <2>1. /\ pc' = [pc EXCEPT ![s] = "idle"]
          /\ target' = [target EXCEPT ![s] = NoItem]
          /\ UNCHANGED <<run, count, alertVars, alertSlot>>
      BY <1>2 DEF IsJobProcessed, Complete, EndRun, Goto, redisVars, pgVars
    <2>2. QED
      BY <1>1, <2>1, SMT
      DEF AlertTypes, AlertInv, ItemAlertOK, HandlerAlertOK, BeforeAlert, Untouched,
          Candidate, alertVars
  <1>3. CASE ~processed[s]
    <2>0. PICK new : new = [signal |-> s, run |-> run[s] + 1]
      OBVIOUS
    <2>1. /\ pc[s] = "gate"
          /\ run' = [run EXCEPT ![s] = run[s] + 1]
          /\ pc' = [pc EXCEPT ![s] = "persist"]
          /\ UNCHANGED <<target, alertSlot, dispatch, alerts, count>>
      BY <1>3 DEF IsJobProcessed, Goto, redisVars, pgVars, alertVars
    <2>2. new \in Items /\ Untouched(new)
      BY <1>1, <2>0, <2>1, SMT DEF AlertTypes, AlertInv, ItemAlertOK
    <2>3. \A id \in Items : id.run > run'[id.signal] => id.run > run[id.signal]
      BY <1>1, <2>1, SMT DEF AlertTypes, Items
    <2>4. \A id \in Items : ItemAlertOK(id)'
      BY <2>1, <2>3, SMT DEF AlertInv, ItemAlertOK, Untouched
    <2>5. \A x \in Signals : HandlerAlertOK(x)'
      <3> SUFFICES ASSUME NEW x \in Signals PROVE HandlerAlertOK(x)'
        OBVIOUS
      <3>1. CASE x = s
        <4>1. Candidate(x)' = new /\ pc'[x] = "persist"
          BY <1>1, <2>0, <2>1, <3>1, SMT DEF AlertTypes, Candidate
        <4>2. Untouched(new)'
          BY <2>1, <2>2 DEF Untouched
        <4>3. QED
          BY <4>1, <4>2, SMT DEF HandlerAlertOK, BeforeAlert, Untouched
      <3>2. CASE x # s
        BY <1>1, <2>1, <3>2, SMT
        DEF AlertTypes, AlertInv, HandlerAlertOK, Untouched, Candidate
      <3>3. QED
        BY <3>1, <3>2
    <2>6. QED
      BY <2>4, <2>5 DEF AlertInv
  <1>4. QED
    BY <1>2, <1>3

\* A step that only lets counts grow, and moves one handler.
LEMMA CountsGrowAlertInv ==
  ASSUME AlertTypes, AlertInv, NEW s \in Signals,
         UNCHANGED <<run, alertSlot, dispatch, alerts>>,
         \A x \in Signals \ {s} : pc'[x] = pc[x] /\ target'[x] = target[x],
         \A id \in Items : count[id] > 0 => count'[id] > 0,
         HandlerAlertOK(s)'
  PROVE  AlertInv'
  <1>1. \A id \in Items : ItemAlertOK(id)'
    BY SMT DEF AlertInv, ItemAlertOK, Untouched
  <1>2. ASSUME NEW x \in Signals, x # s PROVE HandlerAlertOK(x)'
    BY <1>2, SMT
    DEF AlertTypes, AlertInv, HandlerAlertOK, BeforeAlert, Untouched, Candidate
  <1>3. QED
    BY <1>1, <1>2 DEF AlertInv

\* createWorkItem: the new item is open and not alerted yet.
LEMMA CreateAlertInv ==
  ASSUME TypeInv, AlertInv, NEW s \in Signals, CreateWorkItem(s)
  PROVE  AlertInv'
  <1>1. AlertTypes
    BY AlertTypesHold
  <1>2. /\ pc[s] = "create"
        /\ pc' = [pc EXCEPT ![s] = "alert"]
        /\ count' = [count EXCEPT ![target[s]] = IF count[target[s]] = 0 THEN 1
                                                 ELSE count[target[s]]]
        /\ UNCHANGED <<run, target, alertSlot, dispatch, alerts>>
    BY DEF CreateWorkItem, Goto, redisVars, alertVars
  <1>3. target[s] = Candidate(s) /\ Candidate(s) \in Items /\ Untouched(Candidate(s))
    BY <1>1, <1>2, SMT DEF AlertTypes, AlertInv, HandlerAlertOK, BeforeAlert
  <1>4. \A id \in Items : count[id] > 0 => count'[id] > 0
    BY <1>1, <1>2, <1>3, SMT DEF AlertTypes
  <1>5. HandlerAlertOK(s)'
    BY <1>1, <1>2, <1>3, SMT DEF AlertTypes, HandlerAlertOK, Untouched, Candidate
  <1>6. \A x \in Signals \ {s} : pc'[x] = pc[x] /\ target'[x] = target[x]
    BY <1>1, <1>2 DEF AlertTypes
  <1>7. QED
    BY <1>1, <1>2, <1>4, <1>5, <1>6, CountsGrowAlertInv

\* recordSignalAndIncrement never touches an alert.
LEMMA RecordAlertInv ==
  ASSUME TypeInv, AlertInv, NEW s \in Signals, RecordSignalAndIncrement(s)
  PROVE  AlertInv'
  <1>1. AlertTypes
    BY AlertTypesHold
  <1>2. /\ pc[s] = "record"
        /\ UNCHANGED <<run, alertSlot, dispatch, alerts>>
    BY DEF RecordSignalAndIncrement, FailAttempt, EndRun, redisVars, alertVars
  <1>3. pc'[s] \in {"record", "idle", "patch"}
    BY <1>1, <1>2, SMT DEF AlertTypes, RecordSignalAndIncrement, FailAttempt, EndRun, Goto
  <1>4. HandlerAlertOK(s)'
    BY <1>3, SMT DEF HandlerAlertOK, BeforeAlert
  <1>5. \A x \in Signals \ {s} : pc'[x] = pc[x] /\ target'[x] = target[x]
    BY <1>1, SMT DEF AlertTypes, RecordSignalAndIncrement, FailAttempt, EndRun, Goto
  <1>6. \A id \in Items : count[id] > 0 => count'[id] > 0
    BY <1>1, <1>2, SMT DEF AlertTypes, RecordSignalAndIncrement, Increment, pgVars
  <1>7. QED
    BY <1>1, <1>2, <1>4, <1>5, <1>6, CountsGrowAlertInv

\* claimAlertSlot: the run that opened the item starts its only dispatch.
LEMMA ClaimAlertInv ==
  ASSUME TypeInv, AlertInv, NEW s \in Signals, ClaimAlertSlot(s)
  PROVE  AlertInv'
  <1> DEFINE t == Candidate(s)
  <1>1. AlertTypes
    BY AlertTypesHold
  <1>2. /\ pc[s] = "setalert" /\ target[s] = t /\ t \in Items
        /\ dispatch[t] = "none" /\ alerts[t] = 0 /\ count[t] > 0
    BY <1>1, SMT DEF AlertTypes, AlertInv, HandlerAlertOK, ClaimAlertSlot
  <1>3. CASE ~AlertClaimable(t)
    BY <1>1, <1>2, <1>3, SMT
    DEF AlertTypes, ClaimAlertSlot, Goto, pgVars, AlertInv, ItemAlertOK, HandlerAlertOK,
        BeforeAlert, Untouched, Candidate
  <1>4. SUFFICES ASSUME AlertClaimable(t) PROVE AlertInv'
    BY <1>3
  <1>5. /\ alertSlot' = [alertSlot EXCEPT ![t] = "pending"]
        /\ dispatch' = [dispatch EXCEPT ![t] = "running"]
        /\ pc' = [pc EXCEPT ![s] = "await"]
        /\ UNCHANGED <<run, target, count, alerts>>
    BY <1>2, <1>4, SMT DEF ClaimAlertSlot, Goto, pgVars
  <1>6. t.signal = s /\ t.run = run[s]
    BY DEF Candidate
  <1>7. \A id \in Items : ItemAlertOK(id)'
    <2> SUFFICES ASSUME NEW id \in Items PROVE ItemAlertOK(id)'
      OBVIOUS
    <2>1. CASE id = t
      <3>1. ~(id.run > run'[id.signal])
        BY <1>1, <1>5, <1>6, <2>1, SMT DEF AlertTypes
      <3>2. alerts'[id] = 0 /\ count'[id] > 0
        BY <1>2, <1>5, <2>1
      <3>3. QED
        BY <3>1, <3>2, SMT DEF ItemAlertOK
    <2>2. CASE id # t
      BY <1>1, <1>5, <2>2, SMT DEF AlertTypes, AlertInv, ItemAlertOK, Untouched
    <2>3. QED
      BY <2>1, <2>2
  <1>8. \A x \in Signals : HandlerAlertOK(x)'
    <2> SUFFICES ASSUME NEW x \in Signals PROVE HandlerAlertOK(x)'
      OBVIOUS
    <2>1. CASE x = s
      BY <1>1, <1>5, <2>1, SMT DEF AlertTypes, HandlerAlertOK, BeforeAlert
    <2>2. CASE x # s
      <3>1. Candidate(x) # t /\ Candidate(x)' = Candidate(x)
        BY <1>5, <2>2, SMT DEF Candidate
      <3>2. pc'[x] = pc[x] /\ (pc[x] \in BeforeAlert \cup {"setalert"} => Candidate(x) \in Items)
        BY <1>1, <1>5, <2>2, SMT DEF AlertTypes, BeforeAlert
      <3>3. HandlerAlertOK(x)
        BY DEF AlertInv
      <3> HIDE DEF t
      <3>4. QED
        BY <1>1, <1>5, <3>1, <3>2, <3>3, SMT
        DEF AlertTypes, HandlerAlertOK, BeforeAlert, Untouched
    <2>3. QED
      BY <2>1, <2>2
  <1>9. QED
    BY <1>7, <1>8 DEF AlertInv

\* A lost reply: the key of the run's own item may be set, with nothing dispatched.
LEMMA ReplyLostAlertInv ==
  ASSUME TypeInv, AlertInv, NEW s \in Signals, ReplyLost(s)
  PROVE  AlertInv'
  <1> DEFINE t == Candidate(s)
  <1>1. AlertTypes
    BY AlertTypesHold
  <1>2. /\ UNCHANGED <<run, dispatch, alerts, count>>
        /\ \/ UNCHANGED <<pc, target>>
           \/ /\ pc' = [pc EXCEPT ![s] = "idle"]
              /\ target' = [target EXCEPT ![s] = NoItem]
    BY DEF ReplyLost, FailAttempt, EndRun, Goto, alertVars, pgVars, handlerVars
  <1>3. CASE alertSlot' = alertSlot
    BY <1>1, <1>2, <1>3, SMT
    DEF AlertTypes, AlertInv, ItemAlertOK, HandlerAlertOK, BeforeAlert, Untouched, Candidate
  <1>4. CASE /\ pc[s] = "setalert" /\ alertSlot' = [alertSlot EXCEPT ![target[s]] = "pending"]
    <2>1. /\ t \in Items /\ target[s] = t /\ t.signal = s /\ t.run = run[s]
          /\ run[s] \in Nat
      BY <1>1, <1>4, SMT DEF AlertTypes, AlertInv, HandlerAlertOK, Candidate
    <2>2. \A id \in Items \ {t} : alertSlot'[id] = alertSlot[id]
      BY <1>1, <1>4, <2>1 DEF AlertTypes
    <2>3. alertSlot'[t] = "pending"
      BY <1>1, <1>4, <2>1 DEF AlertTypes
    <2>4. ASSUME NEW id \in Items PROVE ItemAlertOK(id)'
      <3>1. ItemAlertOK(id)
        BY DEF AlertInv
      <3>2. CASE id = t
        <4>1. ~(id.run > run'[id.signal])
          BY <1>2, <2>1, <3>2, SMT
        <4>2. QED
          BY <1>2, <3>1, <4>1, SMT DEF ItemAlertOK
      <3>3. CASE id # t
        BY <1>2, <2>2, <3>1, <3>3, SMT DEF ItemAlertOK, Untouched
      <3>4. QED
        BY <3>2, <3>3
    <2>5. ASSUME NEW x \in Signals PROVE HandlerAlertOK(x)'
      <3>1. HandlerAlertOK(x) /\ Candidate(x)' = Candidate(x)
        BY <1>2 DEF AlertInv, Candidate
      <3>2. CASE x = s
        <4>1. pc'[x] \in {"setalert", "idle"} /\ (pc'[x] = "setalert" => target'[x] = t)
          BY <1>1, <1>2, <1>4, <2>1, <3>2 DEF AlertTypes
        <4>2. QED
          BY <1>2, <1>4, <2>3, <3>1, <3>2, <4>1 DEF HandlerAlertOK, BeforeAlert
      <3>3. CASE x # s
        <4>1. pc'[x] = pc[x] /\ target'[x] = target[x] /\ Candidate(x) # t
          BY <1>1, <1>2, <3>3 DEF AlertTypes, Candidate
        <4>2. pc[x] \in BeforeAlert \cup {"setalert"} => Candidate(x) \in Items
          BY <1>1 DEF AlertTypes, BeforeAlert
        <4>3. pc[x] \in BeforeAlert \cup {"setalert"} =>
                alertSlot'[Candidate(x)] = alertSlot[Candidate(x)]
          BY <2>2, <4>1, <4>2
        <4>4. QED
          BY <1>2, <3>1, <4>1, <4>3 DEF HandlerAlertOK, Untouched
      <3>4. QED
        BY <3>2, <3>3
    <2>6. QED
      BY <2>4, <2>5 DEF AlertInv
  <1>5. QED
    BY <1>3, <1>4 DEF ReplyLost, TakesEffect

\* executeAlert: the outside world hears once of an item that is open.
LEMMA DispatchAlertInv ==
  ASSUME TypeInv, AlertInv, NEW id \in Items, DispatchAlert(id)
  PROVE  AlertInv'
  <1>1. AlertTypes
    BY AlertTypesHold
  <1>2. /\ dispatch[id] = "running" /\ alerts[id] = 0 /\ count[id] > 0
    BY SMT DEF DispatchAlert, AlertInv, ItemAlertOK
  <1>3. /\ dispatch' = [dispatch EXCEPT ![id] = "sent"]
        /\ alerts' = [alerts EXCEPT ![id] = 1]
        /\ UNCHANGED <<pc, run, target, alertSlot, count>>
    BY <1>1, <1>2, SMT DEF AlertTypes, DispatchAlert, handlerVars, redisVars, pgVars
  <1>4. \A x \in Items : ItemAlertOK(x)'
    BY <1>1, <1>2, <1>3, SMT DEF AlertTypes, AlertInv, ItemAlertOK, Untouched
  <1>5. \A x \in Signals : HandlerAlertOK(x)'
    <2> SUFFICES ASSUME NEW x \in Signals PROVE HandlerAlertOK(x)'
      OBVIOUS
    <2>1. HandlerAlertOK(x) /\ Candidate(x)' = Candidate(x)
      BY <1>3 DEF AlertInv, Candidate
    <2>2. pc[x] \in BeforeAlert \cup {"setalert"} =>
            Candidate(x) \in Items /\ Candidate(x) # id
      BY <1>1, <1>2, <2>1, SMT DEF AlertTypes, HandlerAlertOK, BeforeAlert, Untouched
    <2>3. QED
      BY <1>1, <1>3, <2>1, <2>2, SMT
      DEF AlertTypes, HandlerAlertOK, BeforeAlert, Untouched
  <1>6. QED
    BY <1>4, <1>5 DEF AlertInv

\* Every step keeps at most one dispatch per work item, started after its commit.
LEMMA NextAlertInv == TypeInv /\ AlertInv /\ [Next]_vars => AlertInv'
  <1> SUFFICES ASSUME TypeInv, AlertInv, [Next]_vars PROVE AlertInv'
    OBVIOUS
  <1>0. AlertTypes
    BY AlertTypesHold
  <1> USE <1>0 DEF AlertTypes, AlertInv, ItemAlertOK, HandlerAlertOK, BeforeAlert, Untouched,
          Candidate, queueVars, handlerVars, redisVars, pgVars, alertVars
  <1>1. ASSUME NEW s \in Signals, Start(s) PROVE AlertInv'
    BY <1>1, SMT DEF Start, Goto
  <1>2. ASSUME NEW s \in Signals, IsJobProcessed(s) PROVE AlertInv'
    BY <1>2, GateAlertInv
  <1>3. ASSUME NEW s \in Signals, PersistSignal(s) PROVE AlertInv'
    BY <1>3, SMT DEF PersistSignal, Goto
  <1>4. ASSUME NEW s \in Signals, IncrementSignalCounter(s) PROVE AlertInv'
    BY <1>4, SMT DEF IncrementSignalCounter, Goto
  <1>5. ASSUME NEW s \in Signals, ClaimDebounceSlot(s) PROVE AlertInv'
    BY <1>5, SMT DEF ClaimDebounceSlot, Claimable, DebounceKey, Goto
  <1>6. ASSUME NEW s \in Signals, CreateWorkItem(s) PROVE AlertInv'
    BY <1>6, CreateAlertInv
  <1>7. ASSUME NEW s \in Signals, ClaimAlertSlot(s) PROVE AlertInv'
    BY <1>7, ClaimAlertInv
  <1>8. ASSUME NEW s \in Signals, AlertSettles(s) PROVE AlertInv'
    BY <1>8, SMT DEF AlertSettles, Goto
  <1>9. ASSUME NEW s \in Signals, AlertTimesOut(s) PROVE AlertInv'
    BY <1>9, SMT DEF AlertTimesOut, Goto
  <1>10. ASSUME NEW s \in Signals, CheckDebounce(s) PROVE AlertInv'
    BY <1>10, SMT DEF CheckDebounce, DebounceKey, Defer, EndRun, Goto
  <1>11. ASSUME NEW s \in Signals, RefreshDebounceIfUnchanged(s) PROVE AlertInv'
    BY <1>11, SMT DEF RefreshDebounceIfUnchanged, DebounceKey, Defer, EndRun, Goto
  <1>12. ASSUME NEW s \in Signals, RecordSignalAndIncrement(s) PROVE AlertInv'
    BY <1>12, RecordAlertInv
  <1>13. ASSUME NEW s \in Signals, UpdateSignalWorkItemId(s) PROVE AlertInv'
    BY <1>13, SMT DEF UpdateSignalWorkItemId, Goto
  <1>14. ASSUME NEW s \in Signals, MarkJobProcessed(s) PROVE AlertInv'
    BY <1>14, SMT DEF MarkJobProcessed, Goto
  <1>15. ASSUME NEW s \in Signals, Return(s) PROVE AlertInv'
    BY <1>15, SMT DEF Return, Complete, EndRun, Goto
  <1>16. ASSUME NEW s \in Signals, CallFails(s) PROVE AlertInv'
    BY <1>16, SMT DEF CallFails, FailAttempt, Exhausted, EndRun, Goto
  <1>17. ASSUME NEW s \in Signals, ExpireProcessed(s) PROVE AlertInv'
    BY <1>17, SMT DEF ExpireProcessed
  <1>18. ASSUME NEW id \in Items, DispatchAlert(id) PROVE AlertInv'
    BY <1>18, DispatchAlertInv
  <1>19. ASSUME NEW id \in Items, ConfirmAlertDelivered(id) PROVE AlertInv'
    BY <1>19, SMT DEF ConfirmAlertDelivered
  <1>20. ASSUME NEW id \in Items, AlertRejects(id) PROVE AlertInv'
    BY <1>20, SMT DEF AlertRejects
  <1>21. ASSUME NEW id \in Items, ExpireAlertSlot(id) PROVE AlertInv'
    BY <1>21, SMT DEF ExpireAlertSlot
  <1>22. ASSUME NEW c \in Components, ExpireSlot(c) PROVE AlertInv'
    BY <1>22, SMT DEF ExpireSlot
  <1>23. CASE Crash
    BY <1>23, SMT DEF Crash
  <1>24. CASE UNCHANGED vars
    BY <1>24, SMT DEF vars
  <1>25. ASSUME NEW s \in Signals, ReadAlertSlot(s) PROVE AlertInv'
    BY <1>25, SMT DEF ReadAlertSlot, Goto
  <1>26. ASSUME NEW s \in Signals, ReplyLost(s) PROVE AlertInv'
    BY <1>26, ReplyLostAlertInv
  <1>27. QED
    BY <1>1, <1>2, <1>3, <1>4, <1>5, <1>6, <1>7, <1>8, <1>9, <1>10, <1>11, <1>12,
       <1>13, <1>14, <1>15, <1>16, <1>17, <1>18, <1>19, <1>20, <1>21, <1>22, <1>23,
       <1>24, <1>25, <1>26 DEF Next, HandlerStep, DispatchStep, Idle

\* At most one dispatch per work item, in every reachable state.
LEMMA AlertInvariant == Spec => [](TypeInv /\ AlertInv)
  BY InitTypeInv, NextTypeInv, InitAlertInv, NextAlertInv, PTL DEF Spec

\* No duplicate alerts, and none for an item that was not committed, whatever
\* times out, fails, crashes or lapses.
THEOREM AlertsCorrect == Spec => []AlertedOnceAfterCommit
  <1>1. TypeInv /\ AlertInv => AlertedOnceAfterCommit
    BY SMT DEF TypeInv, TypeOK, AlertInv, ItemAlertOK, AlertedOnceAfterCommit, Opened
  <1>2. QED
    BY <1>1, AlertInvariant, PTL

\* The alert key only ever tells a run about that run's own lost reply: it is missing at
\* the GET, and at the SET NX it is missing, or "pending" with nothing dispatched.
AlertKeyOwn ==
    \A s \in Signals :
        /\ pc[s] = "alert" => alertSlot[target[s]] = "missing"
        /\ pc[s] = "setalert" =>
             \/ alertSlot[target[s]] = "missing"
             \/ /\ alertSlot[target[s]] = "pending"
                /\ dispatch[target[s]] = "none" /\ alerts[target[s]] = 0

\* No key of an earlier attempt is ever read back, as the code's comment on retries has
\* it: a retry draws a new id, and its key is its own.
THEOREM AlertKeyIsOwn == Spec => []AlertKeyOwn
  <1>1. TypeInv /\ AlertInv => AlertKeyOwn
    <2> SUFFICES ASSUME TypeInv, AlertInv, NEW s \in Signals,
                        pc[s] \in {"alert", "setalert"}
                 PROVE  /\ pc[s] = "alert" => alertSlot[target[s]] = "missing"
                        /\ pc[s] = "setalert" =>
                             \/ alertSlot[target[s]] = "missing"
                             \/ /\ alertSlot[target[s]] = "pending"
                                /\ dispatch[target[s]] = "none" /\ alerts[target[s]] = 0
      BY DEF AlertKeyOwn
    <2>1. target[s] = Candidate(s) /\ target[s] \in Items /\ HandlerAlertOK(s)
      BY DEF AlertInv, HandlerAlertOK, TypeInv, HandlerOK
    <2>2. alertSlot[target[s]] \in {"missing", "pending", "delivered"}
      BY <2>1 DEF TypeInv, TypeOK
    <2>3. QED
      BY <2>1, <2>2 DEF HandlerAlertOK, BeforeAlert, Untouched
  <1>2. QED
    BY <1>1, AlertInvariant, PTL

-----------------------------------------------------------------------------
(* Debounce windows.                                                       *)

\* An item exists, or the winner of the claim is about to create it.
Won(id) == \/ count[id] > 0
           \/ pc[id.signal] = "create" /\ target[id.signal] = id
WonOn(c) == {id \in Items : ItemComponent(id) = c /\ Won(id)}

\* Every win but the current key's was followed by a lapse of the key.
Windows(c) == expired[c] + (IF slot[c] = NoItem THEN 0 ELSE 1)
WindowInv == \A c \in Components :
                IsFiniteSet(WonOn(c)) /\ Cardinality(WonOn(c)) <= Windows(c)

\* No component has a work item, and no key has lapsed, at the start.
LEMMA InitWindowInv == Init => WindowInv
  <1> SUFFICES ASSUME Init, NEW c \in Components
               PROVE  IsFiniteSet(WonOn(c)) /\ Cardinality(WonOn(c)) <= Windows(c)
    BY DEF WindowInv
  <1>1. WonOn(c) = {}
    BY SMT DEF Init, WonOn, Won, Items
  <1>2. Windows(c) = 0
    BY SMT DEF Init, Windows
  <1>3. QED
    BY <1>1, <1>2, FS_EmptySet, SMT

\* Every step but a won claim and a lapse: no new win, the key stays.
NoNewWin == /\ \A id \in Items : Won(id)' => Won(id)
            /\ UNCHANGED <<slot, expired>>

\* A step that neither wins a claim nor moves a key opens no further window.
LEMMA NoNewWinWindowInv ==
  ASSUME TypeInv, WindowInv, NoNewWin PROVE WindowInv'
  <1> SUFFICES ASSUME NEW c \in Components
               PROVE  IsFiniteSet(WonOn(c)') /\ Cardinality(WonOn(c)') <= Windows(c)'
    BY DEF WindowInv
  <1>1. WonOn(c)' \subseteq WonOn(c)
    BY DEF NoNewWin, WonOn, ItemComponent
  <1>2. IsFiniteSet(WonOn(c)) /\ Cardinality(WonOn(c)) <= Windows(c)
    BY DEF WindowInv
  <1>3. /\ IsFiniteSet(WonOn(c)')
        /\ Cardinality(WonOn(c)') <= Cardinality(WonOn(c))
    BY <1>1, <1>2, FS_Subset
  <1>4. Cardinality(WonOn(c)) \in Nat /\ Cardinality(WonOn(c)') \in Nat
    BY <1>2, <1>3, FS_CardinalityType
  <1>5. Windows(c) \in Nat /\ Windows(c)' = Windows(c)
    BY SMT DEF TypeInv, TypeOK, NoNewWin, Windows
  <1>6. QED
    BY <1>2, <1>3, <1>4, <1>5, SMT

\* The claim: one more win, on a key that was missing.
LEMMA ClaimWindowInv ==
  ASSUME TypeInv, WindowInv, NEW s \in Signals, ClaimDebounceSlot(s)
  PROVE  WindowInv'
  <1>1. /\ AlertTypes /\ ComponentOf[s] \in Components /\ pc[s] = "claim"
        /\ Candidate(s) \in Items /\ Candidate(s) # NoItem
    BY SignalsAssumption, NoItemAssumption, AlertTypesHold, SMT
    DEF SignalsAssumption, NoItemAssumption, AlertTypes, ClaimDebounceSlot
  <1>2. CASE ~Claimable(ComponentOf[s])
    <2>1. NoNewWin
      BY <1>1, <1>2, SMT DEF AlertTypes, ClaimDebounceSlot, DebounceKey, Goto, NoNewWin,
         Won, pgVars, boundVars, Items
    <2>2. QED
      BY <2>1, NoNewWinWindowInv
  <1>3. CASE Claimable(ComponentOf[s])
    <2>0. PICK t : t = Candidate(s)
      OBVIOUS
    <2>1. /\ slot[ComponentOf[s]] = NoItem
          /\ slot' = [slot EXCEPT ![ComponentOf[s]] = t]
          /\ target' = [target EXCEPT ![s] = t]
          /\ pc' = [pc EXCEPT ![s] = "create"]
          /\ UNCHANGED <<count, expired>>
      BY <1>3, <2>0 DEF ClaimDebounceSlot, Claimable, DebounceKey, Goto, pgVars, boundVars
    <2>2. t.signal = s /\ ItemComponent(t) = ComponentOf[s]
      BY <2>0 DEF Candidate, ItemComponent
    <2>3. \A id \in Items : Won(id)' => Won(id) \/ id = t
      BY <1>1, <2>1, SMT DEF AlertTypes, Won, Items
    <2> SUFFICES ASSUME NEW c \in Components
                 PROVE  IsFiniteSet(WonOn(c)') /\ Cardinality(WonOn(c)') <= Windows(c)'
      BY DEF WindowInv
    <2>4. /\ IsFiniteSet(WonOn(c)) /\ Cardinality(WonOn(c)) <= Windows(c)
          /\ Cardinality(WonOn(c)) \in Nat
      BY FS_CardinalityType DEF WindowInv
    <2>5. slot \in [Components -> ItemOrNone] /\ expired[c] \in Nat
      BY SMT DEF TypeInv, TypeOK
    <2>6. CASE c # ComponentOf[s]
      <3>1. WonOn(c)' \subseteq WonOn(c)
        BY <2>2, <2>3, <2>6 DEF WonOn, ItemComponent
      <3>2. /\ IsFiniteSet(WonOn(c)') /\ Cardinality(WonOn(c)') \in Nat
            /\ Cardinality(WonOn(c)') <= Cardinality(WonOn(c))
        BY <2>4, <3>1, FS_Subset, FS_CardinalityType
      <3>3. Windows(c)' = Windows(c) /\ Windows(c) \in Nat
        BY <2>1, <2>5, <2>6, SMT DEF Windows
      <3>4. QED
        BY <2>4, <3>2, <3>3, SMT
    <2>7. CASE c = ComponentOf[s]
      <3>1. WonOn(c)' \subseteq WonOn(c) \cup {t}
        BY <2>3 DEF WonOn, ItemComponent
      <3>2. /\ IsFiniteSet(WonOn(c) \cup {t})
            /\ Cardinality(WonOn(c) \cup {t}) <= Cardinality(WonOn(c)) + 1
        <4>1. CASE t \in WonOn(c)
          <5>1. WonOn(c) \cup {t} = WonOn(c)
            BY <4>1
          <5>2. QED
            BY <2>4, <5>1, SMT
        <4>2. CASE t \notin WonOn(c)
          <5>1. /\ IsFiniteSet(WonOn(c) \cup {t})
                /\ Cardinality(WonOn(c) \cup {t}) = Cardinality(WonOn(c)) + 1
            BY <2>4, <4>2, FS_AddElement
          <5>2. QED
            BY <2>4, <5>1, SMT
        <4>3. QED
          BY <4>1, <4>2
      <3>3. /\ IsFiniteSet(WonOn(c)') /\ Cardinality(WonOn(c)') \in Nat
            /\ Cardinality(WonOn(c)') <= Cardinality(WonOn(c) \cup {t})
            /\ Cardinality(WonOn(c) \cup {t}) \in Nat
        BY <3>1, <3>2, FS_Subset, FS_CardinalityType
      <3>4. Windows(c)' = Windows(c) + 1 /\ Windows(c) \in Nat
        BY <1>1, <2>0, <2>1, <2>5, <2>7, SMT DEF Windows
      <3>5. QED
        BY <2>4, <3>2, <3>3, <3>4, SMT
    <2>8. QED
      BY <2>6, <2>7
  <1>4. QED
    BY <1>2, <1>3

\* A lapse: the same wins, one window more.
LEMMA ExpireWindowInv ==
  ASSUME TypeInv, WindowInv, NEW k \in Components, ExpireSlot(k)
  PROVE  WindowInv'
  <1> SUFFICES ASSUME NEW c \in Components
               PROVE  IsFiniteSet(WonOn(c)') /\ Cardinality(WonOn(c)') <= Windows(c)'
    BY DEF WindowInv
  <1>1. WonOn(c)' = WonOn(c)
    BY DEF ExpireSlot, WonOn, Won, ItemComponent, handlerVars, pgVars
  <1>2. Windows(c)' = Windows(c)
    BY SMT DEF TypeInv, TypeOK, ExpireSlot, Windows
  <1>3. QED
    BY <1>1, <1>2 DEF WindowInv

\* A lost reply: at most the key is set, with no win.
LEMMA ReplyLostWindowInv ==
  ASSUME TypeInv, WindowInv, NEW s \in Signals, ReplyLost(s)
  PROVE  WindowInv'
  <1>1. /\ pc \in [Signals -> Labels] /\ target \in [Signals -> ItemOrNone]
        /\ slot \in [Components -> ItemOrNone] /\ ComponentOf[s] \in Components
        /\ expired \in [Components -> Nat] /\ \A id \in Items : id.signal \in Signals
    BY SignalsAssumption, SMT DEF TypeInv, TypeOK, SignalsAssumption, Items
  <1>2. /\ UNCHANGED <<count, expired>>
        /\ \/ UNCHANGED <<pc, target>>
           \/ /\ pc' = [pc EXCEPT ![s] = "idle"]
              /\ target' = [target EXCEPT ![s] = NoItem]
    BY DEF ReplyLost, FailAttempt, EndRun, Goto, pgVars, handlerVars
  <1>3. \A id \in Items : Won(id)' => Won(id)
    BY <1>1, <1>2 DEF Won
  <1>4. CASE UNCHANGED slot
    BY <1>2, <1>3, <1>4, NoNewWinWindowInv DEF NoNewWin
  <1>5. CASE /\ slot[ComponentOf[s]] = NoItem
             /\ slot' = [slot EXCEPT ![ComponentOf[s]] = Candidate(s)]
    <2> SUFFICES ASSUME NEW c \in Components
                 PROVE  IsFiniteSet(WonOn(c)') /\ Cardinality(WonOn(c)') <= Windows(c)'
      BY DEF WindowInv
    <2>1. WonOn(c)' \subseteq WonOn(c)
      BY <1>3 DEF WonOn, ItemComponent
    <2>2. IsFiniteSet(WonOn(c)) /\ Cardinality(WonOn(c)) <= Windows(c)
      BY DEF WindowInv
    <2>3. /\ IsFiniteSet(WonOn(c)') /\ Cardinality(WonOn(c)') <= Cardinality(WonOn(c))
          /\ Cardinality(WonOn(c)) \in Nat /\ Cardinality(WonOn(c)') \in Nat
      BY <2>1, <2>2, FS_Subset, FS_CardinalityType
    <2>4. slot[c] # NoItem => slot'[c] = slot[c]
      BY <1>1, <1>5
    <2>5. Windows(c) \in Nat /\ Windows(c)' \in Nat /\ Windows(c) <= Windows(c)'
      BY <1>1, <1>2, <2>4, SMT DEF Windows
    <2>6. QED
      BY <2>2, <2>3, <2>5, SMT
  <1>6. QED
    BY <1>4, <1>5 DEF ReplyLost, TakesEffect, Claimable, DebounceKey

\* Every step keeps the wins of a component within the lives of its key.
LEMMA NextWindowInv ==
  TypeInv /\ IdsAgree /\ WindowInv /\ [Next]_vars => WindowInv'
  <1> SUFFICES ASSUME TypeInv, IdsAgree, WindowInv, [Next]_vars PROVE WindowInv'
    OBVIOUS
  <1>0. \A id \in Items : id.signal \in Signals
    BY DEF Items
  <1> USE <1>0 DEF TypeInv, TypeOK, HandlerOK, IdsAgree, NoNewWin, Won, queueVars,
          handlerVars, redisVars, pgVars, boundVars
  <1>1. ASSUME NEW s \in Signals, Start(s) PROVE WindowInv'
    <2>1. NoNewWin
      BY <1>1, SMT DEF Start, Goto
    <2>2. QED
      BY <2>1, NoNewWinWindowInv
  <1>2. ASSUME NEW s \in Signals, IsJobProcessed(s) PROVE WindowInv'
    <2>1. NoNewWin
      BY <1>2, SMT DEF IsJobProcessed, Complete, EndRun, Goto
    <2>2. QED
      BY <2>1, NoNewWinWindowInv
  <1>3. ASSUME NEW s \in Signals, PersistSignal(s) PROVE WindowInv'
    <2>1. NoNewWin
      BY <1>3, SMT DEF PersistSignal, Goto
    <2>2. QED
      BY <2>1, NoNewWinWindowInv
  <1>4. ASSUME NEW s \in Signals, IncrementSignalCounter(s) PROVE WindowInv'
    <2>1. NoNewWin
      BY <1>4, SMT DEF IncrementSignalCounter, Goto
    <2>2. QED
      BY <2>1, NoNewWinWindowInv
  <1>5. ASSUME NEW s \in Signals, ClaimDebounceSlot(s) PROVE WindowInv'
    BY <1>5, ClaimWindowInv
  <1>6. ASSUME NEW s \in Signals, CreateWorkItem(s) PROVE WindowInv'
    <2>1. NoNewWin
      BY <1>6, SMT DEF CreateWorkItem, IsNew, Goto
    <2>2. QED
      BY <2>1, NoNewWinWindowInv
  <1>7. ASSUME NEW s \in Signals, ClaimAlertSlot(s) PROVE WindowInv'
    <2>1. NoNewWin
      BY <1>7, SMT DEF ClaimAlertSlot, AlertClaimable, Goto
    <2>2. QED
      BY <2>1, NoNewWinWindowInv
  <1>8. ASSUME NEW s \in Signals, AlertSettles(s) PROVE WindowInv'
    <2>1. NoNewWin
      BY <1>8, SMT DEF AlertSettles, Goto
    <2>2. QED
      BY <2>1, NoNewWinWindowInv
  <1>9. ASSUME NEW s \in Signals, AlertTimesOut(s) PROVE WindowInv'
    <2>1. NoNewWin
      BY <1>9, SMT DEF AlertTimesOut, Goto
    <2>2. QED
      BY <2>1, NoNewWinWindowInv
  <1>10. ASSUME NEW s \in Signals, CheckDebounce(s) PROVE WindowInv'
    <2>1. NoNewWin
      BY <1>10, SMT DEF CheckDebounce, DebounceKey, Defer, EndRun, Goto
    <2>2. QED
      BY <2>1, NoNewWinWindowInv
  <1>11. ASSUME NEW s \in Signals, RefreshDebounceIfUnchanged(s) PROVE WindowInv'
    <2>1. NoNewWin
      BY <1>11, SMT DEF RefreshDebounceIfUnchanged, DebounceKey, Defer, EndRun, Goto
    <2>2. QED
      BY <2>1, NoNewWinWindowInv
  <1>12. ASSUME NEW s \in Signals, RecordSignalAndIncrement(s) PROVE WindowInv'
    <2>1. target[s] \in Items
      BY <1>12, SMT DEF RecordSignalAndIncrement
    <2>2. \A id \in Items : count'[id] > 0 => count[id] > 0
      BY <1>12, <2>1, SMT DEF RecordSignalAndIncrement, ViolatesForeignKey, Increment, IsNew
    <2>3. \A id \in Items : pc'[id.signal] = "create" /\ target'[id.signal] = id =>
                      pc[id.signal] = "create" /\ target[id.signal] = id
      BY <1>12, SMT DEF RecordSignalAndIncrement, FailAttempt, EndRun, Goto
    <2>4. NoNewWin
      BY <1>12, <2>2, <2>3, SMT DEF RecordSignalAndIncrement
    <2>5. QED
      BY <2>4, NoNewWinWindowInv
  <1>13. ASSUME NEW s \in Signals, UpdateSignalWorkItemId(s) PROVE WindowInv'
    <2>1. NoNewWin
      BY <1>13, SMT DEF UpdateSignalWorkItemId, Goto
    <2>2. QED
      BY <2>1, NoNewWinWindowInv
  <1>14. ASSUME NEW s \in Signals, MarkJobProcessed(s) PROVE WindowInv'
    <2>1. NoNewWin
      BY <1>14, SMT DEF MarkJobProcessed, Goto
    <2>2. QED
      BY <2>1, NoNewWinWindowInv
  <1>15. ASSUME NEW s \in Signals, Return(s) PROVE WindowInv'
    <2>1. NoNewWin
      BY <1>15, SMT DEF Return, Complete, EndRun, Goto
    <2>2. QED
      BY <2>1, NoNewWinWindowInv
  <1>16. ASSUME NEW s \in Signals, CallFails(s) PROVE WindowInv'
    <2>1. NoNewWin
      BY <1>16, SMT DEF CallFails, FailAttempt, Exhausted, EndRun, Goto
    <2>2. QED
      BY <2>1, NoNewWinWindowInv
  <1>17. ASSUME NEW s \in Signals, ExpireProcessed(s) PROVE WindowInv'
    <2>1. NoNewWin
      BY <1>17, SMT DEF ExpireProcessed
    <2>2. QED
      BY <2>1, NoNewWinWindowInv
  <1>18. ASSUME NEW id \in Items, DispatchAlert(id) PROVE WindowInv'
    <2>1. NoNewWin
      BY <1>18, SMT DEF DispatchAlert
    <2>2. QED
      BY <2>1, NoNewWinWindowInv
  <1>19. ASSUME NEW id \in Items, ConfirmAlertDelivered(id) PROVE WindowInv'
    <2>1. NoNewWin
      BY <1>19, SMT DEF ConfirmAlertDelivered
    <2>2. QED
      BY <2>1, NoNewWinWindowInv
  <1>20. ASSUME NEW id \in Items, AlertRejects(id) PROVE WindowInv'
    <2>1. NoNewWin
      BY <1>20, SMT DEF AlertRejects
    <2>2. QED
      BY <2>1, NoNewWinWindowInv
  <1>21. ASSUME NEW id \in Items, ExpireAlertSlot(id) PROVE WindowInv'
    <2>1. NoNewWin
      BY <1>21, SMT DEF ExpireAlertSlot
    <2>2. QED
      BY <2>1, NoNewWinWindowInv
  <1>22. ASSUME NEW c \in Components, ExpireSlot(c) PROVE WindowInv'
    BY <1>22, ExpireWindowInv
  <1>23. CASE Crash
    <2>1. NoNewWin
      BY <1>23, SMT DEF Crash
    <2>2. QED
      BY <2>1, NoNewWinWindowInv
  <1>24. CASE UNCHANGED vars
    <2>1. NoNewWin
      BY <1>24, SMT DEF vars
    <2>2. QED
      BY <2>1, NoNewWinWindowInv
  <1>25. ASSUME NEW s \in Signals, ReadAlertSlot(s) PROVE WindowInv'
    <2>1. NoNewWin
      BY <1>25, SMT DEF ReadAlertSlot, Goto
    <2>2. QED
      BY <2>1, NoNewWinWindowInv
  <1>26. ASSUME NEW s \in Signals, ReplyLost(s) PROVE WindowInv'
    BY <1>26, ReplyLostWindowInv
  <1>27. QED
    BY <1>1, <1>2, <1>3, <1>4, <1>5, <1>6, <1>7, <1>8, <1>9, <1>10, <1>11, <1>12,
       <1>13, <1>14, <1>15, <1>16, <1>17, <1>18, <1>19, <1>20, <1>21, <1>22, <1>23,
       <1>24, <1>25, <1>26 DEF Next, HandlerStep, DispatchStep, Idle

\* At most one work item per life of a component's debounce key, for any number of
\* signals and handlers and any failures.
THEOREM DebounceCorrect == Spec => []ItemsNeedWindows
  <1>1. TypeInv /\ WindowInv => ItemsNeedWindows
    <2> SUFFICES ASSUME TypeInv, WindowInv, NEW c \in Components
                 PROVE  Cardinality({id \in Opened : ItemComponent(id) = c})
                          <= 1 + expired[c]
      BY DEF ItemsNeedWindows
    <2> DEFINE S == {id \in Opened : ItemComponent(id) = c}
    <2>1. S \subseteq WonOn(c)
      BY DEF Opened, WonOn, Won
    <2>2. IsFiniteSet(WonOn(c)) /\ Cardinality(WonOn(c)) <= Windows(c)
      BY DEF WindowInv
    <2>3. /\ Cardinality(S) <= Cardinality(WonOn(c))
          /\ Cardinality(S) \in Nat /\ Cardinality(WonOn(c)) \in Nat
      BY <2>1, <2>2, FS_Subset, FS_CardinalityType
    <2>4. expired[c] \in Nat /\ Windows(c) <= 1 + expired[c] /\ Windows(c) \in Nat
      BY SMT DEF TypeInv, TypeOK, Windows
    <2> HIDE DEF S
    <2>5. Cardinality(S) <= 1 + expired[c]
      BY <2>2, <2>3, <2>4, SMT
    <2>6. QED
      BY <2>5 DEF S
  <1>2. QED
    BY <1>1, InitTypeInv, NextTypeInv, InitIdsAgree, NextIdsAgree, InitWindowInv,
       NextWindowInv, PTL DEF Spec

-----------------------------------------------------------------------------
(* The pipeline implements IncidentLedger.                                 *)

Outcomes == [s \in Signals |-> Outcome(s)]

\* What a step does to the jobs: nothing that shows, one counted job done, or some
\* pending jobs lost.
SameOutcomes == \A x \in Signals : Outcome(x)' = Outcome(x)
OneDone == \E s \in Signals : /\ Outcome(s) = "pending" /\ ledger[s] # NoItem
                              /\ Outcomes' = [Outcomes EXCEPT ![s] = "done"]
SomeLost == \A x \in Signals : \/ Outcome(x)' = Outcome(x)
                               \/ Outcome(x) = "pending" /\ Outcome(x)' = "lost"
OutcomeMoves == SameOutcomes \/ OneDone \/ SomeLost

\* A step that changes at most one job, to waiting or failed, loses at most that
\* signal.
LEMMA QueueStep ==
  ASSUME UNCHANGED pgVars, OutcomeMoves
  PROVE  [Ledger!Next]_(Ledger!vars)
  <1>0. Opened' = Opened /\ ledger' = ledger
    BY DEF pgVars, Opened
  <1>1. CASE SameOutcomes
    <2>1. Outcomes' = Outcomes
      BY <1>1, SMT DEF SameOutcomes, Outcomes
    <2>2. QED
      BY <1>0, <2>1 DEF Ledger!vars, Outcomes
  <1>2. ASSUME NEW s \in Signals, Outcome(s) = "pending", ledger[s] # NoItem,
               Outcomes' = [Outcomes EXCEPT ![s] = "done"]
        PROVE  Ledger!Next
    <2>1. Outcomes[s] = "pending"
      BY <1>2 DEF Outcomes
    <2>2. Ledger!Finish(s)
      BY <1>0, <1>2, <2>1 DEF Ledger!Finish, Ledger!Pending, Outcomes
    <2>3. QED
      BY <2>2 DEF Ledger!Next
  <1>3. CASE SomeLost
    <2> DEFINE S == {x \in Signals : Outcome(x) = "pending" /\ Outcome(x)' = "lost"}
    <2>1. \A x \in S : Outcomes[x] = "pending"
      BY DEF Outcomes
    <2>2. Outcomes' = [x \in Signals |-> IF x \in S THEN "lost" ELSE Outcomes[x]]
      BY <1>3, SMT DEF SomeLost, Outcomes
    <2>3. S \in SUBSET Signals
      OBVIOUS
    <2> HIDE DEF S
    <2>4. Ledger!GiveUp(S)
      BY <1>0, <2>1, <2>2, <2>3 DEF Ledger!GiveUp, Ledger!Pending, Outcomes
    <2>5. QED
      BY <2>3, <2>4 DEF Ledger!Next
  <1>4. QED
    BY <1>1, <1>2, <1>3 DEF OutcomeMoves, OneDone

\* A job that completes at the gate or at the end leaves its signal done.
LEMMA CompleteIsDone ==
  ASSUME TypeInv, NEW s \in Signals, pc[s] # "idle", ledger[s] # NoItem, Complete(s)
  PROVE  OneDone
  <1>1. job[s] = "active" /\ job \in [Signals -> {"waiting", "active", "completed", "failed"}]
    BY DEF TypeInv, TypeOK, HandlerOK
  <1>2. job' = [job EXCEPT ![s] = "completed"]
    BY DEF Complete
  <1>3. Outcome(s) = "pending"
    BY <1>1, SMT DEF Outcome
  <1>4. ASSUME NEW x \in Signals
        PROVE  Outcome(x)' = IF x = s THEN "done" ELSE Outcome(x)
    <2>1. CASE x = s
      BY <1>1, <1>2, <2>1, SMT DEF Outcome
    <2>2. CASE x # s
      <3>1. job'[x] = job[x]
        BY <1>1, <1>2, <2>2, SMT
      <3>2. QED
        BY <2>2, <3>1 DEF Outcome
    <2>3. QED
      BY <2>1, <2>2
  <1>5. Outcomes' = [Outcomes EXCEPT ![s] = "done"]
    <2>1. Outcomes' = [x \in Signals |-> IF x = s THEN "done" ELSE Outcome(x)]
      BY <1>4 DEF Outcomes
    <2>2. \A f : f = [x \in Signals |-> Outcome(x)] =>
              [f EXCEPT ![s] = "done"] = [x \in Signals |-> IF x = s THEN "done" ELSE f[x]]
      BY SMT
    <2>3. \A x \in Signals : Outcomes[x] = Outcome(x)
      BY DEF Outcomes
    <2>4. [Outcomes EXCEPT ![s] = "done"] =
             [x \in Signals |-> IF x = s THEN "done" ELSE Outcomes[x]]
      BY <2>2 DEF Outcomes
    <2>5. QED
      BY <2>1, <2>3, <2>4
  <1>6. QED
    BY <1>3, <1>5 DEF OneDone

\* A deferral is not seen from outside: the signal stays pending.
LEMMA DeferIsSilent ==
  ASSUME TypeInv, NEW s \in Signals, pc[s] # "idle", Defer(s)
  PROVE  SameOutcomes
  BY SMT DEF TypeInv, TypeOK, HandlerOK, Defer, SameOutcomes, Outcome

\* Whatever happens to the queue is a finish, a loss of pending signals, or
\* nothing the ledger sees.
LEMMA JobSteps == TypeInv /\ WorkDone /\ [Next]_vars => OutcomeMoves
  <1> SUFFICES ASSUME TypeInv, WorkDone, [Next]_vars PROVE OutcomeMoves
    OBVIOUS
  <1> USE DEF TypeInv, TypeOK, HandlerOK, WorkDone, OutcomeMoves, SameOutcomes, OneDone,
          SomeLost, Outcomes, Outcome, queueVars
  <1>1. ASSUME NEW s \in Signals, Start(s) PROVE OutcomeMoves
    BY <1>1, SMT DEF Start, Goto
  <1>2. ASSUME NEW s \in Signals, IsJobProcessed(s) PROVE OutcomeMoves
    <2>1. CASE processed[s]
      <3>1. pc[s] # "idle" /\ ledger[s] # NoItem /\ Complete(s)
        BY <1>2, <2>1, SMT DEF IsJobProcessed
      <3>2. QED
        BY <3>1, CompleteIsDone
    <2>2. CASE ~processed[s]
      BY <1>2, <2>2, SMT DEF IsJobProcessed
    <2>3. QED
      BY <2>1, <2>2
  <1>3. ASSUME NEW s \in Signals, PersistSignal(s) PROVE OutcomeMoves
    BY <1>3, SMT DEF PersistSignal, Upsert, Candidate, Items, Goto
  <1>4. ASSUME NEW s \in Signals, IncrementSignalCounter(s) PROVE OutcomeMoves
    BY <1>4, SMT DEF IncrementSignalCounter, Goto
  <1>5. ASSUME NEW s \in Signals, ClaimDebounceSlot(s) PROVE OutcomeMoves
    BY <1>5, SMT DEF ClaimDebounceSlot, Claimable, DebounceKey, Candidate, Items, Goto
  <1>6. ASSUME NEW s \in Signals, CreateWorkItem(s) PROVE OutcomeMoves
    BY <1>6, SMT DEF CreateWorkItem, IsNew, Goto
  <1>7. ASSUME NEW s \in Signals, ClaimAlertSlot(s) PROVE OutcomeMoves
    BY <1>7, SMT DEF ClaimAlertSlot, AlertClaimable, Goto
  <1>8. ASSUME NEW s \in Signals, AlertSettles(s) PROVE OutcomeMoves
    BY <1>8, SMT DEF AlertSettles, Goto
  <1>9. ASSUME NEW s \in Signals, AlertTimesOut(s) PROVE OutcomeMoves
    BY <1>9, SMT DEF AlertTimesOut, Goto
  <1>10. ASSUME NEW s \in Signals, CheckDebounce(s) PROVE OutcomeMoves
    <2>1. pc[s] # "idle"
      BY <1>10, SMT DEF CheckDebounce
    <2>2. CASE Defer(s)
      BY <2>1, <2>2, DeferIsSilent
    <2>3. CASE ~Defer(s)
      BY <1>10, <2>3, SMT DEF CheckDebounce
    <2>4. QED
      BY <2>2, <2>3
  <1>11. ASSUME NEW s \in Signals, RefreshDebounceIfUnchanged(s) PROVE OutcomeMoves
    <2>1. pc[s] # "idle"
      BY <1>11, SMT DEF RefreshDebounceIfUnchanged
    <2>2. CASE Defer(s)
      BY <2>1, <2>2, DeferIsSilent
    <2>3. CASE ~Defer(s)
      BY <1>11, <2>3, SMT DEF RefreshDebounceIfUnchanged
    <2>4. QED
      BY <2>2, <2>3
  <1>12. ASSUME NEW s \in Signals, RecordSignalAndIncrement(s) PROVE OutcomeMoves
    BY <1>12, SMT DEF RecordSignalAndIncrement, ViolatesForeignKey, Increment, IsNew, FailAttempt, Exhausted, EndRun, Goto
  <1>13. ASSUME NEW s \in Signals, UpdateSignalWorkItemId(s) PROVE OutcomeMoves
    BY <1>13, SMT DEF UpdateSignalWorkItemId, Candidate, Goto
  <1>14. ASSUME NEW s \in Signals, MarkJobProcessed(s) PROVE OutcomeMoves
    BY <1>14, SMT DEF MarkJobProcessed, Goto
  <1>15. ASSUME NEW s \in Signals, Return(s) PROVE OutcomeMoves
    <2>1. pc[s] # "idle" /\ ledger[s] # NoItem /\ Complete(s)
      BY <1>15, SMT DEF Return
    <2>2. QED
      BY <2>1, CompleteIsDone
  <1>16. ASSUME NEW s \in Signals, CallFails(s) PROVE OutcomeMoves
    BY <1>16, SMT DEF CallFails, FailAttempt, Exhausted, EndRun, Goto
  <1>17. ASSUME NEW s \in Signals, ExpireProcessed(s) PROVE OutcomeMoves
    BY <1>17, SMT DEF ExpireProcessed
  <1>18. ASSUME NEW id \in Items, DispatchAlert(id) PROVE OutcomeMoves
    BY <1>18, SMT DEF DispatchAlert
  <1>19. ASSUME NEW id \in Items, ConfirmAlertDelivered(id) PROVE OutcomeMoves
    BY <1>19, SMT DEF ConfirmAlertDelivered
  <1>20. ASSUME NEW id \in Items, AlertRejects(id) PROVE OutcomeMoves
    BY <1>20, SMT DEF AlertRejects
  <1>21. ASSUME NEW id \in Items, ExpireAlertSlot(id) PROVE OutcomeMoves
    BY <1>21, SMT DEF ExpireAlertSlot
  <1>22. ASSUME NEW c \in Components, ExpireSlot(c) PROVE OutcomeMoves
    BY <1>22, SMT DEF ExpireSlot
  <1>23. CASE Crash
    <2>1. ASSUME NEW x \in Signals
          PROVE  \/ Outcome(x)' = Outcome(x)
                 \/ Outcome(x) = "pending" /\ Outcome(x)' = "lost"
      <3>1. CASE job[x] = "active"
        BY <1>23, <3>1, SMT DEF Crash, Active
      <3>2. CASE job[x] # "active"
        BY <1>23, <3>2, SMT DEF Crash, Active
      <3>3. QED
        BY <3>1, <3>2
    <2>2. QED
      BY <2>1
  <1>24. CASE UNCHANGED vars
    BY <1>24, SMT DEF vars
  <1>25. ASSUME NEW s \in Signals, ReadAlertSlot(s) PROVE OutcomeMoves
    BY <1>25, SMT DEF ReadAlertSlot, Goto
  <1>26. ASSUME NEW s \in Signals, ReplyLost(s) PROVE OutcomeMoves
    <2>1. pc[s] # "idle"
      BY <1>26 DEF ReplyLost, TakesEffect
    <2>2. CASE UNCHANGED job
      BY <2>2 DEF Outcome
    <2>3. CASE FailAttempt(s)
      BY <2>1, <2>3, SMT DEF FailAttempt
    <2>4. QED
      BY <1>26, <2>2, <2>3 DEF ReplyLost
  <1>27. QED
    BY <1>1, <1>2, <1>3, <1>4, <1>5, <1>6, <1>7, <1>8, <1>9, <1>10, <1>11, <1>12,
       <1>13, <1>14, <1>15, <1>16, <1>17, <1>18, <1>19, <1>20, <1>21, <1>22, <1>23,
       <1>24, <1>25, <1>26 DEF Next, HandlerStep, DispatchStep, Idle

\* The winner's transaction counts it on its new item, or opens a further one.
LEMMA CreateStep ==
  ASSUME TypeInv, IdsAgree, NEW s \in Signals, CreateWorkItem(s)
  PROVE  [Ledger!Next]_(Ledger!vars)
  <1> DEFINE t == target[s]
  <1>1. /\ t \in Items /\ t # NoItem /\ ItemComponent(t) = ComponentOf[s]
        /\ Outcome(s) = "pending"
    BY NoItemAssumption, SMT
    DEF TypeInv, HandlerOK, IdsAgree, NoItemAssumption, CreateWorkItem, Outcome
  <1>2. Outcomes' = Outcomes
    BY DEF CreateWorkItem, queueVars, Outcomes, Outcome
  <1>3. Outcomes[s] = "pending"
    BY <1>1 DEF Outcomes
  <1>4. Opened' = Opened \cup {t}
    BY <1>1, SMT DEF TypeInv, TypeOK, CreateWorkItem, Opened
  <1>5. ledger' = [ledger EXCEPT ![s] = IF ledger[s] = NoItem THEN t ELSE ledger[s]]
    BY DEF CreateWorkItem, IsNew
  <1>6. CASE ledger[s] = NoItem
    <2>1. Ledger!Count(s, t)
      BY <1>1, <1>2, <1>3, <1>4, <1>5, <1>6 DEF Ledger!Count, Ledger!Pending, Outcomes
    <2>2. QED
      BY <1>1, <2>1 DEF Ledger!Next
  <1>7. CASE ledger[s] # NoItem
    <2>1. ledger' = ledger
      BY <1>5, <1>7, SMT DEF TypeInv, TypeOK
    <2>2. CASE t \in Opened
      BY <1>2, <1>4, <2>1, <2>2 DEF Ledger!vars, Outcomes
    <2>3. CASE t \notin Opened
      <3>1. Ledger!Reopen(s, t)
        BY <1>1, <1>2, <1>3, <1>4, <1>7, <2>1, <2>3 DEF Ledger!Reopen, Ledger!Pending, Outcomes
      <3>2. QED
        BY <1>1, <3>1 DEF Ledger!Next
    <2>4. QED
      BY <2>2, <2>3
  <1>8. QED
    BY <1>6, <1>7

\* The loser's transaction counts it on an item that is open already.
LEMMA RecordStep ==
  ASSUME TypeInv, IdsAgree, NEW s \in Signals, RecordSignalAndIncrement(s),
         ~ViolatesForeignKey(s)
  PROVE  [Ledger!Next]_(Ledger!vars)
  <1> DEFINE t == target[s]
  <1>1. /\ t \in Items /\ ItemComponent(t) = ComponentOf[s]
        /\ Outcome(s) = "pending"
    BY NoItemAssumption, SMT
    DEF TypeInv, HandlerOK, IdsAgree, NoItemAssumption, RecordSignalAndIncrement, Outcome
  <1>2. job' = job
    BY DEF RecordSignalAndIncrement, queueVars
  <1>3. Outcomes' = Outcomes /\ Outcomes[s] = "pending"
    BY <1>1, <1>2 DEF Outcomes, Outcome
  <1>4. count \in [Items -> Nat] /\ ledger \in [Signals -> ItemOrNone]
    BY DEF TypeInv, TypeOK
  <1>5. CASE ledger[s] = NoItem
    <2>1. t \in Opened
      BY <1>1, <1>4, <1>5, SMT DEF ViolatesForeignKey, IsNew, Opened
    <2>2. /\ count' = [count EXCEPT ![t] = count[t] + 1]
          /\ ledger' = [ledger EXCEPT ![s] = t]
      BY <1>5 DEF RecordSignalAndIncrement, Increment, IsNew
    <2>3. Opened' = Opened
      BY <1>1, <1>4, <2>1, <2>2, SMT DEF Opened
    <2>4. Ledger!Count(s, t)
      BY <1>1, <1>3, <1>5, <2>1, <2>2, <2>3 DEF Ledger!Count, Ledger!Pending, Outcomes
    <2>5. QED
      BY <1>1, <2>4 DEF Ledger!Next
  <1>6. CASE ledger[s] # NoItem
    <2>1. count' = count /\ ledger' = ledger
      BY <1>1, <1>4, <1>6, SMT DEF RecordSignalAndIncrement, Increment, IsNew
    <2>2. QED
      BY <1>3, <2>1 DEF Ledger!vars, Outcomes, Opened
  <1>7. QED
    BY <1>5, <1>6

\* The pipeline implements the abstract ledger: initial states map to initial
\* states and every step to a step or a stutter, under any failures.
THEOREM PipelineImplementsLedger == Spec => ImplementsLedger
  <1>1. Init => Ledger!Init
    BY SMT DEF Init, Ledger!Init, Opened, Outcome
  <1>2. TypeInv /\ IdsAgree /\ WorkDone /\ [Next]_vars => [Ledger!Next]_(Ledger!vars)
    <2> SUFFICES ASSUME TypeInv, IdsAgree, WorkDone, [Next]_vars
                 PROVE  [Ledger!Next]_(Ledger!vars)
      OBVIOUS
    <2>1. CASE UNCHANGED pgVars
      BY <2>1, JobSteps, QueueStep
    <2>2. CASE \E s \in Signals : CreateWorkItem(s)
      BY <2>2, CreateStep
    <2>3. CASE \E s \in Signals : RecordSignalAndIncrement(s) /\ ~ViolatesForeignKey(s)
      BY <2>3, RecordStep
    <2>4. QED
      BY <2>1, <2>2, <2>3, TableSteps
  <1>3. QED
    BY <1>1, <1>2, WorkDoneInvariant, PTL DEF Spec, ImplementsLedger, Ledger!Spec
=============================================================================
