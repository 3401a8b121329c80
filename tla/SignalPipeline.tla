--------------------------- MODULE SignalPipeline ---------------------------
(***************************************************************************)
(* The signal worker (backend/src/queue/SignalQueue.ts) with the three     *)
(* stores it writes and the alerts it dispatches.                          *)
(*                                                                         *)
(* A signal is a BullMQ job.  The processor is asynchronous: up to         *)
(* Concurrency handlers run at once and interleave at every await, so one  *)
(* action here is the code from one await to the next.  A call to Redis,   *)
(* MongoDB or Postgres takes effect as a whole or not at all.  Where its   *)
(* effect is kept and its answer is lost, a call that changes nothing when *)
(* repeated is the failure of the next one; ReplyLost has the others.      *)
(* TTLs are untimed: a key may lapse at any moment, MaxExpiries (debounce  *)
(* keys, per component) and MaxLapses (all others) times.                  *)
(***************************************************************************)
EXTENDS Integers, FiniteSets

CONSTANTS
    Signals,       \* the jobs of the signal queue, one per signal_id
    Components,    \* component ids
    ComponentOf,   \* the component a signal reports on
    NoItem,        \* "no work item": a missing key, row, field or local
    MaxAttempts,   \* defaultJobOptions.attempts
    RecordTries,   \* tries of the foreign-key loop
    MaxStalls,     \* BullMQ's maxStalledCount
    Concurrency,   \* handlers one worker runs at once
    MaxRuns,       \* bound: runs of one job's handler
    MaxFaults,     \* bound: calls that fail, and replies that are lost
    MaxCrashes,    \* bound: crashes of the worker process
    MaxExpiries,   \* bound: lapses of one component's debounce key
    MaxLapses      \* bound: lapses of processed and alert keys

ASSUME SignalsAssumption ==
    /\ IsFiniteSet(Signals)
    /\ ComponentOf \in [Signals -> Components]

ASSUME BoundsAssumption ==
    /\ MaxAttempts \in Nat \ {0}
    /\ RecordTries \in Nat \ {0}
    /\ {MaxStalls, Concurrency, MaxRuns, MaxFaults, MaxCrashes, MaxExpiries,
        MaxLapses} \subseteq Nat

\* Every run of a handler draws a fresh uuid; a uuid is named by the signal and
\* the number of the run that drew it.
Items == [signal : Signals, run : 1..MaxRuns]

ASSUME NoItemAssumption == NoItem \notin Items

ItemOrNone == Items \cup {NoItem}
ItemComponent(id) == ComponentOf[id.signal]

VARIABLES
    job,           \* BullMQ: state of the job ("waiting" includes its delays)
    attempts,      \* BullMQ: attempts that ended in an error
    stalls,        \* BullMQ: times the job was found stalled
    pc,            \* the await the handler of the signal has reached
    run,           \* how many times the handler generated a candidate id
    target,        \* the handler's local workItemId
    tries,         \* foreign-key violations seen by this run
    slot,          \* Redis  debounce:<component>
    processed,     \* Redis  processed:<signal>
    alertSlot,     \* Redis  alert:sent:<item>
    signalCounter, \* Redis  metrics:signals:count, its INCRs so far
    doc,           \* Mongo  work_item_id of the signal's document
    count,         \* Postgres  work_items.signal_count; 0 is "no such row"
    ledger,        \* Postgres  signal_work_items
    dispatch,      \* the executeAlert promise of an item
    alerts,        \* alerts the outside world received for an item
    faults, crashes, expired, lapses   \* bounds used so far

queueVars   == <<job, attempts, stalls>>
handlerVars == <<pc, run, target, tries>>
redisVars   == <<slot, processed, alertSlot, signalCounter>>
pgVars      == <<count, ledger>>
alertVars   == <<dispatch, alerts>>
boundVars   == <<faults, crashes, expired, lapses>>
vars == <<queueVars, handlerVars, redisVars, doc, pgVars, alertVars, boundVars>>

Labels == {"idle", "gate", "persist", "incr", "claim", "create", "alert", "setalert",
           "await", "read", "refresh", "record", "patch", "mark", "return"}

Init ==
    /\ job = [s \in Signals |-> "waiting"]
    /\ attempts = [s \in Signals |-> 0]
    /\ stalls = [s \in Signals |-> 0]
    /\ pc = [s \in Signals |-> "idle"]
    /\ run = [s \in Signals |-> 0]
    /\ target = [s \in Signals |-> NoItem]
    /\ tries = [s \in Signals |-> 0]
    /\ slot = [c \in Components |-> NoItem]
    /\ processed = [s \in Signals |-> FALSE]
    /\ alertSlot = [id \in Items |-> "missing"]
    /\ signalCounter = 0
    /\ doc = [s \in Signals |-> NoItem]
    /\ count = [id \in Items |-> 0]
    /\ ledger = [s \in Signals |-> NoItem]
    /\ dispatch = [id \in Items |-> "none"]
    /\ alerts = [id \in Items |-> 0]
    /\ faults = 0
    /\ crashes = 0
    /\ expired = [c \in Components |-> 0]
    /\ lapses = 0

-----------------------------------------------------------------------------
(* How a run of the handler moves on and how it ends.                      *)

Active == {s \in Signals : job[s] = "active"}

\* The next await of the handler.
Goto(s, label) == pc' = [pc EXCEPT ![s] = label]

\* The run is over: its locals are gone.
EndRun(s) ==
    /\ Goto(s, "idle")
    /\ target' = [target EXCEPT ![s] = NoItem]
    /\ tries' = [tries EXCEPT ![s] = 0]
    /\ UNCHANGED run

\* The processor returned: BullMQ completes the job.
Complete(s) ==
    /\ job' = [job EXCEPT ![s] = "completed"]
    /\ EndRun(s)
    /\ UNCHANGED <<attempts, stalls>>

\* mutant: one attempt too many
Exhausted_OffByOne(n) == n > MaxAttempts
Exhausted(n) == n >= MaxAttempts

\* The processor threw: BullMQ retries the job after a backoff until the
\* attempts are used up.
FailAttempt(s) ==
    /\ attempts' = [attempts EXCEPT ![s] = @ + 1]
    /\ job' = [job EXCEPT ![s] =
                   IF Exhausted(attempts[s] + 1) THEN "failed" ELSE "waiting"]
    /\ EndRun(s)
    /\ UNCHANGED stalls

\* mutants: the handler returns without moveToDelayed; it reads the key again
Defer_Returns(s) == Complete(s)
Defer_Rereads(s) ==
    /\ Goto(s, "read")
    /\ target' = [target EXCEPT ![s] = NoItem]
    /\ UNCHANGED <<queueVars, run, tries>>
\* job.moveToDelayed: the job goes back to the queue, no attempt consumed.
Defer(s) ==
    /\ job' = [job EXCEPT ![s] = "waiting"]
    /\ EndRun(s)
    /\ UNCHANGED <<attempts, stalls>>

Start(s) ==
    /\ job[s] = "waiting"
    /\ Cardinality(Active) < Concurrency
    /\ run[s] < MaxRuns
    /\ job' = [job EXCEPT ![s] = "active"]
    /\ Goto(s, "gate")
    /\ UNCHANGED <<attempts, stalls, run, target, tries, redisVars, doc, pgVars,
                   alertVars, boundVars>>

-----------------------------------------------------------------------------
(* Idempotency gate, persistence and the debounce claim.                   *)

\* mutant: one id for all runs of a signal
Candidate_Stable(s) == [signal |-> s, run |-> 1]
\* candidateWorkItemId of the current run.
Candidate(s) == [signal |-> s, run |-> run[s]]

IsJobProcessed(s) ==
    /\ pc[s] = "gate"
    /\ \/ /\ processed[s]
          /\ Complete(s)
       \/ /\ ~processed[s]
          /\ run' = [run EXCEPT ![s] = @ + 1]
          /\ Goto(s, "persist")
          /\ UNCHANGED <<queueVars, target, tries>>
    /\ UNCHANGED <<redisVars, doc, pgVars, alertVars, boundVars>>

\* mutant: an update that is not an upsert
Upsert_UpdateOnly(s) == doc[s]
\* $setOnInsert: a later run does not touch the document.
Upsert(s) == IF doc[s] = NoItem THEN Candidate(s) ELSE doc[s]

PersistSignal(s) ==
    /\ pc[s] = "persist"
    /\ doc' = [doc EXCEPT ![s] = Upsert(s)]
    /\ Goto(s, "incr")
    /\ UNCHANGED <<queueVars, run, target, tries, redisVars, pgVars, alertVars,
                   boundVars>>

\* mutant: only a first run counts its signal
IncrementSignalCounter_FirstRun(s) ==
    /\ pc[s] = "incr"
    /\ signalCounter' = IF run[s] = 1 THEN signalCounter + 1 ELSE signalCounter
    /\ Goto(s, "claim")
    /\ UNCHANGED <<queueVars, run, target, tries, slot, processed, alertSlot, doc,
                   pgVars, alertVars, boundVars>>
IncrementSignalCounter(s) ==
    /\ pc[s] = "incr"
    /\ signalCounter' = signalCounter + 1
    /\ Goto(s, "claim")
    /\ UNCHANGED <<queueVars, run, target, tries, slot, processed, alertSlot, doc,
                   pgVars, alertVars, boundVars>>

\* mutant: one debounce key for all components
DebounceKey_Shared(s) == CHOOSE c \in Components : TRUE
DebounceKey(s) == ComponentOf[s]

\* mutant: SET without NX
Claimable_NoNX(c) == TRUE
\* NX: the key can be claimed only while it is missing.
Claimable(c) == slot[c] = NoItem

ClaimDebounceSlot(s) ==
    LET c == DebounceKey(s) IN
    /\ pc[s] = "claim"
    /\ \/ /\ Claimable(c)
          /\ slot' = [slot EXCEPT ![c] = Candidate(s)]
          /\ target' = [target EXCEPT ![s] = Candidate(s)]
          /\ Goto(s, "create")
       \/ /\ ~Claimable(c)
          /\ Goto(s, "read")
          /\ UNCHANGED <<slot, target>>
    /\ UNCHANGED <<queueVars, run, tries, processed, alertSlot, signalCounter, doc,
                   pgVars, alertVars, boundVars>>

-----------------------------------------------------------------------------
(* The winner: one transaction, then the alert.                            *)

\* mutant: ON CONFLICT DO UPDATE
IsNew_Always(s) == TRUE
\* ON CONFLICT (signal_id) DO NOTHING: no row of the signal exists yet.
IsNew(s) == ledger[s] = NoItem

CreateWorkItem(s) ==
    /\ pc[s] = "create"
    /\ count' = [count EXCEPT ![target[s]] = IF @ = 0 THEN 1 ELSE @]
    /\ ledger' = [ledger EXCEPT ![s] = IF IsNew(s) THEN target[s] ELSE @]
    /\ Goto(s, "alert")
    /\ UNCHANGED <<queueVars, run, target, tries, redisVars, doc, alertVars,
                   boundVars>>

\* mutant: the key is read the wrong way round
AlertClaimable_Inverted(id) == alertSlot[id] # "missing"
\* NX: only a missing key is claimed.
AlertClaimable(id) == alertSlot[id] = "missing"

\* claimAlertSlot, its GET: an alert already delivered is skipped.
ReadAlertSlot(s) ==
    /\ pc[s] = "alert"
    /\ Goto(s, IF alertSlot[target[s]] = "delivered" THEN "patch" ELSE "setalert")
    /\ UNCHANGED <<queueVars, run, target, tries, redisVars, doc, pgVars, alertVars,
                   boundVars>>

\* Its SET NX: the alert is skipped as well when the key is taken.
ClaimAlertSlot(s) ==
    LET id == target[s] IN
    /\ pc[s] = "setalert"
    /\ \/ /\ AlertClaimable(id)
          /\ alertSlot' = [alertSlot EXCEPT ![id] = "pending"]
          /\ dispatch' = [dispatch EXCEPT ![id] = "running"]
          /\ Goto(s, "await")
       \/ /\ ~AlertClaimable(id)
          /\ Goto(s, "patch")
          /\ UNCHANGED <<alertSlot, dispatch>>
    /\ UNCHANGED <<queueVars, run, target, tries, slot, processed, signalCounter,
                   doc, pgVars, alerts, boundVars>>

\* The race is won by executeAlert; a rejection is logged and swallowed.
AlertSettles(s) ==
    /\ pc[s] = "await"
    /\ dispatch[target[s]] \in {"delivered", "failed"}
    /\ Goto(s, "patch")
    /\ UNCHANGED <<queueVars, run, target, tries, redisVars, doc, pgVars, alertVars,
                   boundVars>>

\* mutant: the timeout gives the dispatch up
AlertTimesOut_Cancels(s) ==
    /\ pc[s] = "await"
    /\ dispatch[target[s]] \in {"running", "sent"}
    /\ dispatch' = [dispatch EXCEPT ![target[s]] = "failed"]
    /\ Goto(s, "patch")
    /\ UNCHANGED <<queueVars, run, target, tries, redisVars, doc, pgVars, alerts,
                   boundVars>>
\* The race is won by the 25 s timer: swallowed too, and the dispatch goes on.
AlertTimesOut(s) ==
    /\ pc[s] = "await"
    /\ dispatch[target[s]] \in {"running", "sent"}
    /\ Goto(s, "patch")
    /\ UNCHANGED <<queueVars, run, target, tries, redisVars, doc, pgVars, alertVars,
                   boundVars>>

\* executeAlert, which outlives the handler that raced it against the timer.
DispatchAlert(id) ==
    /\ dispatch[id] = "running"
    /\ dispatch' = [dispatch EXCEPT ![id] = "sent"]
    /\ alerts' = [alerts EXCEPT ![id] = @ + 1]
    /\ UNCHANGED <<queueVars, handlerVars, redisVars, doc, pgVars, boundVars>>

ConfirmAlertDelivered(id) ==
    /\ dispatch[id] = "sent"
    /\ dispatch' = [dispatch EXCEPT ![id] = "delivered"]
    /\ alertSlot' = [alertSlot EXCEPT ![id] = "delivered"]
    /\ UNCHANGED <<queueVars, handlerVars, slot, processed, signalCounter, doc,
                   pgVars, alerts, boundVars>>

\* strategy.alert or the confirming SET rejects, the latter perhaps with its effect.
AlertRejects(id) ==
    /\ dispatch[id] \in {"running", "sent"}
    /\ faults < MaxFaults
    /\ faults' = faults + 1
    /\ dispatch' = [dispatch EXCEPT ![id] = "failed"]
    /\ \/ alertSlot' = alertSlot
       \/ /\ dispatch[id] = "sent"
          /\ alertSlot' = [alertSlot EXCEPT ![id] = "delivered"]
    /\ UNCHANGED <<queueVars, handlerVars, slot, processed, signalCounter, doc, pgVars,
                   alerts, crashes, expired, lapses>>

-----------------------------------------------------------------------------
(* The loser: read, refresh, record.                                       *)

CheckDebounce(s) ==
    LET c == DebounceKey(s) IN
    /\ pc[s] = "read"
    /\ \/ /\ slot[c] = NoItem
          /\ Defer(s)
       \/ /\ slot[c] # NoItem
          /\ target' = [target EXCEPT ![s] = slot[c]]
          /\ Goto(s, "refresh")
          /\ UNCHANGED <<queueVars, run, tries>>
    /\ UNCHANGED <<redisVars, doc, pgVars, alertVars, boundVars>>

\* The script extends the TTL only if the key still holds what was read.
RefreshDebounceIfUnchanged(s) ==
    /\ pc[s] = "refresh"
    /\ \/ /\ slot[DebounceKey(s)] # target[s]
          /\ Defer(s)
       \/ /\ slot[DebounceKey(s)] = target[s]
          /\ Goto(s, "record")
          /\ UNCHANGED <<queueVars, run, target, tries>>
    /\ UNCHANGED <<redisVars, doc, pgVars, alertVars, boundVars>>

\* The row inserted refers to no committed work item.
ViolatesForeignKey(s) == IsNew(s) /\ count[target[s]] = 0

\* mutant: the UPDATE is not guarded by isNew
Increment_Unguarded(s) == 1
Increment(s) == IF IsNew(s) THEN 1 ELSE 0

RecordSignalAndIncrement(s) ==
    /\ pc[s] = "record"
    /\ \/ /\ ViolatesForeignKey(s)
          /\ tries[s] + 1 < RecordTries
          /\ tries' = [tries EXCEPT ![s] = @ + 1]
          /\ UNCHANGED <<queueVars, pc, run, target, pgVars>>
       \/ /\ ViolatesForeignKey(s)
          /\ tries[s] + 1 >= RecordTries
          /\ FailAttempt(s)
          /\ UNCHANGED pgVars
       \/ /\ ~ViolatesForeignKey(s)
          /\ ledger' = [ledger EXCEPT ![s] = IF IsNew(s) THEN target[s] ELSE @]
          /\ count' = [count EXCEPT ![target[s]] = @ + Increment(s)]
          /\ Goto(s, "patch")
          /\ UNCHANGED <<queueVars, run, target, tries>>
    /\ UNCHANGED <<redisVars, doc, alertVars, boundVars>>

-----------------------------------------------------------------------------
(* Both: patch the document, mark the job, return.                         *)

UpdateSignalWorkItemId(s) ==
    /\ pc[s] = "patch"
    /\ doc' = [doc EXCEPT ![s] = IF target[s] # Candidate(s) THEN target[s] ELSE @]
    /\ Goto(s, "mark")
    /\ UNCHANGED <<queueVars, run, target, tries, redisVars, pgVars, alertVars,
                   boundVars>>

MarkJobProcessed(s) ==
    /\ pc[s] = "mark"
    /\ processed' = [processed EXCEPT ![s] = TRUE]
    /\ Goto(s, "return")
    /\ UNCHANGED <<queueVars, run, target, tries, slot, alertSlot, signalCounter, doc,
                   pgVars, alertVars, boundVars>>

Return(s) ==
    /\ pc[s] = "return"
    /\ Complete(s)
    /\ UNCHANGED <<redisVars, doc, pgVars, alertVars, boundVars>>

-----------------------------------------------------------------------------
(* Failures and expiries.                                                  *)

\* A call throws without effect.  What happens inside the raced alert is
\* swallowed by the handler, so it cannot throw there.
CallFails(s) ==
    /\ pc[s] \notin {"idle", "await"}
    /\ faults < MaxFaults
    /\ faults' = faults + 1
    /\ FailAttempt(s)
    /\ UNCHANGED <<redisVars, doc, pgVars, alertVars, crashes, expired, lapses>>

\* What the INCR or the SET NX under way does to Redis, whoever learns of it.
TakesEffect(s) ==
    \/ /\ pc[s] = "incr"
       /\ signalCounter' = signalCounter + 1
       /\ UNCHANGED <<slot, alertSlot>>
    \/ /\ pc[s] = "claim" /\ Claimable(DebounceKey(s))
       /\ slot' = [slot EXCEPT ![DebounceKey(s)] = Candidate(s)]
       /\ UNCHANGED <<signalCounter, alertSlot>>
    \/ /\ pc[s] = "setalert" /\ AlertClaimable(target[s])
       /\ alertSlot' = [alertSlot EXCEPT ![target[s]] = "pending"]
       /\ UNCHANGED <<signalCounter, slot>>

\* The connection breaks between the command and its reply.  ioredis reconnects and
\* sends the command again (maxRetriesPerRequest times): the handler is still at its
\* await, and an NX now finds the key it set itself.  Or it gives up and rejects.
ReplyLost(s) ==
    /\ faults < MaxFaults
    /\ faults' = faults + 1
    /\ TakesEffect(s)
    /\ FailAttempt(s) \/ UNCHANGED <<queueVars, handlerVars>>
    /\ UNCHANGED <<processed, doc, pgVars, alertVars, crashes, expired, lapses>>

StalledOut(n) == n > MaxStalls

\* The process dies with every handler and dispatch in it.  The restarted
\* worker finds the jobs stalled: requeued, or failed once too often.
Crash ==
    /\ crashes < MaxCrashes
    /\ crashes' = crashes + 1
    /\ stalls' = [s \in Signals |-> IF s \in Active THEN stalls[s] + 1 ELSE stalls[s]]
    /\ job' = [s \in Signals |->
                 IF s \notin Active THEN job[s]
                 ELSE IF StalledOut(stalls'[s]) THEN "failed" ELSE "waiting"]
    /\ pc' = [s \in Signals |-> "idle"]
    /\ target' = [s \in Signals |-> NoItem]
    /\ tries' = [s \in Signals |-> 0]
    /\ dispatch' = [id \in Items |->
                      IF dispatch[id] \in {"running", "sent"} THEN "failed"
                                                              ELSE dispatch[id]]
    /\ UNCHANGED <<attempts, run, redisVars, doc, pgVars, alerts, faults, expired,
                   lapses>>

ExpireSlot(c) ==
    /\ slot[c] # NoItem
    /\ expired[c] < MaxExpiries
    /\ expired' = [expired EXCEPT ![c] = @ + 1]
    /\ slot' = [slot EXCEPT ![c] = NoItem]
    /\ UNCHANGED <<queueVars, handlerVars, processed, alertSlot, signalCounter, doc,
                   pgVars, alertVars, faults, crashes, lapses>>

ExpireProcessed(s) ==
    /\ processed[s]
    /\ lapses < MaxLapses
    /\ lapses' = lapses + 1
    /\ processed' = [processed EXCEPT ![s] = FALSE]
    /\ UNCHANGED <<queueVars, handlerVars, slot, alertSlot, signalCounter, doc, pgVars,
                   alertVars, faults, crashes, expired>>

ExpireAlertSlot(id) ==
    /\ alertSlot[id] # "missing"
    /\ lapses < MaxLapses
    /\ lapses' = lapses + 1
    /\ alertSlot' = [alertSlot EXCEPT ![id] = "missing"]
    /\ UNCHANGED <<queueVars, handlerVars, slot, processed, signalCounter, doc, pgVars,
                   alertVars, faults, crashes, expired>>

-----------------------------------------------------------------------------
HandlerStep(s) ==
    \/ IsJobProcessed(s) \/ PersistSignal(s) \/ IncrementSignalCounter(s)
    \/ ClaimDebounceSlot(s)
    \/ CreateWorkItem(s) \/ ReadAlertSlot(s) \/ ClaimAlertSlot(s)
    \/ AlertSettles(s) \/ AlertTimesOut(s)
    \/ CheckDebounce(s) \/ RefreshDebounceIfUnchanged(s) \/ RecordSignalAndIncrement(s)
    \/ UpdateSignalWorkItemId(s) \/ MarkJobProcessed(s) \/ Return(s)

DispatchStep(id) == DispatchAlert(id) \/ ConfirmAlertDelivered(id)

Settled(s) == job[s] \in {"completed", "failed"}
Quiet(id)  == dispatch[id] \in {"none", "delivered", "failed"}

\* The queue is empty and no alert is under way.
Quiescent ==
    /\ \A s \in Signals : Settled(s)
    /\ \A id \in Items : Quiet(id)

Idle == Quiescent /\ UNCHANGED vars

Next ==
    \/ \E s \in Signals : Start(s) \/ HandlerStep(s) \/ CallFails(s) \/ ReplyLost(s)
                          \/ ExpireProcessed(s)
    \/ \E id \in Items : DispatchStep(id) \/ AlertRejects(id) \/ ExpireAlertSlot(id)
    \/ \E c \in Components : ExpireSlot(c)
    \/ Crash
    \/ Idle

Spec == Init /\ [][Next]_vars

\* The event loop resumes every handler whose call has answered, and a free
\* worker slot takes a waiting job.  Failures and expiries are never owed.
Fairness ==
    /\ \A s \in Signals : WF_vars(Start(s)) /\ WF_vars(HandlerStep(s))
    /\ \A id \in Items : WF_vars(DispatchStep(id))

FairSpec == Spec /\ Fairness

-----------------------------------------------------------------------------
(* Properties.                                                             *)

\* Type invariant: every variable holds values the program can give it, within
\* the attempts, stalls and foreign-key tries the code allows.
TypeOK ==
    /\ job \in [Signals -> {"waiting", "active", "completed", "failed"}]
    /\ attempts \in [Signals -> 0..MaxAttempts]
    /\ stalls \in [Signals -> 0..(MaxStalls + 1)]
    /\ pc \in [Signals -> Labels]
    /\ run \in [Signals -> 0..MaxRuns]
    /\ target \in [Signals -> ItemOrNone]
    /\ tries \in [Signals -> 0..(RecordTries - 1)]
    /\ slot \in [Components -> ItemOrNone]
    /\ processed \in [Signals -> BOOLEAN]
    /\ alertSlot \in [Items -> {"missing", "pending", "delivered"}]
    /\ signalCounter \in Nat
    /\ doc \in [Signals -> ItemOrNone]
    /\ count \in [Items -> Nat]
    /\ ledger \in [Signals -> ItemOrNone]
    /\ dispatch \in [Items -> {"none", "running", "sent", "delivered", "failed"}]
    /\ alerts \in [Items -> Nat]
    /\ faults \in 0..MaxFaults
    /\ crashes \in 0..MaxCrashes
    /\ expired \in [Components -> 0..MaxExpiries]
    /\ lapses \in 0..MaxLapses

Opened == {id \in Items : count[id] > 0}
RowsOf(id) == {s \in Signals : ledger[s] = id}

\* The two tables agree after any failures and retries: an open work item's
\* signal_count is its opener plus one for each other signal whose row names it.
CountMatchesLedger ==
    \A id \in Opened : count[id] = 1 + Cardinality(RowsOf(id) \ {id.signal})

\* A signal is only ever counted on a committed work item of its own component,
\* although the id travels through Redis and a local across four awaits.
CountedOnOwnComponent ==
    \A s \in Signals : ledger[s] # NoItem =>
        ledger[s] \in Opened /\ ItemComponent(ledger[s]) = ComponentOf[s]

\* A job BullMQ completed, or whose idempotency key is set, has been counted and
\* its document kept: no path through the gate or a deferral skips the work.
CompletedIsCounted ==
    \A s \in Signals : job[s] = "completed" \/ processed[s] =>
        ledger[s] # NoItem /\ doc[s] # NoItem

\* "Persist raw signal to MongoDB FIRST": no debounce key, ledger row or work
\* item names a signal whose document does not exist yet.
PersistedFirst ==
    \A s \in Signals : doc[s] = NoItem =>
        /\ ledger[s] = NoItem
        /\ \A c \in Components : slot[c] # NoItem => slot[c].signal # s
        /\ \A id \in Opened : id.signal # s

\* Debouncing: a component gets at most one work item per life of its debounce
\* key, however handlers, retries and crashes interleave.
ItemsNeedWindows ==
    \A c \in Components :
        Cardinality({id \in Opened : ItemComponent(id) = c}) <= 1 + expired[c]

\* No duplicate alerts: the outside world hears of a work item at most once, and
\* only after the transaction that opened it committed.
AlertedOnceAfterCommit ==
    \A id \in Items : /\ alerts[id] <= 1
                      /\ alerts[id] = 1 => id \in Opened

\* Work items whose alert was neither sent nor is on its way.
Silent ==
    {id \in Opened : /\ alerts[id] = 0 /\ dispatch[id] # "running"
                     /\ \A s \in Signals : pc[s] \in {"alert", "setalert"} => target[s] # id}

\* An alert is lost by a failed call or a lost reply only, and each loses at most one:
\* neither the 25 s timer, a lapsed key, a deferral nor a retry ever does.
AlertLossBounded == crashes = 0 => Cardinality(Silent) <= faults

\* The metrics counter was incremented for every completed signal, also when a
\* failure separated the upsert from the INCR.
CompletedIsMetered ==
    Cardinality({s \in Signals : job[s] = "completed"}) <= signalCounter

\* The junction table is a ledger: a signal's row is never moved or deleted, and
\* counts never fall, whatever is retried.
LedgerStable ==
    [][/\ \A s \in Signals : ledger[s] # NoItem => ledger'[s] = ledger[s]
       /\ \A id \in Items : count'[id] >= count[id]]_vars


\* "Transient failures self-heal": one failed call fails no job.
TransientFaultHeals == \A s \in Signals : job[s] # "failed"

\* "Retried N times and produce exactly the same result": a completed signal's
\* document names the work item on which the ledger counts it.
DocMatchesLedger ==
    \A s \in Signals : job[s] = "completed" => doc[s] = ledger[s]

\* Without failures the books balance when the queue is empty: each work item
\* was alerted and confirmed, and counts exactly the signals of its rows.
BooksBalance ==
    Quiescent => \A id \in Opened :
        /\ alerts[id] = 1 /\ dispatch[id] = "delivered"
        /\ count[id] = Cardinality(RowsOf(id))

\* Every job leaves the queue, completed or failed: no retry, deferral or race
\* with the alert timer goes on for ever.
EveryJobSettles == \A s \in Signals : <>[]Settled(s)

-----------------------------------------------------------------------------
(* The pipeline implements the promise of IncidentLedger.                  *)

Outcome(s) == CASE job[s] = "completed" -> "done"
                [] job[s] = "failed"    -> "lost"
                [] OTHER                -> "pending"

Ledger == INSTANCE IncidentLedger WITH
    Incidents <- Items,
    IncidentComponent <- ItemComponent,
    None <- NoItem,
    opened <- Opened,
    assigned <- ledger,
    outcome <- [s \in Signals |-> Outcome(s)]

\* Every interleaving of handlers, retries, crashes and lapses is, seen from the
\* tables and the queue, a behaviour of the abstract ledger.
ImplementsLedger == Ledger!Spec
=============================================================================
