-------------------------- MODULE WorkItemLifecycle -------------------------
(***************************************************************************)
(* The two requests that change a work item after it was opened:           *)
(* PATCH /work-items/:id/status and POST /work-items/:id/rca, handled by   *)
(* WorkItemService over one Postgres pool.  Requests run concurrently, one *)
(* action per query; what Postgres makes a query wait for is a guard:      *)
(*   - SELECT ... FOR UPDATE waits for the row of the work item;           *)
(*   - the first INSERT of an RCA takes the same row for its foreign key;  *)
(*   - a second upsert waits for the uncommitted one on the unique key.    *)
(* Nothing a transaction wrote is seen before it commits.                  *)
(***************************************************************************)
EXTENDS Integers, FiniteSets

CONSTANTS
    Requests,    \* the HTTP requests, each handled once
    Items,       \* ids a request may name
    Workloads,   \* what the requests may ask for, together
    NoRequest,   \* "nobody" as the holder of a lock
    NoRca,       \* no row in rca_records
    PoolSize,    \* config.postgres.max
    QueryTries,  \* retries of queryWithRetry
    MaxFaults    \* bound: queries that fail

ASSUME RequestsAssumption == IsFiniteSet(Requests) /\ NoRequest \notin Requests
ASSUME LimitsAssumption ==
    PoolSize \in Nat \ {0} /\ QueryTries \in Nat \ {0} /\ MaxFaults \in Nat

Statuses == {"OPEN", "INVESTIGATING", "RESOLVED", "CLOSED"}
Absent   == "absent"   \* no such row

\* What an RCA's texts and dates amount to: fine; ten blanks, which the schema's
\* min(10) lets through; or incident_end not after incident_start.
Reports == {"complete", "blank", "inverted"}

Patches == [kind : {"patch"}, item : Items, to : Statuses]
Posts   == [kind : {"post"}, item : Items, report : Reports]
Rcas    == [by : Requests, report : Reports]

ASSUME NoRcaAssumption == NoRca \notin Rcas
ASSUME WorkloadsAssumption == Workloads \subseteq [Requests -> Patches \cup Posts]

VARIABLES
    status,   \* work_items.status, or Absent
    rca,      \* the committed row of rca_records
    rowLock,  \* who holds the row of the work item
    keyLock,  \* whose uncommitted upsert holds the unique key of the RCA
    op,       \* what a request asks for
    pc,       \* the query the request is at
    tries,    \* failed tries of queryWithRetry
    answer,   \* "none", "ok" or "error"
    faults

vars == <<status, rca, rowLock, keyLock, op, pc, tries, answer, faults>>

\* Labels at which a request holds a connection of the pool.
InTransaction == {"lock", "check", "commit", "rollback", "upsert", "reference", "store"}
Labels == {"idle", "read", "connect", "done"} \cup InTransaction

Init ==
    /\ status = [i \in Items |-> Absent]
    /\ rca = [i \in Items |-> NoRca]
    /\ rowLock = [i \in Items |-> NoRequest]
    /\ keyLock = [i \in Items |-> NoRequest]
    /\ op \in Workloads
    /\ pc = [r \in Requests |-> "idle"]
    /\ tries = [r \in Requests |-> 0]
    /\ answer = [r \in Requests |-> "none"]
    /\ faults = 0

-----------------------------------------------------------------------------
IsPatch(r) == op[r].kind = "patch"
Item(r) == op[r].item

Goto(r, label) == pc' = [pc EXCEPT ![r] = label]

Answer(r, a) ==
    /\ Goto(r, "done")
    /\ answer' = [answer EXCEPT ![r] = a]

\* The canTransitionTo of the four states.
CanTransition(from, to) ==
    <<from, to>> \in {<<"OPEN", "INVESTIGATING">>, <<"INVESTIGATING", "RESOLVED">>,
                      <<"RESOLVED", "CLOSED">>}

\* The signal worker commits createWorkItem.
CreateWorkItem(i) ==
    /\ status[i] = Absent
    /\ status' = [status EXCEPT ![i] = "OPEN"]
    /\ UNCHANGED <<rca, rowLock, keyLock, op, pc, tries, answer, faults>>

\* A request passed its schema: a patch opens its transaction, a post first reads
\* the work item.
Receive(r) ==
    /\ pc[r] = "idle"
    /\ Goto(r, IF IsPatch(r) THEN "connect" ELSE "read")
    /\ UNCHANGED <<status, rca, rowLock, keyLock, op, tries, answer, faults>>

FreeConnections == PoolSize - Cardinality({r \in Requests : pc[r] \in InTransaction})

Connect(r) ==
    /\ pc[r] = "connect"
    /\ FreeConnections > 0
    /\ Goto(r, IF IsPatch(r) THEN "lock" ELSE "upsert")
    /\ UNCHANGED <<status, rca, rowLock, keyLock, op, tries, answer, faults>>

-----------------------------------------------------------------------------
(* transitionStatus                                                        *)

\* mutant: a plain SELECT does not wait
RowFree_NoLock(i) == TRUE
RowFree(i) == rowLock[i] = NoRequest

\* SELECT ... FOR UPDATE, then validateTransition on the row it returned.
LockRow(r) ==
    LET i == Item(r) IN
    /\ pc[r] = "lock"
    /\ RowFree(i)
    /\ \/ /\ status[i] = Absent
          /\ Goto(r, "rollback")
          /\ UNCHANGED rowLock
       \/ /\ status[i] # Absent
          /\ rowLock' = [rowLock EXCEPT ![i] = r]
          /\ Goto(r, CASE ~CanTransition(status[i], op[r].to) -> "rollback"
                       [] CanTransition(status[i], op[r].to) ->
                            IF op[r].to = "CLOSED" THEN "check" ELSE "commit")
    /\ UNCHANGED <<status, rca, keyLock, op, tries, answer, faults>>

\* mutant: any text will do, even none
RcaComplete_Any(record) == TRUE
RcaComplete(record) == record # NoRca /\ record.report = "complete"

\* The RCA committed when CLOSED is asked for must exist and not be blank.
CheckRca(r) ==
    /\ pc[r] = "check"
    /\ Goto(r, IF RcaComplete(rca[Item(r)]) THEN "commit" ELSE "rollback")
    /\ UNCHANGED <<status, rca, rowLock, keyLock, op, tries, answer, faults>>

\* mutant: the client is returned to the pool with its transaction open
Release_Keeps(lock, r) == lock
Release(lock, r) == [i \in Items |-> IF lock[i] = r THEN NoRequest ELSE lock[i]]

\* UPDATE and COMMIT; the answer may be lost although the status changed.
CommitTransition(r) ==
    /\ pc[r] = "commit"
    /\ status' = [status EXCEPT ![Item(r)] = op[r].to]
    /\ rowLock' = Release(rowLock, r)
    /\ \/ Answer(r, "ok") /\ UNCHANGED faults
       \/ /\ faults < MaxFaults
          /\ faults' = faults + 1
          /\ Answer(r, "error")
    /\ UNCHANGED <<rca, keyLock, op, tries>>

\* ROLLBACK and release, then the error is answered.
Rollback(r) ==
    /\ pc[r] = "rollback"
    /\ rowLock' = Release(rowLock, r)
    /\ keyLock' = Release(keyLock, r)
    /\ Answer(r, "error")
    /\ UNCHANGED <<status, rca, op, tries, faults>>

-----------------------------------------------------------------------------
(* submitRca                                                               *)

\* mutant: only a missing item is refused
Refused_NotFoundOnly(state) == state = Absent
Refused(state) == state \in {Absent, "CLOSED"}

\* getWorkItemById: no transaction, no lock; all that follows relies on it.
ReadStatus(r) ==
    LET refused == Refused(status[Item(r)]) \/ op[r].report = "inverted" IN
    /\ pc[r] = "read"
    /\ FreeConnections > 0
    /\ \/ refused /\ Answer(r, "error")
       \/ ~refused /\ Goto(r, "connect") /\ UNCHANGED answer
    /\ UNCHANGED <<status, rca, rowLock, keyLock, op, tries, faults>>

\* mutant: the last retry is followed by another
LastTry_OffByOne(n) == n > QueryTries
LastTry(n) == n >= QueryTries

\* queryWithRetry: a transient error is retried, any other is answered.
ReadFails(r) ==
    /\ pc[r] = "read"
    /\ faults < MaxFaults
    /\ faults' = faults + 1
    /\ tries' = [tries EXCEPT ![r] = @ + 1]
    /\ \/ ~LastTry(tries[r] + 1) /\ UNCHANGED <<pc, answer>>
       \/ Answer(r, "error")
    /\ UNCHANGED <<status, rca, rowLock, keyLock, op>>

\* INSERT ... ON CONFLICT: waits for another upsert of the same item; a new row
\* must also check its foreign key, an update need not.
Upsert(r) ==
    LET i == Item(r) IN
    /\ pc[r] = "upsert"
    /\ keyLock[i] = NoRequest
    /\ keyLock' = [keyLock EXCEPT ![i] = r]
    /\ Goto(r, IF rca[i] = NoRca THEN "reference" ELSE "store")
    /\ UNCHANGED <<status, rca, rowLock, op, tries, answer, faults>>

\* The foreign-key check shares the row with nobody who locked it FOR UPDATE.
Reference(r) ==
    LET i == Item(r) IN
    /\ pc[r] = "reference"
    /\ RowFree(i)
    /\ rowLock' = [rowLock EXCEPT ![i] = r]
    /\ Goto(r, "store")
    /\ UNCHANGED <<status, rca, keyLock, op, tries, answer, faults>>

CommitRca(r) ==
    /\ pc[r] = "store"
    /\ rca' = [rca EXCEPT ![Item(r)] = [by |-> r, report |-> op[r].report]]
    /\ rowLock' = Release(rowLock, r)
    /\ keyLock' = Release(keyLock, r)
    /\ \/ Answer(r, "ok") /\ UNCHANGED faults
       \/ /\ faults < MaxFaults
          /\ faults' = faults + 1
          /\ Answer(r, "error")
    /\ UNCHANGED <<status, op, tries>>

-----------------------------------------------------------------------------
\* A query inside a transaction fails, or no connection was free in time.
QueryFails(r) ==
    /\ \/ pc[r] \in InTransaction \ {"rollback"} /\ Goto(r, "rollback") /\ UNCHANGED answer
       \/ pc[r] = "connect" /\ Answer(r, "error")
    /\ faults < MaxFaults
    /\ faults' = faults + 1
    /\ UNCHANGED <<status, rca, rowLock, keyLock, op, tries>>

RequestStep(r) ==
    \/ Receive(r) \/ Connect(r)
    \/ LockRow(r) \/ CheckRca(r) \/ CommitTransition(r) \/ Rollback(r)
    \/ ReadStatus(r) \/ Upsert(r) \/ Reference(r) \/ CommitRca(r)

AllAnswered == (\A r \in Requests : pc[r] = "done") /\ UNCHANGED vars

Next ==
    \/ \E r \in Requests : RequestStep(r) \/ ReadFails(r) \/ QueryFails(r)
    \/ \E i \in Items : CreateWorkItem(i)
    \/ AllAnswered

Spec == Init /\ [][Next]_vars

\* Node resumes every request whose query has answered, and Postgres grants locks
\* and connections that stay free.
FairSpec == Spec /\ \A r \in Requests : WF_vars(RequestStep(r))

-----------------------------------------------------------------------------
(* Properties.                                                             *)

\* Type invariant, with the retries queryWithRetry allows.
TypeOK ==
    /\ status \in [Items -> Statuses \cup {Absent}]
    /\ rca \in [Items -> Rcas \cup {NoRca}]
    /\ rowLock \in [Items -> Requests \cup {NoRequest}]
    /\ keyLock \in [Items -> Requests \cup {NoRequest}]
    /\ op \in [Requests -> Patches \cup Posts]
    /\ pc \in [Requests -> Labels]
    /\ tries \in [Requests -> 0..QueryTries]
    /\ \A r \in Requests : pc[r] = "read" => tries[r] < QueryTries
    /\ answer \in [Requests -> {"none", "ok", "error"}]
    /\ faults \in 0..MaxFaults

\* Two PATCHes to the same status never both succeed, although each validated the
\* transition: "Client B reads the committed state after Client A's lock releases".
OneWinner ==
    \A q, r \in Requests :
        /\ q # r /\ IsPatch(q) /\ IsPatch(r)
        /\ op[q] = op[r]
        => ~(answer[q] = "ok" /\ answer[r] = "ok")

\* The lifecycle as others see it: see IncidentRecord.
Stages == <<"OPEN", "INVESTIGATING", "RESOLVED", "CLOSED">>
Stage(i) == IF status[i] = Absent THEN 0 ELSE CHOOSE n \in 1..4 : Stages[n] = status[i]

Record == INSTANCE IncidentRecord WITH
    stage <- [i \in Items |-> Stage(i)],
    explained <- [i \in Items |-> rca[i] # NoRca]

\* No request skips, repeats or undoes a status, and none closes an item without
\* an RCA, however transactions interleave and fail.
ImplementsRecord == Record!Spec

\* A request the server took is answered: nobody waits for ever for a row, a key
\* or a connection.
EveryRequestAnswered == \A r \in Requests : pc[r] # "idle" ~> pc[r] = "done"

\* No lock outlives its transaction: a row or key is held only by a request on
\* that item which is yet to commit or roll back, whichever of its queries failed.
LocksReturned ==
    \A i \in Items, r \in Requests :
        /\ rowLock[i] = r =>
             Item(r) = i /\ pc[r] \in {"check", "commit", "store", "rollback"}
        /\ keyLock[i] = r =>
             Item(r) = i /\ pc[r] \in {"reference", "store", "rollback"}

\* A POST that has yet to be checked although its item is closed, and what it may
\* not do from then on.
ChecksLate(r) ==
    ~IsPatch(r) /\ status[Item(r)] = "CLOSED" /\ pc[r] \in {"idle", "read"}
NotBy(r) == rca[Item(r)] # NoRca => rca[Item(r)].by # r

\* "Cannot submit RCA for a closed work item": the check is made outside the
\* transaction it protects, so a POST it let through may still replace the RCA of a
\* closed item; but one whose check is yet to come when the item closes never does.
ClosedRefusesRca == \A r \in Requests : [](ChecksLate(r) => []NotBy(r))

\* "Mandatory RCA": an item is closed only while its committed RCA is complete.
ClosedOnCompleteRca ==
    [][\A i \in Items : status'[i] # status[i] /\ status'[i] = "CLOSED"
                          => RcaComplete(rca[i])]_vars
=============================================================================
