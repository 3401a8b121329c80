----------------------- MODULE WorkItemLifecycleProofs -----------------------
(***************************************************************************)
(* Theorems about WorkItemLifecycle, for every set of requests and items,  *)
(* every workload, pool size and number of failures.                       *)
(***************************************************************************)
EXTENDS WorkItemLifecycle, Sequences, FiniteSetTheorems, TLAPS

\* A PATCH never is at a query of submitRca nor the reverse, and a request that has not
\* started has not failed.
KindOK ==
    \A r \in Requests :
        /\ pc[r] \in {"lock", "check", "commit"} => IsPatch(r)
        /\ pc[r] \in {"read", "upsert", "reference", "store"} => ~IsPatch(r)
        /\ pc[r] = "idle" => tries[r] = 0

TypeInv == TypeOK /\ KindOK

\* What a request asks for, by its kind.
LEMMA OpFacts ==
    ASSUME TypeOK, NEW r \in Requests
    PROVE  /\ Item(r) \in Items
           /\ IsPatch(r) => op[r].to \in Statuses
           /\ ~IsPatch(r) => op[r].report \in Reports
  <1>1. op[r] \in Patches \cup Posts
    BY DEF TypeOK
  <1>2. CASE op[r] \in Patches
    BY <1>2, SMT DEF Patches, Item, IsPatch
  <1>3. CASE op[r] \in Posts
    BY <1>3, SMT DEF Posts, Item, IsPatch
  <1>4. QED
    BY <1>1, <1>2, <1>3

\* A release takes a lock from its holder and from nobody else.
LEMMA ReleaseFacts ==
    ASSUME NEW lock \in [Items -> Requests \cup {NoRequest}], NEW r \in Requests
    PROVE  /\ Release(lock, r) \in [Items -> Requests \cup {NoRequest}]
           /\ \A i \in Items : Release(lock, r)[i] # r
           /\ \A i \in Items, q \in Requests :
                  q # r => (Release(lock, r)[i] = q <=> lock[i] = q)
  BY RequestsAssumption, SMT DEF RequestsAssumption, Release

LEMMA InitTypeInv == Init => TypeInv
  BY RequestsAssumption, LimitsAssumption, WorkloadsAssumption, SMT
  DEF RequestsAssumption, LimitsAssumption, WorkloadsAssumption, Init, TypeInv, TypeOK,
      KindOK, Labels, InTransaction

\* Every query of a request, and every failure of one, keeps the types and the kinds.
LEMMA NextTypeInv == TypeInv /\ [Next]_vars => TypeInv'
  <1> SUFFICES ASSUME TypeInv, [Next]_vars PROVE TypeInv'
    OBVIOUS
  <1>a. \A r \in Requests :
           /\ Item(r) \in Items
           /\ IsPatch(r) => op[r].to \in Statuses
           /\ ~IsPatch(r) => op[r].report \in Reports
    BY OpFacts DEF TypeInv
  <1>b. /\ rowLock \in [Items -> Requests \cup {NoRequest}]
        /\ keyLock \in [Items -> Requests \cup {NoRequest}]
    BY DEF TypeInv, TypeOK
  <1> USE LimitsAssumption
      DEF LimitsAssumption, TypeInv, TypeOK, KindOK, Labels, InTransaction, IsPatch
  <1>1. ASSUME NEW r \in Requests, Receive(r) PROVE TypeInv'
    BY <1>1, SMT DEF Receive, Goto
  <1>2. ASSUME NEW r \in Requests, Connect(r) PROVE TypeInv'
    BY <1>2, SMT DEF Connect, Goto
  <1>3. ASSUME NEW r \in Requests, LockRow(r) PROVE TypeInv'
    BY <1>3, SMT DEF LockRow, Goto
  <1>4. ASSUME NEW r \in Requests, CheckRca(r) PROVE TypeInv'
    BY <1>4, SMT DEF CheckRca, Goto
  <1>5. ASSUME NEW r \in Requests, CommitTransition(r) PROVE TypeInv'
    <2>1. /\ Item(r) \in Items
          /\ op[r].to \in Statuses
      BY <1>5, <1>a DEF CommitTransition
    <2>2. rowLock' \in [Items -> Requests \cup {NoRequest}]
      BY <1>5, <1>b, ReleaseFacts DEF CommitTransition
    <2>3. status' \in [Items -> Statuses \cup {Absent}]
      BY <1>5, <2>1 DEF CommitTransition
    <2>4. QED
      BY <1>5, <2>2, <2>3, SMT DEF CommitTransition, Answer, Goto
  <1>6. ASSUME NEW r \in Requests, Rollback(r) PROVE TypeInv'
    <2>1. /\ rowLock' \in [Items -> Requests \cup {NoRequest}]
          /\ keyLock' \in [Items -> Requests \cup {NoRequest}]
      BY <1>6, <1>b, ReleaseFacts DEF Rollback
    <2>2. QED
      BY <1>6, <2>1, SMT DEF Rollback, Answer, Goto
  <1>7. ASSUME NEW r \in Requests, ReadStatus(r) PROVE TypeInv'
    BY <1>7, SMT DEF ReadStatus, Answer, Goto
  <1>8. ASSUME NEW r \in Requests, Upsert(r) PROVE TypeInv'
    BY <1>8, <1>a, SMT DEF Upsert, Goto
  <1>9. ASSUME NEW r \in Requests, Reference(r) PROVE TypeInv'
    BY <1>9, <1>a, SMT DEF Reference, Goto
  <1>10. ASSUME NEW r \in Requests, CommitRca(r) PROVE TypeInv'
    <2>1. /\ Item(r) \in Items
          /\ [by |-> r, report |-> op[r].report] \in Rcas
      BY <1>10, <1>a, SMT DEF CommitRca, Rcas
    <2>2. /\ rowLock' \in [Items -> Requests \cup {NoRequest}]
          /\ keyLock' \in [Items -> Requests \cup {NoRequest}]
      BY <1>10, <1>b, ReleaseFacts DEF CommitRca
    <2>3. rca' \in [Items -> Rcas \cup {NoRca}]
      BY <1>10, <2>1 DEF CommitRca
    <2>4. QED
      BY <1>10, <2>2, <2>3, SMT DEF CommitRca, Answer, Goto
  <1>11. ASSUME NEW r \in Requests, ReadFails(r) PROVE TypeInv'
    BY <1>11, SMT DEF ReadFails, LastTry, Answer, Goto
  <1>12. ASSUME NEW r \in Requests, QueryFails(r) PROVE TypeInv'
    BY <1>12, SMT DEF QueryFails, Answer, Goto
  <1>13. ASSUME NEW i \in Items, CreateWorkItem(i) PROVE TypeInv'
    BY <1>13, SMT DEF CreateWorkItem, Statuses
  <1>14. CASE UNCHANGED vars
    BY <1>14, SMT DEF vars
  <1>15. QED
    BY <1>1, <1>2, <1>3, <1>4, <1>5, <1>6, <1>7, <1>8, <1>9, <1>10, <1>11, <1>12,
       <1>13, <1>14 DEF Next, RequestStep, AllAnswered

\* Type correctness: no request is ever tried once more than queryWithRetry allows.
THEOREM TypeCorrect == Spec => []TypeOK
  <1>1. TypeInv => TypeOK
    BY DEF TypeInv
  <1>2. QED
    BY <1>1, InitTypeInv, NextTypeInv, PTL DEF Spec

-----------------------------------------------------------------------------
(* Locks.                                                                  *)

LEMMA InitLocks == Init => LocksReturned
  BY RequestsAssumption, SMT DEF RequestsAssumption, Init, LocksReturned

\* Every path out of a transaction goes through a commit or a rollback, and both
\* release all that the request holds.
LEMMA NextLocks == TypeInv /\ LocksReturned /\ [Next]_vars => LocksReturned'
  <1> SUFFICES ASSUME TypeInv, LocksReturned, [Next]_vars PROVE LocksReturned'
    OBVIOUS
  <1>b. /\ rowLock \in [Items -> Requests \cup {NoRequest}]
        /\ keyLock \in [Items -> Requests \cup {NoRequest}]
    BY DEF TypeInv, TypeOK
  <1>c. ASSUME NEW r \in Requests
        PROVE  /\ \A i \in Items : Release(keyLock, r)[i] # r
               /\ \A i \in Items, q \in Requests :
                      q # r => (Release(keyLock, r)[i] = q <=> keyLock[i] = q)
    BY <1>b, ReleaseFacts
  <1> USE RequestsAssumption
      DEF RequestsAssumption, TypeInv, TypeOK, LocksReturned, InTransaction, Item
  <1>1. ASSUME NEW r \in Requests, Receive(r) PROVE LocksReturned'
    BY <1>1, SMT DEF Receive, Goto
  <1>2. ASSUME NEW r \in Requests, Connect(r) PROVE LocksReturned'
    BY <1>2, SMT DEF Connect, Goto
  <1>3. ASSUME NEW r \in Requests, LockRow(r) PROVE LocksReturned'
    BY <1>3, SMT DEF LockRow, Goto
  <1>4. ASSUME NEW r \in Requests, CheckRca(r) PROVE LocksReturned'
    BY <1>4, SMT DEF CheckRca, Goto
  <1>5. ASSUME NEW r \in Requests, CommitTransition(r) PROVE LocksReturned'
    <2>0. rowLock' = Release(rowLock, r)
      BY <1>5 DEF CommitTransition
    <2>1. /\ \A i \in Items : rowLock'[i] # r
          /\ \A i \in Items, q \in Requests : rowLock'[i] = q => rowLock[i] = q
      BY <2>0, <1>b, ReleaseFacts
    <2>2. QED
      BY <1>5, <2>1, SMT DEF CommitTransition, Answer, Goto
  <1>6. ASSUME NEW r \in Requests, Rollback(r) PROVE LocksReturned'
    <2>0. rowLock' = Release(rowLock, r) /\ keyLock' = Release(keyLock, r)
      BY <1>6 DEF Rollback
    <2>1. /\ \A i \in Items : rowLock'[i] # r
          /\ \A i \in Items, q \in Requests : rowLock'[i] = q => rowLock[i] = q
      BY <2>0, <1>b, ReleaseFacts
    <2>2. /\ \A i \in Items : keyLock'[i] # r
          /\ \A i \in Items, q \in Requests : keyLock'[i] = q => keyLock[i] = q
      <3>1. /\ \A i \in Items : Release(keyLock, r)[i] # r
            /\ \A i \in Items, q \in Requests :
                   q # r => (Release(keyLock, r)[i] = q <=> keyLock[i] = q)
        BY <1>c
      <3>2. QED
        BY <2>0, <3>1
    <2>3. QED
      BY <1>6, <2>1, <2>2, SMT DEF Rollback, Answer, Goto
  <1>7. ASSUME NEW r \in Requests, ReadStatus(r) PROVE LocksReturned'
    BY <1>7, SMT DEF ReadStatus, Answer, Goto
  <1>8. ASSUME NEW r \in Requests, Upsert(r) PROVE LocksReturned'
    BY <1>8, SMT DEF Upsert, Goto
  <1>9. ASSUME NEW r \in Requests, Reference(r) PROVE LocksReturned'
    BY <1>9, SMT DEF Reference, Goto
  <1>10. ASSUME NEW r \in Requests, CommitRca(r) PROVE LocksReturned'
    <2>0. rowLock' = Release(rowLock, r) /\ keyLock' = Release(keyLock, r)
      BY <1>10 DEF CommitRca
    <2>1. /\ \A i \in Items : rowLock'[i] # r
          /\ \A i \in Items, q \in Requests : rowLock'[i] = q => rowLock[i] = q
      BY <2>0, <1>b, ReleaseFacts
    <2>2. /\ \A i \in Items : keyLock'[i] # r
          /\ \A i \in Items, q \in Requests : keyLock'[i] = q => keyLock[i] = q
      <3>1. /\ \A i \in Items : Release(keyLock, r)[i] # r
            /\ \A i \in Items, q \in Requests :
                   q # r => (Release(keyLock, r)[i] = q <=> keyLock[i] = q)
        BY <1>c
      <3>2. QED
        BY <2>0, <3>1
    <2>3. QED
      BY <1>10, <2>1, <2>2, SMT DEF CommitRca, Answer, Goto
  <1>11. ASSUME NEW r \in Requests, ReadFails(r) PROVE LocksReturned'
    BY <1>11, SMT DEF ReadFails, Answer, Goto
  <1>12. ASSUME NEW r \in Requests, QueryFails(r) PROVE LocksReturned'
    BY <1>12, SMT DEF QueryFails, Answer, Goto
  <1>13. ASSUME NEW i \in Items, CreateWorkItem(i) PROVE LocksReturned'
    BY <1>13, SMT DEF CreateWorkItem
  <1>14. CASE UNCHANGED vars
    BY <1>14, SMT DEF vars
  <1>15. QED
    BY <1>1, <1>2, <1>3, <1>4, <1>5, <1>6, <1>7, <1>8, <1>9, <1>10, <1>11, <1>12,
       <1>13, <1>14 DEF Next, RequestStep, AllAnswered

\* No lock outlives its transaction, whichever query fails.
THEOREM LocksCorrect == Spec => []LocksReturned
  <1>1. QED
    BY InitTypeInv, NextTypeInv, InitLocks, NextLocks, PTL DEF Spec

-----------------------------------------------------------------------------
(* Transitions.                                                            *)

\* A validated request holds its row, and one that passed the check closes an item
\* that has an RCA.
Held ==
    \A r \in Requests :
        /\ pc[r] \in {"check", "commit"} => rowLock[Item(r)] = r
        /\ pc[r] = "commit" /\ op[r].to = "CLOSED" => rca[Item(r)] # NoRca

\* "prevent a concurrent transition from reading stale status between our read and
\* our write": what was validated is still valid when it is written.
TransitionStillValid ==
    \A r \in Requests :
        pc[r] \in {"check", "commit"} => CanTransition(status[Item(r)], op[r].to)

TransitionInv == Held /\ TransitionStillValid

LEMMA InitTransition == Init => TransitionInv
  BY SMT DEF Init, TransitionInv, Held, TransitionStillValid

\* While a request holds its row no other changes the status, and an RCA is replaced
\* but never removed.
LEMMA NextTransition ==
    TypeInv /\ LocksReturned /\ TransitionInv /\ [Next]_vars => TransitionInv'
  <1> SUFFICES ASSUME TypeInv, LocksReturned, TransitionInv, [Next]_vars
               PROVE  TransitionInv'
    OBVIOUS
  <1>a. \A r \in Requests :
           /\ Item(r) \in Items
           /\ ~IsPatch(r) => op[r].report \in Reports
    BY OpFacts DEF TypeInv
  <1>b. /\ rowLock \in [Items -> Requests \cup {NoRequest}]
        /\ keyLock \in [Items -> Requests \cup {NoRequest}]
    BY DEF TypeInv, TypeOK
  <1> USE RequestsAssumption, <1>a
      DEF RequestsAssumption, TypeInv, TypeOK, KindOK, TransitionInv, Held,
          TransitionStillValid, Item, Labels, InTransaction
  <1>1. ASSUME NEW r \in Requests, Receive(r) PROVE TransitionInv'
    BY <1>1, SMT DEF Receive, Goto
  <1>2. ASSUME NEW r \in Requests, Connect(r) PROVE TransitionInv'
    BY <1>2, SMT DEF Connect, Goto
  <1>3. ASSUME NEW r \in Requests, LockRow(r) PROVE TransitionInv'
    BY <1>3, SMT DEF LockRow, RowFree, Goto
  <1>4. ASSUME NEW r \in Requests, CheckRca(r) PROVE TransitionInv'
    BY <1>4, SMT DEF CheckRca, RcaComplete, Goto
  <1>5. ASSUME NEW r \in Requests, CommitTransition(r) PROVE TransitionInv'
    <2>0. rowLock' = Release(rowLock, r)
      BY <1>5 DEF CommitTransition
    <2>1. \A i \in Items, q \in Requests : q # r => (rowLock'[i] = q <=> rowLock[i] = q)
      BY <2>0, <1>b, ReleaseFacts
    <2>2. rowLock[Item(r)] = r
      BY <1>5, SMT DEF CommitTransition
    <2>3. QED
      BY <1>5, <2>1, <2>2, SMT DEF CommitTransition, Answer, Goto
  <1>6. ASSUME NEW r \in Requests, Rollback(r) PROVE TransitionInv'
    <2>0. rowLock' = Release(rowLock, r) /\ keyLock' = Release(keyLock, r)
      BY <1>6 DEF Rollback
    <2>1. \A i \in Items, q \in Requests : q # r => (rowLock'[i] = q <=> rowLock[i] = q)
      BY <2>0, <1>b, ReleaseFacts
    <2>2. QED
      BY <1>6, <2>1, SMT DEF Rollback, Answer, Goto
  <1>7. ASSUME NEW r \in Requests, ReadStatus(r) PROVE TransitionInv'
    BY <1>7, SMT DEF ReadStatus, Answer, Goto
  <1>8. ASSUME NEW r \in Requests, Upsert(r) PROVE TransitionInv'
    BY <1>8, SMT DEF Upsert, Goto
  <1>9. ASSUME NEW r \in Requests, Reference(r) PROVE TransitionInv'
    BY <1>9, SMT DEF Reference, RowFree, Goto
  <1>10. ASSUME NEW r \in Requests, CommitRca(r) PROVE TransitionInv'
    <2>0. rowLock' = Release(rowLock, r) /\ keyLock' = Release(keyLock, r)
      BY <1>10 DEF CommitRca
    <2>1. \A i \in Items, q \in Requests : q # r => (rowLock'[i] = q <=> rowLock[i] = q)
      BY <2>0, <1>b, ReleaseFacts
    <2>2. [by |-> r, report |-> op[r].report] # NoRca
      BY <1>10, <1>a, NoRcaAssumption, SMT DEF CommitRca, Rcas, NoRcaAssumption
    <2>3. \A i \in Items : rca[i] # NoRca => rca'[i] # NoRca
      BY <1>10, <2>2 DEF CommitRca
    <2>4. QED
      BY <1>10, <2>1, <2>3, SMT DEF CommitRca, Answer, Goto
  <1>11. ASSUME NEW r \in Requests, ReadFails(r) PROVE TransitionInv'
    BY <1>11, SMT DEF ReadFails, Answer, Goto
  <1>12. ASSUME NEW r \in Requests, QueryFails(r) PROVE TransitionInv'
    BY <1>12, SMT DEF QueryFails, Answer, Goto
  <1>13. ASSUME NEW i \in Items, CreateWorkItem(i) PROVE TransitionInv'
    BY <1>13, SMT DEF CreateWorkItem, CanTransition, Absent
  <1>14. CASE UNCHANGED vars
    BY <1>14, SMT DEF vars
  <1>15. QED
    BY <1>1, <1>2, <1>3, <1>4, <1>5, <1>6, <1>7, <1>8, <1>9, <1>10, <1>11, <1>12,
       <1>13, <1>14 DEF Next, RequestStep, AllAnswered

\* What a transition was allowed on is what it is written on: no stale status.
THEOREM TransitionsCorrect == Spec => []TransitionStillValid
  <1>1. TransitionInv => TransitionStillValid
    BY DEF TransitionInv
  <1>2. QED
    BY <1>1, InitTypeInv, NextTypeInv, InitLocks, NextLocks, InitTransition,
       NextTransition, PTL DEF Spec
-----------------------------------------------------------------------------
(* One winner.                                                             *)

\* How far a status is.
Rank(s) ==
    CASE s = "OPEN" -> 1 [] s = "INVESTIGATING" -> 2 [] s = "RESOLVED" -> 3
      [] s = "CLOSED" -> 4 [] OTHER -> 0

LEMMA RankFacts ==
    /\ \A s \in Statuses \cup {Absent} : Rank(s) \in 0..4
    /\ \A s, t \in Statuses \cup {Absent} : CanTransition(s, t) => Rank(t) = Rank(s) + 1
    /\ \A s \in Statuses : Rank(s) >= 1 /\ Rank(Absent) = 0
  BY SMT DEF Statuses, Absent, Rank, CanTransition

\* A PATCH that succeeded moved its item to the status it asked for, or the item is
\* beyond it.
Won ==
    \A r \in Requests :
        IsPatch(r) /\ answer[r] = "ok" => Rank(op[r].to) <= Rank(status[Item(r)])

WinnerInv == Won /\ OneWinner

LEMMA InitWinner == Init => WinnerInv
  BY SMT DEF Init, WinnerInv, Won, OneWinner

\* A transition that may still be made is to a status nobody has reached.
LEMMA NextWinner ==
    TypeInv /\ TransitionInv /\ WinnerInv /\ [Next]_vars => WinnerInv'
  <1> SUFFICES ASSUME TypeInv, TransitionInv, WinnerInv, [Next]_vars
               PROVE  WinnerInv'
    OBVIOUS
  <1>a. \A r \in Requests :
           /\ Item(r) \in Items
           /\ IsPatch(r) => op[r].to \in Statuses
    BY OpFacts DEF TypeInv
  <1>b. \A r \in Requests : status[Item(r)] \in Statuses \cup {Absent}
    BY <1>a DEF TypeInv, TypeOK
  \* A step that leaves the statuses alone and lets no PATCH succeed.
  <1>c. ASSUME UNCHANGED <<status, op>>,
               \A r \in Requests : answer'[r] = "ok" => answer[r] = "ok" \/ ~IsPatch(r)
        PROVE  WinnerInv'
    BY <1>c, SMT DEF WinnerInv, Won, OneWinner, IsPatch, Item
  <1> USE DEF TypeInv, TypeOK, KindOK, Labels, InTransaction
  <1>1. ASSUME NEW r \in Requests, Receive(r) PROVE WinnerInv'
    BY <1>1, <1>c, SMT DEF Receive
  <1>2. ASSUME NEW r \in Requests, Connect(r) PROVE WinnerInv'
    BY <1>2, <1>c, SMT DEF Connect
  <1>3. ASSUME NEW r \in Requests, LockRow(r) PROVE WinnerInv'
    BY <1>3, <1>c, SMT DEF LockRow
  <1>4. ASSUME NEW r \in Requests, CheckRca(r) PROVE WinnerInv'
    BY <1>4, <1>c, SMT DEF CheckRca
  <1>5. ASSUME NEW r \in Requests, CommitTransition(r) PROVE WinnerInv'
    <2>1. /\ IsPatch(r)
          /\ CanTransition(status[Item(r)], op[r].to)
          /\ status' = [status EXCEPT ![Item(r)] = op[r].to]
          /\ op' = op
          /\ \A q \in Requests : q # r => answer'[q] = answer[q]
      BY <1>5, SMT DEF CommitTransition, Answer, TransitionInv, TransitionStillValid
    <2>2. Rank(op[r].to) = Rank(status[Item(r)]) + 1
      BY <2>1, <1>a, <1>b, RankFacts
    <2>3. \A q \in Requests : Rank(status[Item(q)]) <= Rank(status'[Item(q)])
      <3>1. \A q \in Requests : Rank(status[Item(q)]) \in 0..4
        BY <1>b, RankFacts
      <3>2. QED
        BY <2>1, <2>2, <3>1, <1>a, SMT
    <2>4. status'[Item(r)] = op[r].to
      BY <2>1, <1>a
    <2>5. \A q \in Requests : IsPatch(q) => Rank(op[q].to) \in 0..4
      BY <1>a, RankFacts
    <2>6. \A q \in Requests :
             Rank(status[Item(q)]) \in 0..4 /\ Rank(status'[Item(q)]) \in 0..4
      <3>1. \A q \in Requests : status'[Item(q)] \in Statuses \cup {Absent}
        BY <2>1, <1>a
      <3>2. QED
        BY <1>b, <3>1, RankFacts
    <2>7. Won'
      <3> SUFFICES ASSUME NEW q \in Requests, IsPatch(q)', answer'[q] = "ok"
                   PROVE  Rank(op'[q].to) <= Rank(status'[Item(q)'])
        BY DEF Won
      <3>1. IsPatch(q) /\ Item(q)' = Item(q) /\ op'[q] = op[q]
        BY <2>1 DEF IsPatch, Item
      <3>2. CASE q = r
        BY <2>4, <2>5, <3>1, <3>2, SMT
      <3>3. CASE q # r
        <4>1. Rank(op[q].to) <= Rank(status[Item(q)])
          BY <2>1, <3>1, <3>3 DEF WinnerInv, Won
        <4>2. QED
          BY <4>1, <2>3, <2>5, <2>6, <3>1, SMT
      <3>4. QED
        BY <3>2, <3>3
    <2>8. \A q \in Requests :
             q # r /\ IsPatch(q) /\ op[q] = op[r] => answer[q] # "ok"
      <3> SUFFICES ASSUME NEW q \in Requests, IsPatch(q), op[q] = op[r], answer[q] = "ok"
                   PROVE  FALSE
        OBVIOUS
      <3>1. Rank(op[r].to) <= Rank(status[Item(r)])
        BY DEF WinnerInv, Won, Item
      <3>2. QED
        BY <3>1, <2>2, <2>6, SMT
    <2>9. OneWinner'
      BY <2>1, <2>8, SMT DEF WinnerInv, OneWinner, IsPatch
    <2>10. QED
      BY <2>7, <2>9 DEF WinnerInv
  <1>6. ASSUME NEW r \in Requests, Rollback(r) PROVE WinnerInv'
    BY <1>6, <1>c, SMT DEF Rollback, Answer
  <1>7. ASSUME NEW r \in Requests, ReadStatus(r) PROVE WinnerInv'
    BY <1>7, <1>c, SMT DEF ReadStatus, Answer
  <1>8. ASSUME NEW r \in Requests, Upsert(r) PROVE WinnerInv'
    BY <1>8, <1>c, SMT DEF Upsert
  <1>9. ASSUME NEW r \in Requests, Reference(r) PROVE WinnerInv'
    BY <1>9, <1>c, SMT DEF Reference
  <1>10. ASSUME NEW r \in Requests, CommitRca(r) PROVE WinnerInv'
    BY <1>10, <1>c, SMT DEF CommitRca, Answer
  <1>11. ASSUME NEW r \in Requests, ReadFails(r) PROVE WinnerInv'
    BY <1>11, <1>c, SMT DEF ReadFails, Answer
  <1>12. ASSUME NEW r \in Requests, QueryFails(r) PROVE WinnerInv'
    BY <1>12, <1>c, SMT DEF QueryFails, Answer
  <1>13. ASSUME NEW i \in Items, CreateWorkItem(i) PROVE WinnerInv'
    <2>1. /\ status[i] = Absent
          /\ status' = [status EXCEPT ![i] = "OPEN"]
          /\ UNCHANGED <<op, answer>>
      BY <1>13 DEF CreateWorkItem
    <2>2. \A q \in Requests : IsPatch(q) /\ answer[q] = "ok" => Item(q) # i
      <3>1. \A q \in Requests :
               IsPatch(q) /\ Item(q) = i => Rank(op[q].to) >= 1 /\ Rank(op[q].to) \in 0..4
        BY <1>a, RankFacts
      <3>2. Rank(status[i]) = 0
        BY <2>1, SMT DEF Rank, Absent
      <3>3. QED
        BY <3>1, <3>2, SMT DEF WinnerInv, Won
    <2>3. QED
      BY <2>1, <2>2, <1>a, SMT DEF WinnerInv, Won, OneWinner, IsPatch, Item
  <1>14. CASE UNCHANGED vars
    BY <1>14, <1>c, SMT DEF vars
  <1>15. QED
    BY <1>1, <1>2, <1>3, <1>4, <1>5, <1>6, <1>7, <1>8, <1>9, <1>10, <1>11, <1>12,
       <1>13, <1>14 DEF Next, RequestStep, AllAnswered

\* Of the PATCHes that ask for the same at most one is told that it succeeded.
THEOREM WinnersCorrect == Spec => []OneWinner
  <1>1. WinnerInv => OneWinner
    BY DEF WinnerInv
  <1>2. QED
    BY <1>1, InitTypeInv, NextTypeInv, InitLocks, NextLocks, InitTransition,
       NextTransition, InitWinner, NextWinner, PTL DEF Spec
-----------------------------------------------------------------------------
(* The lifecycle implements the abstract record.                           *)

\* A POST past its check is for an item that exists.
PostInv ==
    \A r \in Requests :
        ~IsPatch(r) /\ pc[r] \in {"connect", "upsert", "reference", "store"} =>
            status[Item(r)] # Absent

LEMMA InitPost == Init => PostInv
  BY SMT DEF Init, PostInv

LEMMA NextPost == TypeInv /\ PostInv /\ [Next]_vars => PostInv'
  <1> SUFFICES ASSUME TypeInv, PostInv, [Next]_vars PROVE PostInv'
    OBVIOUS
  <1>a. \A r \in Requests :
           /\ Item(r) \in Items
           /\ IsPatch(r) => op[r].to \in Statuses
    BY OpFacts DEF TypeInv
  <1> USE DEF TypeInv, TypeOK, KindOK, PostInv, IsPatch, Item, Labels, InTransaction
  <1>1. ASSUME NEW r \in Requests, Receive(r) PROVE PostInv'
    BY <1>1, SMT DEF Receive, Goto
  <1>2. ASSUME NEW r \in Requests, Connect(r) PROVE PostInv'
    BY <1>2, SMT DEF Connect, Goto
  <1>3. ASSUME NEW r \in Requests, LockRow(r) PROVE PostInv'
    BY <1>3, SMT DEF LockRow, Goto
  <1>4. ASSUME NEW r \in Requests, CheckRca(r) PROVE PostInv'
    BY <1>4, SMT DEF CheckRca, Goto
  <1>5. ASSUME NEW r \in Requests, CommitTransition(r) PROVE PostInv'
    <2>1. op[r].to # Absent
      BY <1>5, <1>a, SMT DEF CommitTransition, Statuses, Absent
    <2>2. QED
      BY <1>5, <1>a, <2>1, SMT DEF CommitTransition, Answer, Goto
  <1>6. ASSUME NEW r \in Requests, Rollback(r) PROVE PostInv'
    BY <1>6, SMT DEF Rollback, Answer, Goto
  <1>7. ASSUME NEW r \in Requests, ReadStatus(r) PROVE PostInv'
    BY <1>7, SMT DEF ReadStatus, Refused, Answer, Goto
  <1>8. ASSUME NEW r \in Requests, Upsert(r) PROVE PostInv'
    BY <1>8, SMT DEF Upsert, Goto
  <1>9. ASSUME NEW r \in Requests, Reference(r) PROVE PostInv'
    BY <1>9, SMT DEF Reference, Goto
  <1>10. ASSUME NEW r \in Requests, CommitRca(r) PROVE PostInv'
    BY <1>10, SMT DEF CommitRca, Answer, Goto
  <1>11. ASSUME NEW r \in Requests, ReadFails(r) PROVE PostInv'
    BY <1>11, SMT DEF ReadFails, Answer, Goto
  <1>12. ASSUME NEW r \in Requests, QueryFails(r) PROVE PostInv'
    BY <1>12, SMT DEF QueryFails, Answer, Goto
  <1>13. ASSUME NEW i \in Items, CreateWorkItem(i) PROVE PostInv'
    BY <1>13, <1>a, SMT DEF CreateWorkItem, Absent
  <1>14. CASE UNCHANGED vars
    BY <1>14, SMT DEF vars
  <1>15. QED
    BY <1>1, <1>2, <1>3, <1>4, <1>5, <1>6, <1>7, <1>8, <1>9, <1>10, <1>11, <1>12,
       <1>13, <1>14 DEF Next, RequestStep, AllAnswered

\* The stage of the record is the rank of the status.
LEMMA StageFacts ==
    ASSUME NEW s \in Statuses
    PROVE  (CHOOSE n \in 1..4 : Stages[n] = s) = Rank(s)
  <1>1. \A n \in 1..4 : Stages[n] = s <=> n = Rank(s)
    BY SMT DEF Stages, Statuses, Rank
  <1>2. Rank(s) \in 1..4
    BY SMT DEF Statuses, Rank
  <1>3. QED
    BY <1>1, <1>2

LEMMA StageIsRank ==
    ASSUME status \in [Items -> Statuses \cup {Absent}], NEW i \in Items
    PROVE  Stage(i) = Rank(status[i])
  <1>1. CASE status[i] = Absent
    BY <1>1, SMT DEF Stage, Rank, Absent
  <1>2. CASE status[i] # Absent
    <2>1. status[i] \in Statuses
      BY <1>2
    <2>2. QED
      BY <1>2, <2>1, StageFacts DEF Stage
  <1>3. QED
    BY <1>1, <1>2

LEMMA RecordInit == Init => Record!Init
  <1> SUFFICES ASSUME Init PROVE Record!Init
    OBVIOUS
  <1>1. \A i \in Items : Stage(i) = 0
    BY DEF Init, Stage
  <1>2. \A i \in Items : (rca[i] # NoRca) = FALSE
    BY DEF Init
  <1>3. QED
    BY <1>1, <1>2 DEF Record!Init

\* A commit of a PATCH advances the item, with an RCA if it closes it; a commit of a
\* POST explains it; all else is a stutter.
LEMMA RecordNext ==
    TypeInv /\ TypeInv' /\ TransitionInv /\ PostInv /\ [Next]_vars
      => [Record!Next]_(Record!vars)
  <1> SUFFICES ASSUME TypeInv, TypeInv', TransitionInv, PostInv, [Next]_vars
               PROVE  [Record!Next]_(Record!vars)
    OBVIOUS
  <1>a. \A r \in Requests :
           /\ Item(r) \in Items
           /\ IsPatch(r) => op[r].to \in Statuses
           /\ ~IsPatch(r) => op[r].report \in Reports
    BY OpFacts DEF TypeInv
  <1>b. /\ status \in [Items -> Statuses \cup {Absent}]
        /\ status' \in [Items -> Statuses \cup {Absent}]
        /\ rca \in [Items -> Rcas \cup {NoRca}]
    BY DEF TypeInv, TypeOK
  <1>c. \A i \in Items : Stage(i) = Rank(status[i])
    BY <1>b, StageIsRank
  <1>d. \A i \in Items : Stage(i)' = Rank(status'[i])
    <2> SUFFICES ASSUME NEW i \in Items PROVE Stage(i)' = Rank(status'[i])
      OBVIOUS
    <2>1. CASE status'[i] = Absent
      BY <2>1, SMT DEF Stage, Rank, Absent
    <2>2. CASE status'[i] # Absent
      <3>1. status'[i] \in Statuses
        BY <1>b, <2>2
      <3>2. QED
        BY <2>2, <3>1, StageFacts DEF Stage
    <2>3. QED
      BY <2>1, <2>2
  <1>e. Len(Stages) = 4
    BY DEF Stages
  <1>f. \A i \in Items : Rank(status[i]) \in 0..4
    BY <1>b, RankFacts
  <1>1. CASE UNCHANGED <<status, rca>>
    BY <1>1 DEF Record!vars, Stage
  <1>2. ASSUME NEW r \in Requests, CommitTransition(r)
        PROVE  Record!Advance(Item(r))
    <2> DEFINE i == Item(r)
    <2>1. /\ i \in Items
          /\ IsPatch(r)
          /\ pc[r] = "commit"
          /\ CanTransition(status[i], op[r].to)
          /\ status' = [status EXCEPT ![i] = op[r].to]
          /\ rca' = rca
      BY <1>2, <1>a, SMT
      DEF CommitTransition, TypeInv, KindOK, TransitionInv, TransitionStillValid
    <2>2. Rank(op[r].to) = Rank(status[i]) + 1 /\ Rank(op[r].to) \in 0..4
      BY <2>1, <1>a, <1>b, RankFacts
    <2>3. Rank(status[i]) + 1 = 4 => rca[i] # NoRca
      <3>1. Rank(op[r].to) = 4 => op[r].to = "CLOSED"
        BY <2>1, <1>a, SMT DEF Rank, Statuses
      <3>2. QED
        BY <2>1, <2>2, <3>1 DEF TransitionInv, Held
    <2>4. \A j \in Items :
             Rank(status'[j]) = IF j = i THEN Rank(status[i]) + 1 ELSE Rank(status[j])
      BY <2>1, <2>2, <1>b
    <2>5. [j \in Items |-> Stage(j)]' = [[j \in Items |-> Stage(j)] EXCEPT ![i] = @ + 1]
      BY <2>1, <2>4, <1>c, <1>d
    <2>6. /\ [j \in Items |-> Stage(j)][i] < Len(Stages)
          /\ [j \in Items |-> Stage(j)][i] + 1 = Len(Stages) => rca[i] # NoRca
      <3>1. Rank(status[i]) < 4
        BY <2>1, <2>2, <1>f, SMT
      <3>2. QED
        BY <2>1, <2>3, <3>1, <1>c, <1>e
    <2>7. [j \in Items |-> rca[j] # NoRca]' = [j \in Items |-> rca[j] # NoRca]
      BY <2>1
    <2>8. QED
      BY <2>1, <2>5, <2>6, <2>7 DEF Record!Advance
  <1>3. ASSUME NEW i \in Items, CreateWorkItem(i) PROVE Record!Advance(i)
    <2>1. /\ status[i] = Absent
          /\ status' = [status EXCEPT ![i] = "OPEN"]
          /\ rca' = rca
      BY <1>3 DEF CreateWorkItem
    <2>2. Rank(Absent) = 0 /\ Rank("OPEN") = 1
      BY SMT DEF Rank, Absent
    <2>3. \A j \in Items :
             Rank(status'[j]) = IF j = i THEN 1 ELSE Rank(status[j])
      BY <2>1, <2>2, <1>b
    <2>4. [j \in Items |-> Stage(j)][i] = 0
      BY <2>1, <2>2, <1>c
    <2>5. [j \in Items |-> Stage(j)]' = [[j \in Items |-> Stage(j)] EXCEPT ![i] = @ + 1]
      <3>1. \A j \in Items : Stage(j)' = IF j = i THEN Stage(i) + 1 ELSE Stage(j)
        BY <2>1, <2>2, <2>3, <1>c, <1>d, SMT
      <3>2. QED
        BY <3>1
    <2>6. [j \in Items |-> rca[j] # NoRca]' = [j \in Items |-> rca[j] # NoRca]
      BY <2>1
    <2>7. QED
      BY <2>4, <2>5, <2>6, <1>e, SMT DEF Record!Advance
  <1>4. ASSUME NEW r \in Requests, CommitRca(r) PROVE Record!Explain(Item(r))
    <2> DEFINE i == Item(r)
    <2>1. /\ i \in Items
          /\ ~IsPatch(r)
          /\ status[i] # Absent
          /\ rca' = [rca EXCEPT ![i] = [by |-> r, report |-> op[r].report]]
          /\ status' = status
      BY <1>4, <1>a, SMT DEF CommitRca, TypeInv, KindOK, PostInv
    <2>2. [by |-> r, report |-> op[r].report] # NoRca
      BY <2>1, <1>a, NoRcaAssumption, SMT DEF Rcas, NoRcaAssumption
    <2>3. \A j \in Items : (rca'[j] # NoRca) = IF j = i THEN TRUE ELSE (rca[j] # NoRca)
      BY <2>1, <2>2, <1>b
    <2>4. [j \in Items |-> rca[j] # NoRca]'
            = [[j \in Items |-> rca[j] # NoRca] EXCEPT ![i] = TRUE]
      BY <2>1, <2>3
    <2>5. [j \in Items |-> Stage(j)][i] > 0
      <3>1. status[i] \in Statuses
        BY <2>1, <1>b
      <3>2. Rank(status[i]) >= 1 /\ Rank(status[i]) \in 0..4
        BY <3>1, RankFacts
      <3>3. QED
        BY <2>1, <3>2, <1>c, SMT
    <2>6. [j \in Items |-> Stage(j)]' = [j \in Items |-> Stage(j)]
      BY <2>1 DEF Stage
    <2>7. QED
      BY <2>1, <2>4, <2>5, <2>6 DEF Record!Explain
  <1>5. QED
    <2>1. ASSUME NEW r \in Requests, RequestStep(r) \/ ReadFails(r) \/ QueryFails(r)
          PROVE  [Record!Next]_(Record!vars)
      <3>1. \/ UNCHANGED <<status, rca>>
            \/ CommitTransition(r)
            \/ CommitRca(r)
        BY <2>1 DEF RequestStep, Receive, Connect, LockRow, CheckRca, Rollback, ReadStatus,
           Upsert, Reference, ReadFails, QueryFails
      <3>2. QED
        <4>1. CASE UNCHANGED <<status, rca>>
          BY <4>1, <1>1
        <4>2. CASE CommitTransition(r)
          <5>1. PICK i \in Items : Record!Advance(i)
            BY <4>2, <1>2, <1>a
          <5>2. QED
            BY <5>1 DEF Record!Next
        <4>3. CASE CommitRca(r)
          <5>1. PICK i \in Items : Record!Explain(i)
            BY <4>3, <1>4, <1>a
          <5>2. QED
            BY <5>1 DEF Record!Next
        <4>4. QED
          BY <3>1, <4>1, <4>2, <4>3
    <2>2. ASSUME NEW i \in Items, CreateWorkItem(i) PROVE [Record!Next]_(Record!vars)
      BY <2>2, <1>3 DEF Record!Next
    <2>3. CASE UNCHANGED vars
      BY <2>3, <1>1 DEF vars
    <2>4. QED
      BY <2>1, <2>2, <2>3 DEF Next, AllAnswered

\* The requests together implement the record: no item skips, repeats or undoes a
\* status, and none is closed without an RCA.
THEOREM LifecycleImplementsRecord == Spec => ImplementsRecord
  <1>1. QED
    BY InitTypeInv, NextTypeInv, InitLocks, NextLocks, InitTransition, NextTransition,
       InitPost, NextPost, RecordInit, RecordNext, PTL DEF Spec, ImplementsRecord, Record!Spec

\* A closed item has an RCA.
ClosedExplained == \A i \in Items : status[i] = "CLOSED" => rca[i] # NoRca

LEMMA NextClosedExplained ==
    TypeInv /\ TypeInv' /\ TransitionInv /\ ClosedExplained /\ [Next]_vars
      => ClosedExplained'
  <1> SUFFICES ASSUME TypeInv, TypeInv', TransitionInv, ClosedExplained, [Next]_vars,
                      NEW i \in Items, status'[i] = "CLOSED"
               PROVE  rca'[i] # NoRca
    BY DEF ClosedExplained
  <1>a. \A r \in Requests :
           /\ Item(r) \in Items
           /\ ~IsPatch(r) => op[r].report \in Reports
    BY OpFacts DEF TypeInv
  <1>1. CASE UNCHANGED <<status, rca>>
    BY <1>1 DEF ClosedExplained
  <1>2. ASSUME NEW r \in Requests, CommitTransition(r) PROVE rca'[i] # NoRca
    <2>1. /\ rca' = rca /\ Item(r) \in Items
          /\ status' = [status EXCEPT ![Item(r)] = op[r].to]
          /\ op[r].to = "CLOSED" => rca[Item(r)] # NoRca
      BY <1>2, <1>a DEF CommitTransition, TransitionInv, Held
    <2>2. QED
      BY <2>1 DEF ClosedExplained, TypeInv, TypeOK
  <1>3. ASSUME NEW r \in Requests, CommitRca(r) PROVE rca'[i] # NoRca
    <2>1. [by |-> r, report |-> op[r].report] # NoRca
      BY <1>3, <1>a, NoRcaAssumption, SMT
      DEF CommitRca, Rcas, NoRcaAssumption, TypeInv, KindOK
    <2>2. /\ rca' = [rca EXCEPT ![Item(r)] = [by |-> r, report |-> op[r].report]]
          /\ status' = status
      BY <1>3 DEF CommitRca
    <2>3. QED
      BY <1>a, <2>1, <2>2 DEF ClosedExplained, TypeInv, TypeOK
  <1>4. ASSUME NEW j \in Items, CreateWorkItem(j) PROVE rca'[i] # NoRca
    BY <1>4 DEF CreateWorkItem, ClosedExplained, TypeInv, TypeOK
  <1>5. \/ UNCHANGED <<status, rca>>
        \/ \E r \in Requests : CommitTransition(r) \/ CommitRca(r)
        \/ \E j \in Items : CreateWorkItem(j)
    BY DEF Next, RequestStep, AllAnswered, vars, Receive, Connect, LockRow, CheckRca,
       Rollback, ReadStatus, Upsert, Reference, ReadFails, QueryFails
  <1>6. QED
    BY <1>1, <1>2, <1>3, <1>4, <1>5

\* "Mandatory RCA", as far as it holds: no closed item is ever without the row of an RCA.
THEOREM ClosedAreExplained == Spec => []ClosedExplained
  <1>1. Init => ClosedExplained
    BY SMT DEF Init, ClosedExplained, Absent
  <1>2. QED
    BY <1>1, InitTypeInv, NextTypeInv, InitLocks, NextLocks, InitTransition, NextTransition,
       NextClosedExplained, PTL DEF Spec

-----------------------------------------------------------------------------
(* A closed item and the POSTs that come late.                             *)

\* A request stores its RCA as the last thing it does.
StoredInv == \A r \in Requests : pc[r] # "done" => NotBy(r)

LEMMA InitStored == Init => StoredInv
  <1> SUFFICES ASSUME Init, NEW r \in Requests PROVE NotBy(r)
    BY DEF StoredInv
  <1>1. /\ op \in [Requests -> Patches \cup Posts]
        /\ rca = [i \in Items |-> NoRca]
    BY WorkloadsAssumption DEF Init, WorkloadsAssumption
  <1>2. Item(r) \in Items
    BY <1>1, SMT DEF Patches, Posts, Item
  <1>3. QED
    BY <1>1, <1>2 DEF NotBy

\* What any step does to the rows of the RCAs.
LEMMA RcaStep ==
    ASSUME TypeInv, [Next]_vars, NEW r \in Requests, NotBy(r)
    PROVE  NotBy(r)' \/ (pc[r] = "store" /\ pc'[r] = "done")
  <1>a. \A q \in Requests : Item(q) \in Items
    BY OpFacts DEF TypeInv
  <1>1. CASE UNCHANGED <<rca, op>>
    BY <1>1 DEF NotBy, Item
  <1>2. ASSUME NEW q \in Requests, CommitRca(q)
        PROVE  NotBy(r)' \/ (pc[r] = "store" /\ pc'[r] = "done")
    <2>1. CASE q = r
      BY <1>2, <2>1, SMT DEF CommitRca, Answer, Goto, TypeInv, TypeOK
    <2>2. CASE q # r
      <3>1. /\ rca' = [rca EXCEPT ![Item(q)] = [by |-> q, report |-> op[q].report]]
            /\ op' = op
        BY <1>2 DEF CommitRca
      <3>2. CASE Item(q) = Item(r)
        <4>1. rca'[Item(r)] = [by |-> q, report |-> op[q].report]
          BY <1>a, <3>1, <3>2 DEF TypeInv, TypeOK
        <4>2. rca'[Item(r)].by = q
          BY <4>1
        <4>3. QED
          BY <2>2, <3>1, <4>2 DEF NotBy, Item
      <3>3. CASE Item(q) # Item(r)
        BY <1>a, <3>1, <3>3 DEF NotBy, Item, TypeInv, TypeOK
      <3>4. QED
        BY <3>2, <3>3
    <2>3. QED
      BY <2>1, <2>2
  <1>3. UNCHANGED <<rca, op>> \/ \E q \in Requests : CommitRca(q)
    BY DEF Next, RequestStep, AllAnswered, vars, Receive, Connect, LockRow, CheckRca,
       CommitTransition, Rollback, ReadStatus, Upsert, Reference, ReadFails, QueryFails,
       CreateWorkItem
  <1>4. QED
    BY <1>1, <1>2, <1>3

\* An answered request stays answered.
LEMMA DoneStep ==
    ASSUME TypeInv, [Next]_vars, NEW r \in Requests, pc[r] = "done"
    PROVE  pc'[r] = "done"
  <1>1. ASSUME NEW q \in Requests, RequestStep(q) \/ ReadFails(q) \/ QueryFails(q)
        PROVE  q # r /\ \E label \in Labels : pc' = [pc EXCEPT ![q] = label] \/ pc' = pc
    BY <1>1, SMT DEF RequestStep, Receive, Connect, LockRow, CheckRca, CommitTransition,
       Rollback, ReadStatus, Upsert, Reference, CommitRca, ReadFails, QueryFails, Answer,
       Goto, Labels, InTransaction
  <1>2. ASSUME pc' = pc PROVE pc'[r] = "done"
    BY <1>2
  <1>3. QED
    BY <1>1, <1>2 DEF Next, AllAnswered, CreateWorkItem, vars, TypeInv, TypeOK

LEMMA NextStored == TypeInv /\ StoredInv /\ [Next]_vars => StoredInv'
  <1> SUFFICES ASSUME TypeInv, StoredInv, [Next]_vars, NEW r \in Requests, pc'[r] # "done"
               PROVE  NotBy(r)'
    BY DEF StoredInv
  <1>1. pc[r] # "done"
    BY DoneStep
  <1>2. QED
    BY <1>1, RcaStep DEF StoredInv

\* A POST whose check is yet to come, or failed, while its item is closed.
ShutOut(r) ==
    /\ ~IsPatch(r)
    /\ status[Item(r)] = "CLOSED"
    /\ pc[r] \in {"idle", "read", "done"}
    /\ NotBy(r)

\* CLOSED is for ever and the check refuses it, so the POST never gets further.
LEMMA NextShutOut ==
    ASSUME NEW r \in Requests
    PROVE  TypeInv /\ TransitionInv /\ ShutOut(r) /\ [Next]_vars => ShutOut(r)'
  <1> SUFFICES ASSUME TypeInv, TransitionInv, ShutOut(r), [Next]_vars PROVE ShutOut(r)'
    OBVIOUS
  <1>a. \A q \in Requests : Item(q) \in Items
    BY OpFacts DEF TypeInv
  <1>1. NotBy(r)'
    BY RcaStep, SMT DEF ShutOut
  <1>2. op' = op
    BY DEF Next, RequestStep, AllAnswered, vars, Receive, Connect, LockRow, CheckRca,
       CommitTransition, Rollback, ReadStatus, Upsert, Reference, CommitRca, ReadFails,
       QueryFails, CreateWorkItem
  <1>3. status'[Item(r)] = "CLOSED"
    <2>1. ASSUME NEW q \in Requests, CommitTransition(q) PROVE Item(q) # Item(r)
      <3>1. CanTransition(status[Item(q)], op[q].to)
        BY <2>1 DEF CommitTransition, TransitionInv, TransitionStillValid
      <3>2. QED
        BY <3>1, SMT DEF ShutOut, CanTransition
    <2>2. ASSUME NEW q \in Requests, CommitTransition(q)
          PROVE  status'[Item(r)] = status[Item(r)]
      BY <1>a, <2>1, <2>2 DEF CommitTransition, TypeInv, TypeOK
    <2>3. ASSUME NEW i \in Items, CreateWorkItem(i)
          PROVE  status'[Item(r)] = status[Item(r)]
      BY <1>a, <2>3, SMT DEF CreateWorkItem, ShutOut, Absent, TypeInv, TypeOK
    <2>4. \/ status' = status
          \/ \E q \in Requests : CommitTransition(q)
          \/ \E i \in Items : CreateWorkItem(i)
      BY DEF Next, RequestStep, AllAnswered, vars, Receive, Connect, LockRow, CheckRca,
         Rollback, ReadStatus, Upsert, Reference, CommitRca, ReadFails, QueryFails
    <2>5. QED
      BY <2>2, <2>3, <2>4 DEF ShutOut
  <1>4. pc'[r] \in {"idle", "read", "done"}
    <2> USE DEF ShutOut, TypeInv, TypeOK
    <2>1. ASSUME Receive(r) PROVE pc'[r] = "read"
      BY <2>1 DEF Receive, Goto
    <2>2. ASSUME ReadStatus(r) PROVE pc'[r] = "done"
      BY <2>2, SMT DEF ReadStatus, Refused, Answer, Goto
    <2>3. ASSUME ReadFails(r) PROVE pc'[r] \in {"read", "done"}
      BY <2>3, SMT DEF ReadFails, Answer, Goto
    <2>4. ASSUME NEW q \in Requests, RequestStep(q) \/ ReadFails(q) \/ QueryFails(q)
          PROVE  \E label \in Labels : pc' = [pc EXCEPT ![q] = label] \/ pc' = pc
      BY <2>4, SMT DEF RequestStep, Receive, Connect, LockRow, CheckRca, CommitTransition,
         Rollback, ReadStatus, Upsert, Reference, CommitRca, ReadFails, QueryFails, Answer,
         Goto, Labels, InTransaction
    <2>5. ASSUME RequestStep(r) \/ ReadFails(r) \/ QueryFails(r)
          PROVE  Receive(r) \/ ReadStatus(r) \/ ReadFails(r)
      BY <2>5, SMT DEF RequestStep, Connect, LockRow, CheckRca, CommitTransition, Rollback,
         Upsert, Reference, CommitRca, QueryFails, InTransaction
    <2>6. \/ pc' = pc
          \/ RequestStep(r) \/ ReadFails(r) \/ QueryFails(r)
          \/ \E q \in Requests : q # r /\ (RequestStep(q) \/ ReadFails(q) \/ QueryFails(q))
      BY DEF Next, AllAnswered, CreateWorkItem, vars
    <2>7. QED
      <3>1. CASE pc' = pc
        BY <3>1
      <3>2. CASE RequestStep(r) \/ ReadFails(r) \/ QueryFails(r)
        BY <3>2, <2>1, <2>2, <2>3, <2>5
      <3>3. ASSUME NEW q \in Requests, q # r, RequestStep(q) \/ ReadFails(q) \/ QueryFails(q)
            PROVE  pc'[r] \in {"idle", "read", "done"}
        BY <3>3, <2>4
      <3>4. QED
        BY <2>6, <3>1, <3>2, <3>3
  <1>5. QED
    BY <1>1, <1>2, <1>3, <1>4 DEF ShutOut, IsPatch, Item

\* A POST whose check is yet to come when its item closes never replaces the RCA the
\* item was closed on.
THEOREM ClosedRefused == Spec => ClosedRefusesRca
  <1>1. ASSUME NEW r \in Requests PROVE Spec => [](ChecksLate(r) => []NotBy(r))
    <2>1. StoredInv /\ ChecksLate(r) => ShutOut(r)
      BY DEF StoredInv, ChecksLate, ShutOut
    <2>2. ShutOut(r) => NotBy(r)
      BY DEF ShutOut
    <2>3. TypeInv /\ TransitionInv /\ ShutOut(r) /\ [Next]_vars => ShutOut(r)'
      BY NextShutOut
    <2>4. QED
      BY <2>1, <2>2, <2>3, InitTypeInv, NextTypeInv, InitLocks, NextLocks, InitTransition,
         NextTransition, InitStored, NextStored, PTL DEF Spec
  <1>2. QED
    BY <1>1 DEF ClosedRefusesRca
-----------------------------------------------------------------------------
(* Nobody waits for a request that waits for him.                          *)

\* What the query a request is at waits for is free.
Ready(r) ==
    \/ pc[r] \in {"idle", "check", "commit", "rollback", "store"}
    \/ pc[r] \in {"connect", "read"} /\ FreeConnections > 0
    \/ pc[r] \in {"lock", "reference"} /\ RowFree(Item(r))
    \/ pc[r] = "upsert" /\ keyLock[Item(r)] = NoRequest

SomebodyReady ==
    (\E r \in Requests : pc[r] # "done") => \E r \in Requests : Ready(r)

\* The holder of a row waits for nothing, the holder of a key for a row at most.
LEMMA HolderReady ==
    ASSUME TypeInv, LocksReturned, NEW r \in Requests, pc[r] \in InTransaction
    PROVE  \E q \in Requests : Ready(q)
  <1>1. /\ Item(r) \in Items
        /\ rowLock \in [Items -> Requests \cup {NoRequest}]
        /\ keyLock \in [Items -> Requests \cup {NoRequest}]
    BY OpFacts DEF TypeInv, TypeOK
  <1>2. ASSUME NEW i \in Items, rowLock[i] # NoRequest PROVE Ready(rowLock[i])
    BY <1>1, <1>2 DEF LocksReturned, Ready
  <1>3. ASSUME NEW p \in Requests, Item(p) \in Items, pc[p] \in {"lock", "reference"}
        PROVE  \E q \in Requests : Ready(q)
    BY <1>1, <1>2, <1>3 DEF Ready, RowFree
  <1>4. CASE pc[r] \in {"lock", "reference"}
    BY <1>1, <1>3, <1>4
  <1>5. CASE pc[r] = "upsert"
    <2>1. CASE keyLock[Item(r)] = NoRequest
      BY <1>5, <2>1 DEF Ready
    <2>2. CASE keyLock[Item(r)] # NoRequest
      <3>1. PICK p \in Requests : keyLock[Item(r)] = p
        BY <1>1, <2>2
      <3>2. Item(p) \in Items /\ pc[p] \in {"reference", "store", "rollback"}
        BY <1>1, <3>1 DEF LocksReturned
      <3>3. QED
        BY <1>3, <3>2 DEF Ready
    <2>3. QED
      BY <2>1, <2>2
  <1>6. CASE pc[r] \in {"check", "commit", "rollback", "store"}
    BY <1>6 DEF Ready
  <1>7. QED
    BY <1>4, <1>5, <1>6 DEF InTransaction

\* The pool is empty only while somebody is in a transaction.
LEMMA PoolFacts ==
    ASSUME \A r \in Requests : pc[r] \notin InTransaction
    PROVE  FreeConnections > 0
  <1>1. {r \in Requests : pc[r] \in InTransaction} = {}
    OBVIOUS
  <1>2. FreeConnections = PoolSize
    BY <1>1, FS_EmptySet, LimitsAssumption, SMT DEF FreeConnections, LimitsAssumption
  <1>3. QED
    BY <1>2, LimitsAssumption, SMT DEF LimitsAssumption

\* However many requests compete for however few connections, rows and keys, as long as
\* one of them has no answer what some request waits for is free: no circle of waiting.
THEOREM NoCircularWait == Spec => []SomebodyReady
  <1>1. TypeInv /\ LocksReturned => SomebodyReady
    <2> SUFFICES ASSUME TypeInv, LocksReturned, NEW r \in Requests, pc[r] # "done"
                 PROVE  \E q \in Requests : Ready(q)
      BY DEF SomebodyReady
    <2>1. CASE \E q \in Requests : pc[q] \in InTransaction
      BY <2>1, HolderReady
    <2>2. CASE \A q \in Requests : pc[q] \notin InTransaction
      <3>1. pc[r] \in {"idle", "connect", "read"}
        BY <2>2 DEF TypeInv, TypeOK, Labels
      <3>2. QED
        BY <2>2, <3>1, PoolFacts DEF Ready
    <2>3. QED
      BY <2>1, <2>2
  <1>2. QED
    BY <1>1, InitTypeInv, NextTypeInv, InitLocks, NextLocks, PTL DEF Spec
\* The queries before a request at a label, at most.
Left(label) ==
    CASE label = "idle" -> 7 [] label = "read" -> 6 [] label = "connect" -> 5
      [] label = "lock" -> 4 [] label = "upsert" -> 4
      [] label = "check" -> 3 [] label = "reference" -> 3
      [] label = "commit" -> 2 [] label = "store" -> 2
      [] label = "rollback" -> 1 [] OTHER -> 0

LEMMA LeftFacts ==
    /\ Left("idle") = 7 /\ Left("read") = 6 /\ Left("connect") = 5
    /\ Left("lock") = 4 /\ Left("upsert") = 4 /\ Left("check") = 3 /\ Left("reference") = 3
    /\ Left("commit") = 2 /\ Left("store") = 2 /\ Left("rollback") = 1 /\ Left("done") = 0
  BY SMT DEF Left

\* What a step may do to a request: leave it where it is, with the same tries or after
\* one more, or bring it nearer to its answer.
Forward(r) ==
    \/ pc'[r] = pc[r] /\ tries'[r] \in {tries[r], tries[r] + 1}
    \/ Left(pc'[r]) < Left(pc[r])

LEMMA StepForward ==
    ASSUME TypeInv, NEW r \in Requests, RequestStep(r) \/ ReadFails(r) \/ QueryFails(r)
    PROVE  Forward(r)
  <1> USE LeftFacts DEF TypeInv, TypeOK, Labels, InTransaction, Forward
  <1>1. CASE Receive(r)
    BY <1>1, SMT DEF Receive, Goto
  <1>2. CASE Connect(r)
    BY <1>2, SMT DEF Connect, Goto
  <1>3. CASE LockRow(r)
    <2>1. pc[r] = "lock" /\ pc'[r] \in {"rollback", "check", "commit"}
      BY <1>3, SMT DEF LockRow, Goto
    <2>2. QED
      BY <2>1, SMT
  <1>4. CASE CheckRca(r)
    BY <1>4, SMT DEF CheckRca, Goto
  <1>5. CASE CommitTransition(r)
    BY <1>5, SMT DEF CommitTransition, Answer, Goto
  <1>6. CASE Rollback(r)
    BY <1>6, SMT DEF Rollback, Answer, Goto
  <1>7. CASE ReadStatus(r)
    BY <1>7, SMT DEF ReadStatus, Answer, Goto
  <1>8. CASE Upsert(r)
    BY <1>8, SMT DEF Upsert, Goto
  <1>9. CASE Reference(r)
    BY <1>9, SMT DEF Reference, Goto
  <1>10. CASE CommitRca(r)
    BY <1>10, SMT DEF CommitRca, Answer, Goto
  <1>11. CASE ReadFails(r)
    BY <1>11, SMT DEF ReadFails, Answer, Goto
  <1>12. CASE QueryFails(r)
    BY <1>12, SMT DEF QueryFails, Answer, Goto
  <1>13. QED
    BY <1>1, <1>2, <1>3, <1>4, <1>5, <1>6, <1>7, <1>8, <1>9, <1>10, <1>11, <1>12
       DEF RequestStep

\* A request moves only itself.
LEMMA OthersWait ==
    ASSUME TypeInv, NEW r \in Requests, NEW q \in Requests, q # r,
           RequestStep(q) \/ ReadFails(q) \/ QueryFails(q)
    PROVE  pc'[r] = pc[r] /\ tries'[r] = tries[r]
  <1>1. \/ pc' = pc
        \/ \E label : pc' = [pc EXCEPT ![q] = label]
    BY DEF RequestStep, Receive, Connect, LockRow, CheckRca, CommitTransition, Rollback,
       ReadStatus, Upsert, Reference, CommitRca, ReadFails, QueryFails, Answer, Goto
  <1>2. \/ tries' = tries
        \/ tries' = [tries EXCEPT ![q] = @ + 1]
    BY DEF RequestStep, Receive, Connect, LockRow, CheckRca, CommitTransition, Rollback,
       ReadStatus, Upsert, Reference, CommitRca, ReadFails, QueryFails
  <1>3. QED
    BY <1>1, <1>2 DEF TypeInv, TypeOK

\* No request ever turns back: with NoCircularWait, finitely many requests and the bound
\* on tries in TypeOK this is the argument that each is answered, up to the fairness of
\* the scheduler.
THEOREM RequestsGoForward == Spec => [][\A r \in Requests : Forward(r)]_vars
  <1>1. TypeInv /\ [Next]_vars => [\A r \in Requests : Forward(r)]_vars
    <2> SUFFICES ASSUME TypeInv, Next, NEW r \in Requests PROVE Forward(r)
      OBVIOUS
    <2>1. CASE pc' = pc /\ tries' = tries
      BY <2>1 DEF Forward
    <2>2. ASSUME NEW q \in Requests, RequestStep(q) \/ ReadFails(q) \/ QueryFails(q)
          PROVE  Forward(r)
      <3>1. CASE q = r
        BY <2>2, <3>1, StepForward
      <3>2. CASE q # r
        BY <2>2, <3>2, OthersWait DEF Forward
      <3>3. QED
        BY <3>1, <3>2
    <2>3. QED
      BY <2>1, <2>2 DEF Next, AllAnswered, CreateWorkItem, vars
  <1>2. QED
    BY <1>1, InitTypeInv, NextTypeInv, PTL DEF Spec
=============================================================================
