------------------------ MODULE DashboardCacheProofs ------------------------
(***************************************************************************)
(* Theorems about DashboardCache, for every set of writers and readers,    *)
(* every TTL and length of a call, and any number of failures.            *)
(***************************************************************************)
EXTENDS DashboardCache, FiniteSetTheorems, TLAPS

\* A cached state has time left, a call is no older than CallTime, and the rate is as old
\* as the last GETDEL that answered.
TimeInv ==
    /\ cache # NoState => ttl \in 1..Ttl
    /\ \A r \in Readers : pc[r] # "idle" => since[r] <= now /\ now - since[r] <= CallTime
    /\ sampled >= now - 1
    /\ sampled - rate <= faults

TypeInv == TypeOK /\ TimeInv

\* What SMT need not take apart.
LEMMA BlankIsState == Blank \in States
  BY DEF Blank, States

LEMMA InitTypeInv == Init => TypeInv
  <1> SUFFICES ASSUME Init PROVE TypeInv
    OBVIOUS
  <1>1. commits \in Seq(1..MaxTime) /\ Len(commits) = 0
    BY SMT DEF Init
  <1>2. draft \in [Readers -> States]
    BY BlankIsState DEF Init
  <1>3. QED
    BY <1>1, <1>2, BoundsAssumption, SMT
    DEF BoundsAssumption, Init, TypeInv, TypeOK, TimeInv

\* A delivery sends to open sockets only.
LEMMA DeliverFacts ==
    ASSUME TypeOK, NEW r \in Readers, NEW state \in States, Deliver(r, state)
    PROVE  /\ pc' = [pc EXCEPT ![r] = "idle"]
           /\ since' = [since EXCEPT ![r] = 0]
           /\ since' \in [Readers -> 0..MaxTime]
           /\ pc' \in [Readers -> {"idle", "get", "build"}]
           /\ shown' \in [Clients -> [Queries -> Nat] \cup {NoState}]
           /\ \A c \in Clients \ clients : shown'[c] = NoState
           /\ \A q \in Readers : pc'[q] # "idle" =>
                  pc[q] # "idle" /\ q # r /\ since'[q] = since[q]
  <1>1. Screen(state) \in [Queries -> Nat]
    BY DEF Screen, States
  <1>2. 0 \in 0..MaxTime
    BY BoundsAssumption, SMT DEF BoundsAssumption
  <1>3. QED
    BY <1>1, <1>2 DEF TypeOK, Deliver, Goto, Receivers

\* Every commit, invalidation, read, sample and tick keeps types and times.
LEMMA NextTypeInv == TypeInv /\ [Next]_vars => TypeInv'
  <1> SUFFICES ASSUME TypeInv, [Next]_vars PROVE TypeInv'
    OBVIOUS
  <1>a. /\ Ttl \in Nat /\ Ttl >= 1 /\ MaxTime \in Nat /\ CallTime \in Nat /\ MaxFaults \in Nat
        /\ now \in Nat /\ now >= 1 /\ now <= MaxTime /\ Len(commits) \in Nat
        /\ sampled \in Nat /\ rate \in Nat /\ faults \in 0..MaxFaults /\ now \in 0..MaxTime
    BY BoundsAssumption, SMT DEF BoundsAssumption, TypeInv, TypeOK
  <1>b. /\ Gets \subseteq Readers /\ Reporters \subseteq Readers /\ Clients \subseteq Readers
        /\ \A r \in Clients : r \notin Reporters /\ r \notin Gets
    BY SetsAssumption DEF SetsAssumption, Readers
  <1>1. ASSUME NEW w \in Writers, Commit(w) PROVE TypeInv'
    <2>1. /\ commits' \in Seq(1..MaxTime)
          /\ Len(commits') = Len(commits) + 1
      BY <1>1, <1>a, SMT DEF Commit, TypeInv, TypeOK
    <2>2. written' \in [Writers -> {"idle", "committed", "done"}]
      BY <1>1 DEF Commit, TypeInv, TypeOK
    <2>3. settled' \in 0..Len(commits')
      BY <1>1, <2>1, <1>a, SMT DEF Commit, TypeInv, TypeOK
    <2>4. QED
      BY <1>1, <2>1, <2>2, <2>3
      DEF Commit, TypeInv, TypeOK, TimeInv, cacheVars, readVars, feedVars, rateVars
  <1>2. ASSUME NEW w \in Writers, Invalidate(w) PROVE TypeInv'
    <2>1. /\ written' \in [Writers -> {"idle", "committed", "done"}]
          /\ commits' = commits /\ UNCHANGED <<readVars, feedVars, rateVars, now>>
      BY <1>2 DEF Invalidate, TypeInv, TypeOK
    <2>2. CASE /\ cache' = NoState /\ ttl' = 0
               /\ settled' = IF Building = {} THEN Len(commits) ELSE settled
               /\ UNCHANGED faults
      BY <2>1, <2>2, <1>a, SMT
      DEF TypeInv, TypeOK, TimeInv, readVars, feedVars, rateVars
    <2>3. CASE faults < MaxFaults /\ faults' = faults + 1 /\ UNCHANGED <<cacheVars, settled>>
      BY <2>1, <2>3, <1>a, SMT
      DEF TypeInv, TypeOK, TimeInv, cacheVars, readVars, feedVars, rateVars
    <2>4. QED
      BY <1>2, <2>2, <2>3 DEF Invalidate, Deleted
  <1>3. ASSUME NEW g \in Gets, Ask(g) PROVE TypeInv'
    <2>1. /\ since' = [since EXCEPT ![g] = now] /\ pc' = [pc EXCEPT ![g] = "get"]
          /\ UNCHANGED <<writeVars, cacheVars, pending, draft, feedVars, rateVars, now, faults,
                         settled>>
      BY <1>3 DEF Ask, Goto
    <2>2. QED
      BY <2>1, <1>a, <1>b, SMT
      DEF TypeInv, TypeOK, TimeInv, writeVars, cacheVars, feedVars, rateVars
  <1>4. ASSUME NEW p \in Reporters, Report(p) PROVE TypeInv'
    <2>1. /\ pc' \in [Readers -> {"idle", "get", "build"}] /\ since' \in [Readers -> 0..MaxTime]
          /\ \A r \in Readers : pc'[r] # "idle" =>
                \/ pc[r] # "idle" /\ since'[r] = since[r]
                \/ since'[r] = now
          /\ UNCHANGED <<writeVars, cacheVars, pending, draft, feedVars, now, settled>>
      BY <1>4, <1>a, <1>b DEF Report, Goto, TypeInv, TypeOK
    <2>2. /\ sampled' = now
          /\ \/ rate' = now /\ faults' = faults
             \/ rate' = rate /\ faults' \in 1..MaxFaults /\ faults' = faults + 1
      <3>1. faults < MaxFaults => faults + 1 \in 1..MaxFaults
        BY <1>a, SMT
      <3>2. QED
        BY <1>4, <3>1 DEF Report
    <2>3. rate' \in 0..sampled'
      BY <2>2, <1>a, SMT DEF TypeInv, TypeOK
    <2>4. TimeInv'
      <3>1. \A r \in Readers : pc'[r] # "idle" =>
                since'[r] <= now' /\ now' - since'[r] <= CallTime
        BY <2>1, <1>a, SMT DEF TypeInv, TimeInv
      <3>2. sampled' >= now' - 1
        BY <2>1, <2>2, <1>a, SMT
      <3>3. sampled' - rate' <= faults'
        <4>1. sampled - rate <= faults /\ sampled >= now - 1
          BY DEF TypeInv, TimeInv
        <4>2. QED
          BY <4>1, <2>2, <1>a, SMT
      <3>4. QED
        BY <2>1, <3>1, <3>2, <3>3 DEF TypeInv, TimeInv, cacheVars
    <2>5. QED
      BY <2>1, <2>2, <2>3, <2>4, <1>a, SMT
      DEF TypeInv, TypeOK, writeVars, cacheVars, feedVars
  <1>5. ASSUME NEW c \in Clients, Connect(c) PROVE TypeInv'
    <2>1. /\ since' = [since EXCEPT ![c] = now] /\ pc' = [pc EXCEPT ![c] = "get"]
          /\ clients' = clients \cup {c}
          /\ UNCHANGED <<writeVars, cacheVars, pending, draft, shown, rateVars, now, faults,
                         settled>>
      BY <1>5 DEF Connect, Goto
    <2>2. QED
      BY <2>1, <1>a, <1>b, SMT DEF TypeInv, TypeOK, TimeInv, writeVars, cacheVars, rateVars
  <1>6. ASSUME NEW c \in Clients, Disconnect(c) PROVE TypeInv'
    BY <1>6 DEF Disconnect, TypeInv, TypeOK, TimeInv, writeVars, cacheVars, readVars, rateVars
  <1>7. ASSUME NEW r \in Readers, GetState(r) PROVE TypeInv'
    <2>1. CASE cache # NoState /\ Deliver(r, cache) /\ UNCHANGED <<pending, draft>>
      <3>1. cache \in States
        BY <2>1 DEF TypeInv, TypeOK
      <3>2. QED
        BY <1>7, <2>1, <3>1, DeliverFacts
        DEF GetState, TypeInv, TypeOK, TimeInv, writeVars, cacheVars, rateVars
    <2>2. CASE /\ Goto(r, "build")
               /\ pending' = [pending EXCEPT ![r] = Queries]
               /\ UNCHANGED <<draft, since, shown>>
      BY <1>7, <2>2
      DEF GetState, Goto, TypeInv, TypeOK, TimeInv, writeVars, cacheVars, rateVars
    <2>3. QED
      BY <1>7, <2>1, <2>2 DEF GetState
  <1>8. ASSUME NEW r \in Readers, NEW q \in Queries, RunQuery(r, q) PROVE TypeInv'
    <2>1. draft' \in [Readers -> States]
      BY <1>8, <1>a DEF RunQuery, TypeInv, TypeOK, States
    <2>2. QED
      BY <1>8, <2>1
      DEF RunQuery, TypeInv, TypeOK, TimeInv, writeVars, cacheVars, feedVars, rateVars
  <1>9. ASSUME NEW r \in Readers, StoreState(r) PROVE TypeInv'
    <2> DEFINE state == [draft[r] EXCEPT !.rate = RateOf(r)]
    <2>1. state \in States
      BY <1>a, SMT DEF TypeInv, TypeOK, States, RateOf
    <2>2. /\ Deliver(r, state) /\ cache' = state /\ ttl' = Ttl
          /\ draft' = [draft EXCEPT ![r] = Blank]
          /\ UNCHANGED <<writeVars, pending, clients, rateVars, now, faults, settled>>
      BY <1>9, Zenon DEF StoreState, Expiry
    <2> HIDE DEF state
    <2>3. /\ draft' \in [Readers -> States]
          /\ cache' \in States /\ ttl' \in 1..Ttl /\ ttl' \in Nat
      BY <2>1, <2>2, <1>a, BlankIsState, SMT DEF TypeInv, TypeOK
    <2>4. /\ pc' \in [Readers -> {"idle", "get", "build"}] /\ since' \in [Readers -> 0..MaxTime]
          /\ shown' \in [Clients -> [Queries -> Nat] \cup {NoState}]
          /\ \A c \in Clients \ clients : shown'[c] = NoState
          /\ \A q \in Readers : pc'[q] # "idle" => pc[q] # "idle" /\ since'[q] = since[q]
      BY <2>1, <2>2, DeliverFacts DEF TypeInv
    <2>5. TimeInv'
      BY <2>2, <2>3, <2>4 DEF TypeInv, TimeInv, rateVars
    <2>6. QED
      BY <2>2, <2>3, <2>4, <2>5 DEF TypeInv, TypeOK, writeVars, rateVars
  <1>10. ASSUME NEW r \in Readers, ReadFails(r) PROVE TypeInv'
    <2>1. /\ faults' \in 0..MaxFaults /\ faults' = faults + 1
          /\ since' \in [Readers -> 0..MaxTime] /\ UNCHANGED <<rateVars, now>>
      BY <1>10, <1>a, SMT DEF ReadFails, TypeInv, TypeOK
    <2>2. /\ pc' \in [Readers -> {"idle", "get", "build"}]
          /\ pending' \in [Readers -> SUBSET Queries]
          /\ draft' \in [Readers -> States]
          /\ \A q \in Readers : pc'[q] # "idle" => pc[q] # "idle" /\ since'[q] = since[q]
      BY <1>10, BlankIsState DEF ReadFails, Goto, TypeInv, TypeOK
    <2>3. sampled' - rate' <= faults'
      BY <2>1, <1>a, SMT DEF rateVars, TypeInv, TimeInv
    <2>4. QED
      BY <1>10, <2>1, <2>2, <2>3
      DEF ReadFails, TypeInv, TypeOK, TimeInv, writeVars, cacheVars, feedVars, rateVars
  <1>11. CASE Tick
    <2>1. /\ now' = now + 1 /\ now' \in 1..MaxTime /\ sampled = now
          /\ UNCHANGED <<writeVars, readVars, feedVars, rateVars, faults, settled>>
      BY <1>11, <1>a, SMT DEF Tick
    <2>2. \A r \in Readers : pc[r] # "idle" => since[r] <= now' /\ now' - since[r] <= CallTime
      BY <1>11, <2>1, <1>a, SMT DEF Tick, TypeInv, TypeOK, TimeInv
    <2>3. /\ ttl' \in Nat /\ cache' \in States \cup {NoState}
          /\ cache' # NoState => ttl' \in 1..Ttl
      <3>1. CASE cache = NoState
        BY <1>11, <3>1 DEF Tick
      <3>2. CASE cache # NoState
        <4>1. ttl' = ttl - 1 /\ ttl \in 1..Ttl
          BY <1>11, <3>2 DEF Tick, TypeInv, TimeInv
        <4>2. ttl' \in 0..Ttl
          BY <4>1, <1>a, SMT
        <4>3. cache' = IF ttl' = 0 THEN NoState ELSE cache
          BY <1>11 DEF Tick
        <4>4. QED
          BY <4>2, <4>3, <1>a, SMT DEF TypeInv, TypeOK
      <3>3. QED
        BY <3>1, <3>2
    <2>4. sampled' \in 0..now' /\ sampled' >= now' - 1
      BY <2>1, <1>a, SMT DEF rateVars
    <2>5. QED
      BY <2>1, <2>2, <2>3, <2>4
      DEF TypeInv, TypeOK, TimeInv, writeVars, readVars, feedVars, rateVars
  <1>12. CASE UNCHANGED vars
    BY <1>12 DEF vars, TypeInv, TypeOK, TimeInv, writeVars, cacheVars, readVars, feedVars, rateVars
  <1>13. QED
    BY <1>1, <1>2, <1>3, <1>4, <1>5, <1>6, <1>7, <1>8, <1>9, <1>10, <1>11, <1>12
    DEF Next, ReaderStep

\* Type correctness; only open sockets are ever written.
THEOREM TypeCorrect == Spec => []TypeOK
  BY InitTypeInv, NextTypeInv, PTL DEF Spec, TypeInv

-----------------------------------------------------------------------------
(* Age.                                                                    *)

\* What a query of a build has seen: all that was settled, and all that was committed
\* in the ticks before its call began.
SeenInv ==
    \A r \in Readers, q \in Queries :
        pc[r] = "build" /\ q \notin pending[r] =>
            /\ draft[r][q] >= settled
            /\ \A n \in 1..Len(commits) : commits[n] < since[r] => draft[r][q] >= n

\* The cached state ages by one while its TTL falls by one, so that their sum bounds
\* what it may miss; StalenessBounded alone forgets how old it is.
AgeInv ==
    cache # NoState =>
        /\ Shows(cache, settled)
        /\ \A n \in 1..Len(commits) :
              commits[n] + CallTime + Ttl < now + ttl => Shows(cache, n)
        /\ cache.rate # 0 => now + ttl <= cache.rate + 1 + Ttl + faults

FreshInv ==
    /\ \A n \in 1..Len(commits) : commits[n] <= now
    /\ SeenInv
    /\ AgeInv

LEMMA InitFreshInv == Init => FreshInv
  BY SMT DEF Init, FreshInv, SeenInv, AgeInv

\* What SMT has to know of the types.
LEMMA Bounds ==
    ASSUME TypeInv
    PROVE  /\ Ttl \in Nat /\ Ttl >= 1 /\ CallTime \in Nat
           /\ now \in Nat /\ now >= 1 /\ Len(commits) \in Nat /\ ttl \in Nat
           /\ rate \in Nat /\ faults \in Nat /\ settled \in Nat
           /\ \A n \in 1..Len(commits) : commits[n] \in Nat
           /\ \A r \in Readers : since[r] \in Nat
           /\ \A r \in Readers, q \in Queries \cup {"rate"} : draft[r][q] \in Nat
           /\ cache # NoState => \A q \in Queries \cup {"rate"} : cache[q] \in Nat
           /\ cache # NoState => ttl \in 1..Ttl
  <1>1. /\ Ttl \in Nat /\ Ttl >= 1 /\ CallTime \in Nat /\ MaxTime \in Nat
        /\ now \in Nat /\ now >= 1 /\ Len(commits) \in Nat /\ ttl \in Nat
        /\ \A n \in 1..Len(commits) : commits[n] \in Nat
        /\ \A r \in Readers : since[r] \in Nat
    BY BoundsAssumption, SMT DEF BoundsAssumption, TypeInv, TypeOK
  <1>2. rate \in Nat /\ faults \in Nat /\ settled \in Nat
    BY <1>1, BoundsAssumption, SMT DEF BoundsAssumption, TypeInv, TypeOK
  <1>3. \A r \in Readers, q \in Queries \cup {"rate"} : draft[r][q] \in Nat
    BY DEF TypeInv, TypeOK, States
  <1>4. cache # NoState => \A q \in Queries \cup {"rate"} : cache[q] \in Nat
    BY DEF TypeInv, TypeOK, States
  <1>5. QED
    BY <1>1, <1>2, <1>3, <1>4 DEF TypeInv, TimeInv

\* The state that a build stores has seen what is older than its call may be.
LEMMA StoredFacts ==
    ASSUME TypeInv, FreshInv, NEW r \in Readers, StoreState(r)
    PROVE  LET state == [draft[r] EXCEPT !.rate = RateOf(r)] IN
           /\ state \in States
           /\ state.rate \in {0, rate}
           /\ Shows(state, settled)
           /\ \A n \in 1..Len(commits) : commits[n] + CallTime < now => Shows(state, n)
  <1> DEFINE state == [draft[r] EXCEPT !.rate = RateOf(r)]
  <1>1. /\ state \in States /\ state.rate \in {0, rate}
        /\ \A q \in Queries : state[q] = draft[r][q]
    <2>1. RateOf(r) \in {0, rate} /\ rate \in Nat
      BY Bounds DEF RateOf
    <2>2. RateOf(r) \in Nat /\ draft[r] \in [Queries \cup {"rate"} -> Nat]
      <3>1. RateOf(r) \in Nat
        BY <2>1, SMT
      <3>2. QED
        BY <3>1 DEF TypeInv, TypeOK, States
    <2>3. "rate" \notin Queries
      BY SMT DEF Queries
    <2>4. QED
      BY <2>1, <2>2, <2>3 DEF States
  <1>2. /\ pc[r] = "build" /\ pending[r] = {}
        /\ since[r] <= now /\ now - since[r] <= CallTime
    BY DEF StoreState, TypeInv, TimeInv
  <1> HIDE DEF state
  <1>3. /\ \A q \in Queries : draft[r][q] >= settled
        /\ \A q \in Queries, n \in 1..Len(commits) : commits[n] < since[r] => draft[r][q] >= n
    BY <1>2 DEF FreshInv, SeenInv
  <1>4. \A n \in 1..Len(commits) : commits[n] + CallTime < now => commits[n] < since[r]
    BY <1>2, Bounds, SMT
  <1>5. QED
    BY <1>1, <1>3, <1>4 DEF Shows, state

\* No step makes what is cached, or what a build has seen, miss an older commit.
LEMMA NextFreshInv == TypeInv /\ FreshInv /\ [Next]_vars => FreshInv'
  <1> SUFFICES ASSUME TypeInv, FreshInv, [Next]_vars PROVE FreshInv'
    OBVIOUS
  <1>a. /\ Ttl \in Nat /\ Ttl >= 1 /\ CallTime \in Nat
        /\ now \in Nat /\ now >= 1 /\ Len(commits) \in Nat /\ ttl \in Nat
        /\ rate \in Nat /\ faults \in Nat /\ settled \in Nat
        /\ \A n \in 1..Len(commits) : commits[n] \in Nat
        /\ \A r \in Readers : since[r] \in Nat
        /\ \A r \in Readers, q \in Queries \cup {"rate"} : draft[r][q] \in Nat
        /\ cache # NoState => \A q \in Queries \cup {"rate"} : cache[q] \in Nat
        /\ cache # NoState => ttl \in 1..Ttl
    BY Bounds
  <1>b. /\ Gets \subseteq Readers /\ Reporters \subseteq Readers /\ Clients \subseteq Readers
    BY DEF Readers
  <1>c. ASSUME UNCHANGED <<commits, cache, ttl, now, settled>>,
               faults' \in {faults, faults + 1},
               \A r \in Readers : pc'[r] = "build" =>
                   /\ pc[r] = "build" /\ since'[r] = since[r]
                   /\ pending'[r] = pending[r] /\ draft'[r] = draft[r]
        PROVE  FreshInv'
    <2>1. AgeInv'
      BY <1>a, <1>c, SMT DEF FreshInv, AgeInv, Shows
    <2>2. QED
      BY <1>c, <2>1 DEF FreshInv, SeenInv
  <1>1. ASSUME NEW w \in Writers, Commit(w) PROVE FreshInv'
    <2>1. /\ Len(commits') = Len(commits) + 1
          /\ \A n \in 1..Len(commits) : commits'[n] = commits[n]
          /\ commits'[Len(commits) + 1] = now
      BY <1>1, <1>a, SMT DEF Commit, TypeInv, TypeOK
    <2>2. \A n \in 1..Len(commits') :
             \/ n \in 1..Len(commits) /\ commits'[n] = commits[n]
             \/ commits'[n] = now
      BY <2>1, <1>a, SMT
    <2>3. /\ UNCHANGED <<cache, ttl, pc, pending, draft, since, now, faults, settled>>
      BY <1>1 DEF Commit, cacheVars, readVars
    <2>4. \A n \in 1..Len(commits') : commits'[n] <= now
      BY <2>2, <1>a, SMT DEF FreshInv
    <2>5. SeenInv'
      <3>1. \A r \in Readers : pc[r] = "build" => ~(now < since[r])
        BY <1>a, SMT DEF TypeInv, TimeInv
      <3>2. QED
        BY <2>2, <2>3, <3>1 DEF FreshInv, SeenInv
    <2>6. AgeInv'
      <3>1. cache # NoState => ~(now + CallTime + Ttl < now + ttl)
        BY <1>a, SMT
      <3>2. QED
        BY <2>2, <2>3, <3>1 DEF FreshInv, AgeInv, Shows
    <2>7. QED
      BY <2>3, <2>4, <2>5, <2>6 DEF FreshInv
  <1>2. ASSUME NEW w \in Writers, Invalidate(w) PROVE FreshInv'
    <2>1. UNCHANGED <<commits, pc, pending, draft, since, now>>
      BY <1>2 DEF Invalidate, readVars
    <2>2. CASE /\ cache' = NoState /\ ttl' = 0
               /\ settled' = IF Building = {} THEN Len(commits) ELSE settled
               /\ UNCHANGED faults
      <3>1. SeenInv'
        BY <2>1, <2>2 DEF FreshInv, SeenInv, Building
      <3>2. QED
        BY <2>1, <2>2, <3>1 DEF FreshInv, AgeInv
    <2>3. CASE faults' = faults + 1 /\ UNCHANGED <<cacheVars, settled>>
      BY <2>1, <2>3, <1>c DEF cacheVars
    <2>4. QED
      BY <1>2, <2>2, <2>3 DEF Invalidate, Deleted
  <1>3. ASSUME NEW g \in Gets, Ask(g) PROVE FreshInv'
    BY <1>3, <1>b, <1>c DEF Ask, Goto, TypeInv, TypeOK, writeVars, cacheVars
  <1>4. ASSUME NEW p \in Reporters, Report(p) PROVE FreshInv'
    <2>1. faults' \in {faults, faults + 1}
      BY <1>4 DEF Report
    <2>2. \A r \in Readers : pc'[r] = "build" => pc[r] = "build" /\ since'[r] = since[r]
      BY <1>4, <1>b DEF Report, Goto, TypeInv, TypeOK
    <2>3. QED
      BY <1>4, <2>1, <2>2, <1>c DEF Report, writeVars, cacheVars
  <1>5. ASSUME NEW c \in Clients, Connect(c) PROVE FreshInv'
    BY <1>5, <1>b, <1>c DEF Connect, Goto, TypeInv, TypeOK, writeVars, cacheVars
  <1>6. ASSUME NEW c \in Clients, Disconnect(c) PROVE FreshInv'
    BY <1>6, <1>c DEF Disconnect, writeVars, cacheVars, readVars
  <1>7. ASSUME NEW r \in Readers, GetState(r) PROVE FreshInv'
    <2>1. CASE Deliver(r, cache) /\ UNCHANGED <<pending, draft>>
      <3>1. \A q \in Readers : pc'[q] = "build" => pc[q] = "build" /\ since'[q] = since[q]
        BY <2>1 DEF Deliver, Goto, TypeInv, TypeOK
      <3>2. QED
        BY <1>7, <2>1, <3>1, <1>c DEF GetState, writeVars, cacheVars
    <2>2. CASE /\ cache = NoState /\ Goto(r, "build")
               /\ pending' = [pending EXCEPT ![r] = Queries]
               /\ UNCHANGED <<draft, since, shown>>
      <3>1. \A t \in Readers : t # r =>
                pc'[t] = pc[t] /\ pending'[t] = pending[t]
        BY <2>2 DEF Goto, TypeInv, TypeOK
      <3>2. pending'[r] = Queries
        BY <2>2 DEF TypeInv, TypeOK
      <3>3. UNCHANGED <<commits, cache, ttl, now, faults, settled, draft, since>>
        BY <1>7, <2>2 DEF GetState, writeVars, cacheVars
      <3>4. SeenInv'
        BY <3>1, <3>2, <3>3 DEF FreshInv, SeenInv
      <3>5. QED
        BY <3>3, <3>4 DEF FreshInv, AgeInv, Shows
    <2>3. QED
      BY <1>7, <2>1, <2>2 DEF GetState
  <1>8. ASSUME NEW r \in Readers, NEW q \in Queries, RunQuery(r, q) PROVE FreshInv'
    <2>1. UNCHANGED <<commits, cache, ttl, now, faults, settled, pc, since>>
      BY <1>8 DEF RunQuery, writeVars, cacheVars
    <2>2. /\ pending' = [pending EXCEPT ![r] = @ \ {q}]
          /\ draft' = [draft EXCEPT ![r][q] = Len(commits)]
      BY <1>8 DEF RunQuery
    <2>3. \A t \in Readers, p \in Queries :
             \/ t = r /\ p = q /\ draft'[t][p] = Len(commits)
             \/ draft'[t][p] = draft[t][p] /\ (p \notin pending'[t] => p \notin pending[t])
      BY <2>2 DEF TypeInv, TypeOK, States
    <2>4. Len(commits) >= settled /\ \A n \in 1..Len(commits) : Len(commits) >= n
      BY <1>a, SMT DEF TypeInv, TypeOK
    <2>5. SeenInv'
      BY <2>1, <2>3, <2>4 DEF FreshInv, SeenInv
    <2>6. QED
      BY <2>1, <2>5 DEF FreshInv, AgeInv, Shows
  <1>9. ASSUME NEW r \in Readers, StoreState(r) PROVE FreshInv'
    <2> DEFINE state == [draft[r] EXCEPT !.rate = RateOf(r)]
    <2>1. /\ Deliver(r, state) /\ cache' = state /\ ttl' = Ttl
          /\ draft' = [draft EXCEPT ![r] = Blank]
          /\ UNCHANGED <<commits, pending, now, faults, settled>>
      BY <1>9, Zenon DEF StoreState, Expiry, writeVars
    <2>2. /\ state.rate \in {0, rate}
          /\ Shows(state, settled)
          /\ \A n \in 1..Len(commits) : commits[n] + CallTime < now => Shows(state, n)
      BY <1>9, StoredFacts
    <2> HIDE DEF state
    <2>3. \A n \in 1..Len(commits) :
             commits[n] + CallTime + Ttl < now + Ttl => commits[n] + CallTime < now
      BY <1>a, SMT
    <2>4. state.rate # 0 => now + Ttl <= state.rate + 1 + Ttl + faults
      <3>1. now + Ttl <= rate + 1 + Ttl + faults
        BY <1>a, SMT DEF TypeInv, TypeOK, TimeInv
      <3>2. QED
        BY <2>2, <3>1
    <2>5. AgeInv'
      BY <2>1, <2>2, <2>3, <2>4 DEF AgeInv, Shows
    <2>6. \A t \in Readers : pc'[t] = "build" =>
             t # r /\ pc[t] = "build" /\ since'[t] = since[t] /\ draft'[t] = draft[t]
      BY <2>1 DEF Deliver, Goto, TypeInv, TypeOK
    <2>7. SeenInv'
      BY <2>1, <2>6 DEF FreshInv, SeenInv
    <2>8. QED
      BY <2>1, <2>5, <2>7 DEF FreshInv
  <1>10. ASSUME NEW r \in Readers, ReadFails(r) PROVE FreshInv'
    <2>1. faults' = faults + 1
      BY <1>10 DEF ReadFails
    <2>2. \A t \in Readers : pc'[t] = "build" =>
             /\ pc[t] = "build" /\ since'[t] = since[t]
             /\ pending'[t] = pending[t] /\ draft'[t] = draft[t]
      BY <1>10 DEF ReadFails, Goto, TypeInv, TypeOK
    <2>3. QED
      BY <1>10, <2>1, <2>2, <1>c DEF ReadFails, writeVars, cacheVars
  <1>11. CASE Tick
    <2>1. /\ now' = now + 1
          /\ UNCHANGED <<commits, pc, pending, draft, since, faults, settled>>
      BY <1>11 DEF Tick, writeVars, readVars
    <2>2. \A n \in 1..Len(commits) : commits[n] <= now'
      BY <2>1, <1>a, SMT DEF FreshInv
    <2>3. SeenInv'
      BY <2>1 DEF FreshInv, SeenInv
    <2>4. cache' # NoState => cache' = cache /\ now' + ttl' = now + ttl
      <3>1. cache' # NoState => cache' = cache /\ cache # NoState
        BY <1>11 DEF Tick
      <3>2. cache # NoState => ttl' = ttl - 1
        BY <1>11 DEF Tick
      <3>3. QED
        BY <2>1, <3>1, <3>2, <1>a, SMT
    <2>5. AgeInv'
      BY <2>1, <2>4 DEF FreshInv, AgeInv, Shows
    <2>6. QED
      BY <2>1, <2>2, <2>3, <2>5 DEF FreshInv
  <1>12. CASE UNCHANGED vars
    BY <1>12, <1>c DEF vars, writeVars, cacheVars, readVars
  <1>13. QED
    BY <1>1, <1>2, <1>3, <1>4, <1>5, <1>6, <1>7, <1>8, <1>9, <1>10, <1>11, <1>12
    DEF Next, ReaderStep

LEMMA CacheCorrect == Spec => [](TypeInv /\ FreshInv)
  BY InitTypeInv, NextTypeInv, InitFreshInv, NextFreshInv, PTL DEF Spec

\* What is cached is fresh: it has at least one tick of its TTL left.
LEMMA CachedIsFresh == TypeInv /\ FreshInv => StalenessBounded
  <1> SUFFICES ASSUME TypeInv, FreshInv, cache # NoState
               PROVE  Fresh(cache) /\ (cache.rate # 0 => now - cache.rate <= Ttl + faults)
    BY DEF StalenessBounded
  <1>1. /\ Ttl \in Nat /\ CallTime \in Nat /\ now \in Nat
        /\ \A n \in 1..Len(commits) : commits[n] \in Nat
        /\ cache.rate \in Nat /\ ttl \in 1..Ttl /\ faults \in Nat
    BY Bounds
  <1>2. \A n \in 1..Len(commits) :
           commits[n] + Ttl + CallTime <= now => commits[n] + CallTime + Ttl < now + ttl
    BY <1>1, SMT
  <1>3. Fresh(cache)
    BY <1>2 DEF FreshInv, AgeInv, Fresh
  <1>4. cache.rate # 0 => now + ttl <= cache.rate + 1 + Ttl + faults
    BY DEF FreshInv, AgeInv
  <1>5. QED
    BY <1>1, <1>3, <1>4, SMT

\* However reads, writes, failed DELs and the two services overlap, no cached state
\* misses a commit for longer than the TTL and one call, and its rate is of that TTL but
\* for the samples that failed.
THEOREM StalenessCorrect == Spec => []StalenessBounded
  BY CacheCorrect, CachedIsFresh, PTL

\* A commit whose invalidation met no build is in every state that is cached later.
THEOREM SettledCorrect == Spec => []SettledWritesShow
  <1>1. FreshInv => SettledWritesShow
    BY DEF FreshInv, AgeInv, SettledWritesShow
  <1>2. QED
    BY <1>1, CacheCorrect, PTL


-----------------------------------------------------------------------------
(* What stays on the screen.                                               *)

FreshAt(screen, t) ==
    \A n \in 1..Len(commits) : commits[n] + Ttl + CallTime <= t => Shows(screen, n)

Covered(t) == \E p \in Reporters : pc[p] # "idle" /\ since[p] = t

\* The ticks whose broadcast would have replaced this screen and is not on its way.
Missed(c) == {t \in 1..sampled : ~FreshAt(shown[c], t) /\ ~Covered(t)}

\* Each of them is a broadcast that failed: ShownStatesFresh alone does not say why a
\* screen is old.
ShownInv == \A c \in clients : shown[c] # NoState => Cardinality(Missed(c)) <= faults

LEMMA SmallerSet ==
    ASSUME NEW n \in Nat, NEW S \in SUBSET (1..n), NEW T \in SUBSET S
    PROVE  /\ IsFiniteSet(S) /\ Cardinality(S) \in Nat
           /\ Cardinality(T) \in Nat /\ Cardinality(T) <= Cardinality(S)
  <1>1. IsFiniteSet(1..n)
    BY FS_Interval
  <1>2. IsFiniteSet(S) /\ IsFiniteSet(T) /\ Cardinality(T) <= Cardinality(S)
    BY <1>1, FS_Subset
  <1>3. QED
    BY <1>2, FS_CardinalityType

LEMMA OneMore ==
    ASSUME NEW n \in Nat, NEW S \in SUBSET (1..n), NEW t, NEW T \in SUBSET (S \cup {t})
    PROVE  Cardinality(T) \in Nat /\ Cardinality(T) <= Cardinality(S) + 1
  <1>1. IsFiniteSet(S) /\ Cardinality(S) \in Nat
    BY SmallerSet
  <1>2. /\ IsFiniteSet(S \cup {t})
        /\ Cardinality(S \cup {t}) = IF t \in S THEN Cardinality(S) ELSE Cardinality(S) + 1
    BY <1>1, FS_AddElement
  <1>3. IsFiniteSet(T) /\ Cardinality(T) <= Cardinality(S \cup {t})
    BY <1>2, FS_Subset
  <1>4. Cardinality(T) \in Nat
    BY <1>3, FS_CardinalityType
  <1>5. QED
    BY <1>1, <1>2, <1>3, <1>4, SMT

LEMMA InitShownInv == Init => ShownInv
  BY DEF Init, ShownInv

\* A broadcast that is delivered replaces every old screen; one that fails is a fault.
LEMMA NextShownInv == TypeInv /\ FreshInv /\ ShownInv /\ [Next]_vars => ShownInv'
  <1> SUFFICES ASSUME TypeInv, FreshInv, ShownInv, [Next]_vars,
                      NEW c \in clients', shown'[c] # NoState
               PROVE  Cardinality(Missed(c)') <= faults'
    BY DEF ShownInv
  <1>a. /\ Ttl \in Nat /\ Ttl >= 1 /\ CallTime \in Nat /\ now \in Nat /\ faults \in Nat
        /\ sampled \in Nat /\ sampled <= now /\ sampled >= now - 1 /\ Len(commits) \in Nat
        /\ c \in Clients /\ \A n \in 1..Len(commits) : commits[n] \in Nat
    <2>1. c \in Clients
      BY NextTypeInv DEF TypeInv, TypeOK
    <2>2. sampled \in Nat /\ sampled <= now /\ sampled >= now - 1
      BY Bounds, SMT DEF TypeInv, TypeOK, TimeInv
    <2>3. QED
      BY <2>1, <2>2, Bounds
  <1>b. /\ \A r \in Gets \cup Clients : r \in Readers /\ r \notin Reporters
        /\ Reporters \subseteq Readers
    BY SetsAssumption DEF SetsAssumption, Readers
  <1>c. /\ Missed(c) \in SUBSET (1..sampled)
        /\ Cardinality(Missed(c)) \in Nat
    <2>1. Missed(c) \in SUBSET (1..sampled)
      BY DEF Missed
    <2>2. QED
      BY <2>1, <1>a, SmallerSet
  \* No tick is missed that was not, and the screen is the one it was.
  <1>d. ASSUME c \in clients, shown'[c] = shown[c], Missed(c)' \subseteq Missed(c),
               faults' \in {faults, faults + 1}
        PROVE  Cardinality(Missed(c)') <= faults'
    <2>1. Cardinality(Missed(c)) <= faults
      BY <1>d DEF ShownInv
    <2>2. Cardinality(Missed(c)') \in Nat /\ Cardinality(Missed(c)') <= Cardinality(Missed(c))
      BY <1>a, <1>c, <1>d, SmallerSet
    <2>3. QED
      BY <1>a, <1>c, <1>d, <2>1, <2>2, SMT
  \* One more is missed, and that is a fault.
  <1>e. ASSUME c \in clients, shown'[c] = shown[c], NEW t, Missed(c)' \subseteq Missed(c) \cup {t},
               faults' = faults + 1
        PROVE  Cardinality(Missed(c)') <= faults'
    <2>1. Cardinality(Missed(c)) <= faults
      BY <1>e DEF ShownInv
    <2>2. Cardinality(Missed(c)') \in Nat /\ Cardinality(Missed(c)') <= Cardinality(Missed(c)) + 1
      BY <1>a, <1>c, <1>e, OneMore
    <2>3. QED
      BY <1>a, <1>c, <1>e, <2>1, <2>2, SMT
  \* A reader that serves no broadcast changes no coverage.
  <1>f. ASSUME UNCHANGED <<commits, sampled>>, shown'[c] = shown[c],
               \A p \in Reporters : pc[p] # "idle" => pc'[p] # "idle" /\ since'[p] = since[p]
        PROVE  Missed(c)' \subseteq Missed(c)
    BY <1>f DEF Missed, FreshAt, Covered, Shows
  <1>g. ASSUME NEW r \in Readers, NEW state \in States, Deliver(r, state), FreshAt(state, now),
               UNCHANGED <<commits, sampled, clients, faults>>
        PROVE  Cardinality(Missed(c)') <= faults'
    <2>1. CASE c \in Receivers(r)
      <3>1. shown'[c] = Screen(state)
        BY <1>a, <1>g, <2>1 DEF Deliver
      <3>2. \A t \in 1..sampled, n \in 1..Len(commits) :
                commits[n] + Ttl + CallTime <= t => Shows(state, n)
        <4>1. \A t \in 1..sampled, n \in 1..Len(commits) :
                commits[n] + Ttl + CallTime <= t => commits[n] + Ttl + CallTime <= now
          BY <1>a, SMT
        <4>2. QED
          BY <4>1, <1>g DEF FreshAt
      <3>3. \A n \in 1..Len(commits) : Shows(state, n) => Shows(Screen(state), n)
        BY DEF Shows, Screen
      <3>4. Missed(c)' = {}
        BY <1>g, <3>1, <3>2, <3>3 DEF Missed, FreshAt, Shows
      <3>5. QED
        BY <1>a, <1>g, <3>4, FS_EmptySet, SMT
    <2>2. CASE c \notin Receivers(r)
      <3>1. c \in clients /\ r \notin Reporters /\ shown'[c] = shown[c]
        BY <1>a, <1>g, <2>2 DEF Deliver, Receivers
      <3>2. \A p \in Reporters : pc'[p] = pc[p] /\ since'[p] = since[p]
        BY <1>b, <1>g, <3>1 DEF Deliver, Goto, TypeInv, TypeOK
      <3>3. QED
        BY <1>d, <1>f, <1>g, <3>1, <3>2
    <2>3. QED
      BY <2>1, <2>2
  <1>1. ASSUME NEW w \in Writers, Commit(w) PROVE Cardinality(Missed(c)') <= faults'
    <2>1. /\ Len(commits') = Len(commits) + 1
          /\ \A n \in 1..Len(commits) : commits'[n] = commits[n]
          /\ commits'[Len(commits) + 1] = now
      BY <1>1, <1>a, SMT DEF Commit, TypeInv, TypeOK
    <2>2. UNCHANGED <<pc, since, clients, shown, sampled, faults>>
      BY <1>1 DEF Commit, readVars, feedVars, rateVars
    <2>3. \A t \in 1..sampled, n \in 1..Len(commits') :
              commits'[n] + Ttl + CallTime <= t =>
                  n \in 1..Len(commits) /\ commits[n] + Ttl + CallTime <= t
      BY <2>1, <1>a, SMT
    <2>4. Missed(c)' \subseteq Missed(c)
      BY <2>2, <2>3 DEF Missed, FreshAt, Covered, Shows
    <2>5. QED
      BY <1>d, <2>2, <2>4
  <1>2. ASSUME NEW w \in Writers, Invalidate(w) PROVE Cardinality(Missed(c)') <= faults'
    <2>1. UNCHANGED <<commits, pc, since, clients, shown, sampled>>
          /\ faults' \in {faults, faults + 1}
      BY <1>2 DEF Invalidate, readVars, feedVars, rateVars
    <2>2. QED
      BY <1>d, <1>f, <2>1
  <1>3. ASSUME NEW g \in Gets, Ask(g) PROVE Cardinality(Missed(c)') <= faults'
    <2>1. UNCHANGED <<commits, clients, shown, sampled, faults>>
      BY <1>3 DEF Ask, writeVars, feedVars, rateVars
    <2>2. \A p \in Reporters : pc'[p] = pc[p] /\ since'[p] = since[p]
      BY <1>3, <1>b DEF Ask, Goto, TypeInv, TypeOK
    <2>3. QED
      BY <1>d, <1>f, <2>1, <2>2
  <1>4. ASSUME NEW p \in Reporters, Report(p) PROVE Cardinality(Missed(c)') <= faults'
    <2>1. UNCHANGED <<commits, clients, shown>> /\ sampled' = now /\ pc[p] = "idle"
      BY <1>4 DEF Report, writeVars, feedVars
    <2>2. \A t \in 1..sampled' : t \in 1..sampled \/ t = now
      BY <2>1, <1>a, SMT
    <2>3. CASE Goto(p, "get") /\ since' = [since EXCEPT ![p] = now] /\ UNCHANGED faults
      <3>1. /\ pc'[p] # "idle" /\ since'[p] = now
            /\ \A q \in Reporters : pc[q] # "idle" => pc'[q] # "idle" /\ since'[q] = since[q]
        BY <2>1, <2>3, <1>b DEF Goto, TypeInv, TypeOK
      <3>2. Missed(c)' \subseteq Missed(c)
        BY <2>1, <2>2, <3>1 DEF Missed, FreshAt, Covered, Shows
      <3>3. QED
        BY <1>d, <2>1, <2>3, <3>2
    <2>4. CASE faults' = faults + 1 /\ UNCHANGED <<pc, since>>
      <3>1. Missed(c)' \subseteq Missed(c) \cup {now}
        BY <2>1, <2>2, <2>4 DEF Missed, FreshAt, Covered, Shows
      <3>2. QED
        BY <1>e, <2>1, <2>4, <3>1
    <2>5. QED
      BY <1>4, <2>3, <2>4 DEF Report
  <1>5. ASSUME NEW d \in Clients, Connect(d) PROVE Cardinality(Missed(c)') <= faults'
    <2>1. UNCHANGED <<commits, shown, sampled, faults>> /\ clients' = clients \cup {d}
      BY <1>5 DEF Connect, writeVars, rateVars
    <2>2. \A p \in Reporters : pc'[p] = pc[p] /\ since'[p] = since[p]
      BY <1>5, <1>b DEF Connect, Goto, TypeInv, TypeOK
    <2>3. c \in clients
      BY <1>a, <2>1 DEF TypeInv, TypeOK
    <2>4. QED
      BY <1>d, <1>f, <2>1, <2>2, <2>3
  <1>6. ASSUME NEW d \in Clients, Disconnect(d) PROVE Cardinality(Missed(c)') <= faults'
    <2>1. /\ UNCHANGED <<commits, pc, since, sampled, faults>>
          /\ c \in clients /\ shown'[c] = shown[c]
      BY <1>6, <1>a DEF Disconnect, writeVars, readVars, rateVars, TypeInv, TypeOK
    <2>2. QED
      BY <1>d, <1>f, <2>1
  <1>7. ASSUME NEW r \in Readers, GetState(r) PROVE Cardinality(Missed(c)') <= faults'
    <2>1. UNCHANGED <<commits, clients, sampled, faults>>
      BY <1>7 DEF GetState, writeVars, rateVars
    <2>2. CASE cache # NoState /\ Deliver(r, cache)
      <3>1. cache \in States /\ FreshAt(cache, now)
        BY <2>2, CachedIsFresh DEF StalenessBounded, Fresh, FreshAt, TypeInv, TypeOK
      <3>2. QED
        BY <1>g, <2>1, <2>2, <3>1
    <2>3. CASE Goto(r, "build") /\ UNCHANGED <<since, shown>>
      <3>1. \A p \in Reporters : pc[p] # "idle" => pc'[p] # "idle" /\ since'[p] = since[p]
        BY <2>3, <1>b DEF Goto, TypeInv, TypeOK
      <3>2. QED
        BY <1>d, <1>f, <2>1, <2>3, <3>1
    <2>4. QED
      BY <1>7, <2>2, <2>3 DEF GetState
  <1>8. ASSUME NEW r \in Readers, NEW q \in Queries, RunQuery(r, q)
        PROVE  Cardinality(Missed(c)') <= faults'
    <2>1. UNCHANGED <<commits, pc, since, clients, shown, sampled, faults>>
      BY <1>8 DEF RunQuery, writeVars, feedVars, rateVars
    <2>2. QED
      BY <1>d, <1>f, <2>1
  <1>9. ASSUME NEW r \in Readers, StoreState(r) PROVE Cardinality(Missed(c)') <= faults'
    <2> DEFINE state == [draft[r] EXCEPT !.rate = RateOf(r)]
    <2>1. /\ state \in States
          /\ \A n \in 1..Len(commits) : commits[n] + CallTime < now => Shows(state, n)
      BY <1>9, StoredFacts
    <2>2. Deliver(r, state) /\ UNCHANGED <<commits, clients, sampled, faults>>
      BY <1>9, Zenon DEF StoreState, writeVars, rateVars
    <2> HIDE DEF state
    <2>3. \A n \in 1..Len(commits) :
              commits[n] + Ttl + CallTime <= now => commits[n] + CallTime < now
      BY <1>a, SMT
    <2>4. FreshAt(state, now)
      BY <2>1, <2>3 DEF FreshAt
    <2>5. QED
      BY <1>g, <2>1, <2>2, <2>4
  <1>10. ASSUME NEW r \in Readers, ReadFails(r) PROVE Cardinality(Missed(c)') <= faults'
    <2>1. UNCHANGED <<commits, clients, shown, sampled>> /\ faults' = faults + 1
      BY <1>10 DEF ReadFails, writeVars, feedVars, rateVars
    <2>2. \A p \in Reporters : p # r => pc'[p] = pc[p] /\ since'[p] = since[p]
      BY <1>10, <1>b DEF ReadFails, Goto, TypeInv, TypeOK
    <2>3. \A t \in 1..sampled : t # since[r] /\ Covered(t) => Covered(t)'
      BY <2>2 DEF Covered
    <2>4. Missed(c)' \subseteq Missed(c) \cup {since[r]}
      BY <2>1, <2>2 DEF Missed, FreshAt, Covered, Shows
    <2>5. QED
      BY <1>e, <2>1, <2>4
  <1>11. CASE Tick
    <2>1. UNCHANGED <<commits, pc, since, clients, shown, sampled, faults>>
      BY <1>11 DEF Tick, writeVars, readVars, feedVars, rateVars
    <2>2. QED
      BY <1>d, <1>f, <2>1
  <1>12. CASE UNCHANGED vars
    <2>1. UNCHANGED <<commits, pc, since, clients, shown, sampled, faults>>
      BY <1>12 DEF vars, writeVars, readVars, feedVars, rateVars
    <2>2. QED
      BY <1>d, <1>f, <2>1
  <1>13. QED
    BY <1>1, <1>2, <1>3, <1>4, <1>5, <1>6, <1>7, <1>8, <1>9, <1>10, <1>11, <1>12
    DEF Next, ReaderStep

\* A screen that misses so old a commit has missed more broadcasts than have failed.
LEMMA OldScreensMissed == TypeInv /\ ShownInv => ShownStatesFresh
  <1> SUFFICES ASSUME TypeInv, ShownInv, NEW c \in clients, NEW n \in 1..Len(commits),
                      shown[c] # NoState,
                      commits[n] + Ttl + 2 * CallTime + 1 + faults <= now,
                      ~Shows(shown[c], n)
               PROVE  FALSE
    BY DEF ShownStatesFresh
  <1> DEFINE last == now - CallTime - 1
             first == last - faults
  <1>1. /\ Ttl \in Nat /\ Ttl >= 1 /\ CallTime \in Nat /\ now \in Nat /\ faults \in Nat
        /\ commits[n] \in Nat /\ sampled \in Nat /\ sampled >= now - 1
        /\ \A r \in Readers : since[r] \in Nat
    BY Bounds, SMT DEF TypeInv, TypeOK, TimeInv
  <1>2. first \in Int /\ last \in Int /\ first >= 1 /\ last <= sampled /\ last - first = faults
    BY <1>1, SMT
  <1>3. \A t \in first..last : t \in 1..sampled /\ commits[n] + Ttl + CallTime <= t
    BY <1>1, SMT
  <1>4. \A t \in first..last : ~FreshAt(shown[c], t)
    BY <1>3 DEF FreshAt
  <1>5. \A t \in first..last : ~Covered(t)
    <2>1. \A r \in Readers : pc[r] # "idle" => now - since[r] <= CallTime
      BY DEF TypeInv, TimeInv
    <2>2. \A r \in Readers : pc[r] # "idle" => since[r] \notin first..last
      BY <1>1, <2>1, SMT
    <2>3. QED
      BY <2>2 DEF Covered, Readers
  <1> HIDE DEF first, last
  <1>6. first..last \subseteq Missed(c)
    BY <1>3, <1>4, <1>5 DEF Missed
  <1>7. Cardinality(first..last) = faults + 1
    <2>1. Cardinality(first..last) = IF first > last THEN 0 ELSE last - first + 1
      BY <1>2, FS_Interval
    <2>2. QED
      BY <1>1, <1>2, <2>1, SMT
  <1>8. /\ Cardinality(first..last) <= Cardinality(Missed(c))
        /\ Cardinality(Missed(c)) \in Nat
    <2>1. Missed(c) \in SUBSET (1..sampled)
      BY DEF Missed
    <2>2. QED
      BY <1>1, <1>6, <2>1, SmallerSet
  <1>9. Cardinality(Missed(c)) <= faults
    BY DEF ShownInv
  <1>10. QED
    BY <1>1, <1>7, <1>8, <1>9, SMT

\* However broadcasts and first states overtake one another, an open screen is older than
\* the TTL, two calls and a tick only by the broadcasts that failed.
THEOREM ShownCorrect == Spec => []ShownStatesFresh
  BY CacheCorrect, InitShownInv, NextShownInv, OldScreensMissed, PTL DEF Spec
=============================================================================
