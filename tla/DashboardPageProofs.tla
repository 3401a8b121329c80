------------------------ MODULE DashboardPageProofs ------------------------
(***************************************************************************)
(* Theorems about DashboardPage, for any number of visits, outages, broken *)
(* connections, failed fetches and changes of the dashboard.               *)
(***************************************************************************)
EXTENDS DashboardPage, FiniteSetTheorems, TLAPS

States == {"none", "connecting", "open", "closing"}

TypeInv ==
    /\ strict \in BOOLEAN /\ mounted \in BOOLEAN
    /\ visit \in 0..MaxVisits /\ (mounted => visit \in Visits)
    /\ socket \in [Visits -> [Slots -> States]]
    /\ ws \in [Visits -> 0..3]
    /\ timers \in [Visits -> Nat]
    /\ connected \in BOOLEAN /\ loading \in BOOLEAN
    /\ heard \in Dashboards \cup {"unknown"} /\ fetched \in Dashboards \cup {"unknown"}
    /\ fetches \in Nat
    /\ up \in BOOLEAN /\ news \in Dashboards /\ breaks \in Nat

LEMMA SlotsAre == Slots = {1, 2, 3}
  BY SMT DEF Slots

LEMMA EffectsAre == Effects \in {1, 2} /\ (~strict => Effects = 1)
  BY SMT DEF Effects

-----------------------------------------------------------------------------
(* Counting the sockets of a visit.                                        *)

InUse(f) == {s \in Slots : f[s] # "none"}

\* A visit has finitely many sockets.
LEMMA InUseFinite ==
    ASSUME NEW f
    PROVE  IsFiniteSet(InUse(f)) /\ Cardinality(InUse(f)) \in Nat
  <1>1. IsFiniteSet(1..3)
    <2>1. 1 \in Int /\ 3 \in Int
      BY SMT
    <2>2. QED
      BY <2>1, FS_Interval
  <1>2. InUse(f) \in SUBSET Slots
    BY DEF InUse
  <1>3. IsFiniteSet(InUse(f))
    BY <1>1, <1>2, FS_Subset DEF Slots
  <1>4. QED
    BY <1>3, FS_CardinalityType

\* A new socket is one more, ...
LEMMA SocketAdded ==
    ASSUME NEW f \in [Slots -> States], NEW s \in Slots, NEW x \in States,
           f[s] = "none", x # "none"
    PROVE  Cardinality(InUse([f EXCEPT ![s] = x])) = Cardinality(InUse(f)) + 1
  <1>1. InUse([f EXCEPT ![s] = x]) = InUse(f) \cup {s}
    BY DEF InUse
  <1>2. s \notin InUse(f)
    BY DEF InUse
  <1>3. QED
    BY <1>1, <1>2, InUseFinite, FS_AddElement

\* ... a closed one is one less, ...
LEMMA SocketRemoved ==
    ASSUME NEW f \in [Slots -> States], NEW s \in Slots, f[s] # "none"
    PROVE  Cardinality(InUse([f EXCEPT ![s] = "none"])) = Cardinality(InUse(f)) - 1
  <1>1. InUse([f EXCEPT ![s] = "none"]) = InUse(f) \ {s}
    BY DEF InUse
  <1>2. s \in InUse(f)
    BY DEF InUse
  <1>3. QED
    BY <1>1, <1>2, InUseFinite, FS_RemoveElement

\* ... and one that changes its state is still one.
LEMMA SameSockets ==
    ASSUME NEW f, NEW g, \A s \in Slots : f[s] = "none" <=> g[s] = "none"
    PROVE  InUse(f) = InUse(g)
  BY DEF InUse

\* A visit with at most one socket and one to come has a slot left for it.
LEMMA FreshSlot ==
    ASSUME NEW v \in Visits, Cardinality(InUse(socket[v])) <= 2
    PROVE  Fresh(v) \in Slots /\ socket[v][Fresh(v)] = "none"
  <1>1. \E s \in Slots : socket[v][s] = "none"
    <2>1. SUFFICES ASSUME InUse(socket[v]) = Slots PROVE FALSE
      BY DEF InUse
    <2>2. Cardinality(1..3) = 3
      <3>1. 1 \in Int /\ 3 \in Int /\ ~(1 > 3) /\ 3 - 1 + 1 = 3
        BY SMT
      <3>2. QED
        BY <3>1, FS_Interval
    <2>3. QED
      BY <2>1, <2>2, SMT DEF Slots
  <1>2. QED
    BY <1>1 DEF Fresh

\* The two lowest slots hold the sockets of the effects that Mount runs.
LEMMA SocketsMounted ==
    ASSUME TypeInv, NEW f, 
           f = [s \in Slots |-> IF s < Effects THEN "closing"
                                ELSE IF s = Effects THEN "connecting" ELSE "none"]
    PROVE  f \in [Slots -> States] /\ Cardinality(InUse(f)) = Effects
  <1>1. f \in [Slots -> States]
    BY DEF States
  <1>2. InUse(f) = 1..Effects
    BY EffectsAre, SlotsAre, SMT DEF InUse
  <1>3. Cardinality(1..Effects) = Effects
    <2>1. /\ 1 \in Int /\ Effects \in Int /\ ~(1 > Effects)
          /\ Effects - 1 + 1 = Effects
      BY EffectsAre, SMT
    <2>2. QED
      BY <2>1, FS_Interval
  <1>4. QED
    BY <1>1, <1>2, <1>3

-----------------------------------------------------------------------------
(* Types, and the chains of sockets and timers.                            *)

InitStates == [s \in Slots |-> "none"]

\* A visit to come has no socket or timer; the others never have more chains than their
\* effect has run, and the one that is shown has one.
ChainInv ==
    \A v \in Visits :
        /\ v > visit => socket[v] = InitStates /\ timers[v] = 0
        /\ Cardinality(InUse(socket[v])) + timers[v] <= Effects
        /\ Shown(v) => Cardinality(InUse(socket[v])) + timers[v] >= 1

\* The current socket of a visit has not closed.
CurrentInv == \A v \in Visits : ws[v] # None => socket[v][ws[v]] # "none"

Inv == TypeInv /\ ChainInv /\ CurrentInv

LEMMA InitInv == Init => Inv
  <1> SUFFICES ASSUME Init PROVE Inv
    OBVIOUS
  <1>1. InitStates \in [Slots -> States]
    BY DEF InitStates, States
  <1>2. TypeInv
    <2>1. socket \in [Visits -> [Slots -> States]]
      BY <1>1 DEF Init, InitStates
    <2>2. visit \in 0..MaxVisits /\ fetches \in Nat /\ breaks \in Nat
      BY BoundsAssumption, SMT DEF Init, BoundsAssumption, None
    <2>3. ws \in [Visits -> 0..3] /\ timers \in [Visits -> Nat]
      BY SMT DEF Init, None
    <2>4. QED
      BY <2>1, <2>2, <2>3 DEF Init, TypeInv
  <1>3. InUse(InitStates) = {}
    BY DEF InUse, InitStates
  <1>4. Cardinality(InUse(InitStates)) = 0
    BY <1>3, FS_EmptySet
  <1>5. ChainInv
    <2>1. SUFFICES ASSUME NEW v \in Visits
          PROVE  /\ socket[v] = InitStates /\ timers[v] = 0 /\ ~Shown(v)
                 /\ Cardinality(InUse(socket[v])) + timers[v] <= Effects
      BY DEF ChainInv
    <2>2. socket[v] = InitStates /\ timers[v] = 0 /\ ~Shown(v)
      BY DEF Init, InitStates, Shown
    <2>3. QED
      BY <1>4, <2>2, EffectsAre, SMT
  <1>6. CurrentInv
    BY DEF Init, CurrentInv
  <1>7. QED
    BY <1>2, <1>5, <1>6 DEF Inv

\* The counts of a visit are numbers.
LEMMA Counts ==
    ASSUME TypeInv, NEW v \in Visits
    PROVE  /\ v \in 1..MaxVisits /\ visit \in 0..MaxVisits
           /\ socket[v] \in [Slots -> States] /\ timers[v] \in Nat /\ ws[v] \in 0..3
           /\ Cardinality(InUse(socket[v])) \in Nat
  BY InUseFinite DEF TypeInv, Visits

\* A step of one visit leaves the chains of the others alone.
LEMMA OneVisit ==
    ASSUME Inv, NEW w \in Visits, w <= visit,
           UNCHANGED <<strict, visit, mounted>>,
           \A u \in Visits \ {w} : socket'[u] = socket[u] /\ timers'[u] = timers[u],
           Cardinality(InUse(socket'[w])) + timers'[w] <= Effects,
           Shown(w) => Cardinality(InUse(socket'[w])) + timers'[w] >= 1
    PROVE  ChainInv'
  <1>1. SUFFICES ASSUME NEW v \in Visits
        PROVE  /\ v > visit => socket'[v] = InitStates /\ timers'[v] = 0
               /\ Cardinality(InUse(socket'[v])) + timers'[v] <= Effects
               /\ Shown(v) => Cardinality(InUse(socket'[v])) + timers'[v] >= 1
    BY DEF ChainInv, Effects, Shown, InUse, InitStates
  <1>2. CASE v = w
    <2>1. ~(v > visit)
      BY <1>2, Counts, SMT DEF Inv
    <2>2. QED
      BY <1>2, <2>1
  <1>3. CASE v # w
    BY <1>3 DEF Inv, ChainInv
  <1>4. QED
    BY <1>2, <1>3

\* A visit with a socket or a timer has begun.
LEMMA Begun ==
    ASSUME Inv, NEW v \in Visits,
           timers[v] > 0 \/ \E s \in Slots : socket[v][s] # "none"
    PROVE  v <= visit
  <1>1. CASE v > visit
    <2>1. socket[v] = InitStates /\ timers[v] = 0
      BY <1>1 DEF Inv, ChainInv
    <2>2. QED
      BY <2>1, SMT DEF InitStates
  <1>2. QED
    BY <1>1, Counts, SMT DEF Inv

LEMMA MountStep == Inv /\ Mount => Inv'
  <1> SUFFICES ASSUME Inv, Mount PROVE Inv'
    OBVIOUS
  <1> DEFINE w == visit + 1
             f == [s \in Slots |-> IF s < Effects THEN "closing"
                                   ELSE IF s = Effects THEN "connecting" ELSE "none"]
  <1>1. /\ w \in Visits /\ visit' = w /\ mounted' /\ mounted' \in BOOLEAN
        /\ socket' = [socket EXCEPT ![w] = f]
        /\ ws' = [ws EXCEPT ![w] = Effects]
        /\ connected' = FALSE /\ heard' = "unknown" /\ fetched' = "unknown"
        /\ loading' = TRUE /\ fetches' = Effects
        /\ UNCHANGED <<strict, timers, up, news, breaks, changes>>
    BY DEF Mount, Forget, Loading, serverVars
  <1>2. f \in [Slots -> States] /\ Cardinality(InUse(f)) = Effects
    BY SocketsMounted DEF Inv
  <1>3. timers[w] = 0
    <2>1. w > visit
      BY SMT DEF Inv, TypeInv
    <2>2. QED
      BY <1>1, <2>1 DEF Inv, ChainInv
  <1>4. Effects \in 0..3 /\ Effects \in Nat /\ w \in 0..MaxVisits
    BY <1>1, EffectsAre, SMT DEF Visits
  <1>5. TypeInv'
    BY <1>1, <1>2, <1>4 DEF Inv, TypeInv
  <1>6. ChainInv'
    <2>1. SUFFICES ASSUME NEW v \in Visits
          PROVE  /\ v > w => socket'[v] = InitStates /\ timers[v] = 0
                 /\ Cardinality(InUse(socket'[v])) + timers[v] <= Effects
                 /\ v = w => Cardinality(InUse(socket'[v])) + timers[v] >= 1
      BY <1>1 DEF ChainInv, Effects, Shown, InUse, InitStates
    <2>2. CASE v = w
      <3>1. socket'[v] = f
        BY <1>1, <2>2 DEF Inv, TypeInv
      <3>2. ~(v > w)
        BY <1>1, <2>2, SMT DEF Visits
      <3>3. Effects + 0 <= Effects /\ Effects + 0 >= 1
        BY EffectsAre, SMT
      <3>4. QED
        BY <1>2, <1>3, <2>2, <3>1, <3>2, <3>3
    <2>3. CASE v # w
      <3>1. socket'[v] = socket[v]
        BY <1>1, <2>3 DEF Inv, TypeInv
      <3>2. v > w => v > visit
        BY Counts, SMT DEF Inv
      <3>3. QED
        BY <2>3, <3>1, <3>2 DEF Inv, ChainInv
    <2>4. QED
      BY <2>2, <2>3
  <1>7. CurrentInv'
    <2>1. f[Effects] = "connecting"
      BY EffectsAre, SlotsAre, SMT
    <2>2. QED
      BY <1>1, <2>1 DEF Inv, TypeInv, CurrentInv
  <1>8. QED
    BY <1>5, <1>6, <1>7 DEF Inv

LEMMA UnmountStep == Inv /\ Unmount => Inv'
  <1> SUFFICES ASSUME Inv, Unmount PROVE Inv'
    OBVIOUS
  <1> DEFINE w == visit
             f == [s \in Slots |-> IF s = ws[w] THEN "closing" ELSE socket[w][s]]
             t == IF timers[w] = 0 THEN 0 ELSE timers[w] - 1
  <1>1. /\ w \in Visits /\ mounted' = FALSE
        /\ socket' = [socket EXCEPT ![w] = f]
        /\ timers' = [timers EXCEPT ![w] = t]
        /\ connected' = FALSE /\ heard' = "unknown" /\ fetched' = "unknown"
        /\ loading' = TRUE /\ fetches' = 0
        /\ UNCHANGED <<strict, visit, ws, up, news, breaks, changes>>
    BY DEF Unmount, Forget, Loading, serverVars, Inv, TypeInv
  <1>2. f \in [Slots -> States]
    BY <1>1 DEF Inv, TypeInv, States
  <1>3. t \in Nat
    BY <1>1, Counts, SMT DEF Inv
  <1>4. TypeInv'
    BY <1>1, <1>2, <1>3 DEF Inv, TypeInv
  <1>5. \A s \in Slots : f[s] = "none" <=> socket[w][s] = "none"
    BY <1>1 DEF Inv, CurrentInv, None, Slots
  <1>6. InUse(f) = InUse(socket[w])
    BY <1>5, SameSockets
  <1>7. ChainInv'
    <2>1. SUFFICES ASSUME NEW v \in Visits
          PROVE  /\ v > visit => socket'[v] = InitStates /\ timers'[v] = 0
                 /\ Cardinality(InUse(socket'[v])) + timers'[v] <= Effects
      BY <1>1 DEF ChainInv, Effects, Shown, InUse, InitStates
    <2>2. CASE v = w
      <3>1. socket'[v] = f /\ timers'[v] = t
        BY <1>1, <2>2 DEF Inv, TypeInv
      <3>2. ~(v > visit)
        BY <2>2, Counts, SMT DEF Inv
      <3>3. Cardinality(InUse(socket[w])) + timers[w] <= Effects
        BY <1>1 DEF Inv, ChainInv
      <3>4. Cardinality(InUse(socket[w])) + t <= Effects
        BY <1>1, <3>3, Counts, EffectsAre, SMT DEF Inv
      <3>5. QED
        BY <1>6, <2>2, <3>1, <3>2, <3>4
    <2>3. CASE v # w
      <3>1. socket'[v] = socket[v] /\ timers'[v] = timers[v]
        BY <1>1, <2>3 DEF Inv, TypeInv
      <3>2. QED
        BY <3>1 DEF Inv, ChainInv
    <2>4. QED
      BY <2>2, <2>3
  <1>8. CurrentInv'
    <2>1. SUFFICES ASSUME NEW v \in Visits, ws[v] # None PROVE socket'[v][ws[v]] # "none"
      BY <1>1 DEF CurrentInv
    <2>2. ws[v] \in Slots /\ socket[v][ws[v]] # "none"
      BY <2>1, SlotsAre, Counts, SMT DEF Inv, CurrentInv, None
    <2>3. QED
      BY <1>1, <1>5, <2>2 DEF Inv, TypeInv
  <1>9. QED
    BY <1>4, <1>7, <1>8 DEF Inv

LEMMA OpenedStep == ASSUME Inv, NEW v \in Visits, NEW s \in Slots, Opened(v, s) PROVE Inv'
  <1> DEFINE f == [socket[v] EXCEPT ![s] = "open"]
  <1>1. /\ socket[v][s] = "connecting"
        /\ socket' = [socket EXCEPT ![v] = f]
        /\ connected' = (connected \/ Shown(v))
        /\ UNCHANGED <<strict, visit, mounted, ws, timers, heard, fetched, loading, fetches,
                       up, news, breaks>>
    BY DEF Opened, serverVars
  <1>2. f \in [Slots -> States]
    BY DEF Inv, TypeInv, States
  <1>3. TypeInv'
    BY <1>1, <1>2 DEF Inv, TypeInv, Shown
  <1>4. \A r \in Slots : f[r] = "none" <=> socket[v][r] = "none"
    BY <1>1 DEF Inv, TypeInv
  <1>5. InUse(f) = InUse(socket[v])
    BY <1>4, SameSockets
  <1>6. ChainInv'
    <2>1. socket'[v] = f /\ \A u \in Visits \ {v} : socket'[u] = socket[u]
      BY <1>1 DEF Inv, TypeInv
    <2>2. v <= visit
      BY <1>1, Begun
    <2>3. /\ Cardinality(InUse(socket[v])) + timers[v] <= Effects
          /\ Shown(v) => Cardinality(InUse(socket[v])) + timers[v] >= 1
      BY DEF Inv, ChainInv
    <2>4. QED
      BY <1>1, <1>5, <2>1, <2>2, <2>3, OneVisit
  <1>7. CurrentInv'
    <2>1. \A u \in Visits : \A r \in Slots : socket'[u][r] = "none" <=> socket[u][r] = "none"
      BY <1>1, <1>4 DEF Inv, TypeInv
    <2>2. \A u \in Visits : ws[u] # None => ws[u] \in Slots
      BY SlotsAre, Counts, SMT DEF Inv, None
    <2>3. QED
      BY <1>1, <2>1, <2>2 DEF Inv, CurrentInv
  <1>8. QED
    BY <1>3, <1>6, <1>7 DEF Inv

LEMMA ClosedStep == ASSUME Inv, NEW v \in Visits, NEW s \in Slots, Closed(v, s) PROVE Inv'
  <1> DEFINE f == [socket[v] EXCEPT ![s] = "none"]
  <1>1. /\ socket[v][s] # "none"
        /\ socket' = [socket EXCEPT ![v] = f]
        /\ ws' = [ws EXCEPT ![v] = IF ws[v] = s THEN None ELSE ws[v]]
        /\ timers' = [timers EXCEPT ![v] = timers[v] + 1]
        /\ connected' = (connected /\ ~Shown(v))
        /\ UNCHANGED <<strict, visit, mounted, heard, fetched, loading, fetches, up, news>>
    BY DEF Closed, Scheduled, Disconnected
  <1>2. breaks' \in Nat
    BY SMT DEF Closed, Inv, TypeInv
  <1>3. f \in [Slots -> States] /\ timers[v] + 1 \in Nat
    BY Counts, SMT DEF Inv, States
  <1>4. ws' \in [Visits -> 0..3]
    <2>1. None \in 0..3
      BY SMT DEF None
    <2>2. QED
      BY <1>1, <2>1 DEF Inv, TypeInv
  <1>5. TypeInv'
    BY <1>1, <1>2, <1>3, <1>4 DEF Inv, TypeInv
  <1>6. Cardinality(InUse(f)) = Cardinality(InUse(socket[v])) - 1
    BY <1>1, Counts, SocketRemoved DEF Inv
  <1>7. ChainInv'
    <2>1. /\ socket'[v] = f /\ timers'[v] = timers[v] + 1
          /\ \A u \in Visits \ {v} : socket'[u] = socket[u] /\ timers'[u] = timers[u]
      BY <1>1 DEF Inv, TypeInv
    <2>2. v <= visit
      BY <1>1, Begun
    <2>3. /\ Cardinality(InUse(socket[v])) + timers[v] <= Effects
          /\ Shown(v) => Cardinality(InUse(socket[v])) + timers[v] >= 1
      BY DEF Inv, ChainInv
    <2>4. Cardinality(InUse(f)) + timers'[v] = Cardinality(InUse(socket[v])) + timers[v]
      BY <1>6, <2>1, Counts, SMT DEF Inv
    <2>5. QED
      BY <1>1, <2>1, <2>2, <2>3, <2>4, OneVisit
  <1>8. CurrentInv'
    <2>1. SUFFICES ASSUME NEW u \in Visits, ws'[u] # None PROVE socket'[u][ws'[u]] # "none"
      BY DEF CurrentInv
    <2>2. ws'[u] = ws[u] /\ (u = v => ws[u] # s)
      BY <1>1, <2>1 DEF Inv, TypeInv
    <2>3. ws[u] \in Slots /\ socket[u][ws[u]] # "none"
      BY <2>1, <2>2, SlotsAre, Counts, SMT DEF Inv, CurrentInv, None
    <2>4. QED
      BY <1>1, <2>2, <2>3 DEF Inv, TypeInv
  <1>9. QED
    BY <1>5, <1>7, <1>8 DEF Inv

\* A timer fires: its chain goes on with a new socket, or ends where another is open.
LEMMA ReconnectStep == ASSUME Inv, NEW v \in Visits, Reconnect(v) PROVE Inv'
  <1>1. /\ timers[v] > 0
        /\ timers' = [timers EXCEPT ![v] = timers[v] - 1]
        /\ UNCHANGED <<strict, visit, mounted, connected, heard, fetched, loading, fetches,
                       up, news, breaks>>
    BY DEF Reconnect, pageVars, serverVars
  <1>2. timers[v] - 1 \in Nat
    BY <1>1, Counts, SMT DEF Inv
  <1>3. v <= visit
    BY <1>1, Begun
  <1>4. /\ Cardinality(InUse(socket[v])) + timers[v] <= Effects
        /\ Shown(v) => Cardinality(InUse(socket[v])) + timers[v] >= 1
    BY DEF Inv, ChainInv
  <1>5. /\ timers'[v] = timers[v] - 1 /\ timers' \in [Visits -> Nat]
        /\ \A u \in Visits \ {v} : timers'[u] = timers[u]
    BY <1>1, <1>2 DEF Inv, TypeInv
  <1>6. CASE ws[v] # None /\ socket[v][ws[v]] = "open" /\ UNCHANGED <<socket, ws>>
    <2>1. TypeInv'
      BY <1>1, <1>5, <1>6 DEF Inv, TypeInv
    <2>2. Cardinality(InUse(socket[v])) >= 1
      <3>1. ws[v] \in InUse(socket[v])
        <4>1. ws[v] \in Slots
          BY <1>6, SlotsAre, Counts, SMT DEF Inv, None
        <4>2. QED
          BY <1>6, <4>1 DEF InUse
      <3>2. InUse(socket[v]) # {}
        BY <3>1
      <3>3. Cardinality(InUse(socket[v])) # 0
        BY <3>2, InUseFinite, FS_EmptySet
      <3>4. QED
        BY <3>3, Counts, SMT DEF Inv
    <2>3. /\ Cardinality(InUse(socket[v])) + timers'[v] <= Effects
          /\ Cardinality(InUse(socket[v])) + timers'[v] >= 1
      BY <1>2, <1>4, <1>5, <2>2, Counts, EffectsAre, SMT DEF Inv
    <2>4. ChainInv'
      BY <1>1, <1>3, <1>5, <1>6, <2>3, OneVisit
    <2>5. QED
      BY <1>6, <2>1, <2>4 DEF Inv, CurrentInv
  <1>7. CASE /\ socket' = [socket EXCEPT ![v][Fresh(v)] = "connecting"]
             /\ ws' = [ws EXCEPT ![v] = Fresh(v)]
    <2> DEFINE f == [socket[v] EXCEPT ![Fresh(v)] = "connecting"]
    <2>1. Fresh(v) \in Slots /\ socket[v][Fresh(v)] = "none"
      <3>1. Cardinality(InUse(socket[v])) <= 2
        BY <1>1, <1>4, Counts, EffectsAre, SMT DEF Inv
      <3>2. QED
        BY <3>1, FreshSlot
    <2>2. /\ socket' = [socket EXCEPT ![v] = f] /\ f \in [Slots -> States]
          /\ "connecting" \in States
      BY <1>7 DEF Inv, TypeInv, States
    <2>3. Fresh(v) \in 0..3
      BY <2>1, SlotsAre, SMT
    <2>4. TypeInv'
      BY <1>1, <1>5, <1>7, <2>2, <2>3 DEF Inv, TypeInv
    <2>5. Cardinality(InUse(f)) = Cardinality(InUse(socket[v])) + 1
      BY <2>1, <2>2, Counts, SocketAdded DEF Inv
    <2>6. socket'[v] = f /\ \A u \in Visits \ {v} : socket'[u] = socket[u]
      BY <2>2 DEF Inv, TypeInv
    <2>7. Cardinality(InUse(f)) + timers'[v] = Cardinality(InUse(socket[v])) + timers[v]
      BY <1>5, <2>5, Counts, SMT DEF Inv
    <2>8. ChainInv'
      BY <1>1, <1>3, <1>4, <1>5, <2>6, <2>7, OneVisit
    <2>9. CurrentInv'
      <3>1. SUFFICES ASSUME NEW u \in Visits, ws'[u] # None PROVE socket'[u][ws'[u]] # "none"
        BY DEF CurrentInv
      <3>2. CASE u = v
        BY <1>7, <2>1, <2>6, <3>2 DEF Inv, TypeInv
      <3>3. CASE u # v
        <4>1. ws'[u] = ws[u] /\ socket'[u] = socket[u]
          BY <1>7, <2>6, <3>3 DEF Inv, TypeInv
        <4>2. QED
          BY <3>1, <4>1 DEF Inv, CurrentInv
      <3>4. QED
        BY <3>2, <3>3
    <2>10. QED
      BY <2>4, <2>8, <2>9 DEF Inv
  <1>8. QED
    BY <1>6, <1>7 DEF Reconnect, Connect

\* The messages and fetches of the page and the steps of the server touch no socket.
LEMMA OtherSteps ==
    ASSUME Inv, FetchSettles \/ Change \/ GoDown \/ ComeUp
                \/ \E v \in Visits, s \in Slots : Message(v, s)
    PROVE  Inv'
  <1>1. UNCHANGED <<strict, visit, mounted, socket, ws, timers, connected>>
    BY DEF FetchSettles, Change, GoDown, ComeUp, Message, socketVars, pageVars
  <1>2. /\ loading' \in BOOLEAN /\ up' \in BOOLEAN /\ news' \in Dashboards
        /\ heard' \in Dashboards \cup {"unknown"} /\ fetched' \in Dashboards \cup {"unknown"}
    BY DEF FetchSettles, Change, GoDown, ComeUp, Message, pageVars, serverVars, Inv, TypeInv
  <1>3. fetches' \in Nat /\ breaks' \in Nat
    BY SMT DEF FetchSettles, Change, GoDown, ComeUp, Message, pageVars, serverVars, Inv,
       TypeInv
  <1>4. TypeInv'
    BY <1>1, <1>2, <1>3 DEF Inv, TypeInv
  <1>5. ChainInv' /\ CurrentInv'
    BY <1>1 DEF Inv, ChainInv, CurrentInv, InUse, Shown, Effects, InitStates
  <1>6. QED
    BY <1>4, <1>5 DEF Inv

LEMMA NextInv == Inv /\ [Next]_vars => Inv'
  <1> SUFFICES ASSUME Inv, [Next]_vars PROVE Inv'
    OBVIOUS
  <1>1. CASE Mount \/ Unmount
    BY <1>1, MountStep, UnmountStep
  <1>2. ASSUME NEW v \in Visits, NEW s \in Slots, Opened(v, s) \/ Closed(v, s) PROVE Inv'
    BY <1>2, OpenedStep, ClosedStep
  <1>3. ASSUME NEW v \in Visits, Reconnect(v) PROVE Inv'
    BY <1>3, ReconnectStep
  <1>4. CASE FetchSettles \/ Change \/ GoDown \/ ComeUp
             \/ \E v \in Visits, s \in Slots : Message(v, s)
    BY <1>4, OtherSteps
  <1>5. CASE UNCHANGED vars
    BY <1>5 DEF vars, socketVars, pageVars, serverVars, Inv, TypeInv, ChainInv, CurrentInv,
                InUse, Shown, Effects, InitStates
  <1>6. QED
    BY <1>1, <1>2, <1>3, <1>4, <1>5 DEF Next

\* However sockets fail and whenever the page is left, a visit has at most one chain of
\* sockets and timers for each run of its effect, and the visit that is shown has one.
THEOREM ChainsCorrect == Spec => []ChainsBounded
  <1>1. Inv => ChainsBounded
    BY DEF Inv, ChainInv, ChainsBounded, Chains, SocketsOf, InUse
  <1>2. QED
    BY <1>1, InitInv, NextInv, PTL DEF Spec

-----------------------------------------------------------------------------
(* What the page says of its connection.                                   *)

\* The flag is set while a socket of the shown visit is open, which in a production build
\* is its only one.
ConnectedInv ==
    mounted =>
        /\ connected => \E s \in Slots : socket[visit][s] = "open"
        /\ ~strict => \A s \in Slots : socket[visit][s] = "open" => connected

\* A build does not change while it runs.
LEMMA SameBuild == [Next]_vars => strict' = strict
  <1> SUFFICES ASSUME [Next]_vars PROVE strict' = strict
    OBVIOUS
  <1>1. CASE Mount \/ Unmount \/ FetchSettles \/ Change \/ GoDown \/ ComeUp
    BY <1>1 DEF Mount, Unmount, FetchSettles, Change, GoDown, ComeUp
  <1>2. CASE \E v \in Visits, s \in Slots : Opened(v, s) \/ Closed(v, s) \/ Message(v, s)
    BY <1>2 DEF Opened, Closed, Message
  <1>3. CASE \E v \in Visits : Reconnect(v)
    BY <1>3 DEF Reconnect
  <1>4. CASE UNCHANGED vars
    BY <1>4 DEF vars
  <1>5. QED
    BY <1>1, <1>2, <1>3, <1>4 DEF Next

LEMMA InitConnectedInv == Init => ConnectedInv
  BY DEF Init, ConnectedInv

\* Another socket of a visit with one effect is the same socket.
LEMMA OnlySocket ==
    ASSUME Inv, ~strict, NEW v \in Visits, NEW s \in Slots, NEW r \in Slots,
           socket[v][s] # "none", socket[v][r] # "none"
    PROVE  r = s
  <1>1. Cardinality(InUse(socket[v])) <= 1
    BY Counts, EffectsAre, SMT DEF Inv, ChainInv
  <1>2. Cardinality(InUse(socket[v])) # 0
    <2>1. InUse(socket[v]) # {}
      BY DEF InUse
    <2>2. QED
      BY <2>1, InUseFinite, FS_EmptySet
  <1>3. Cardinality(InUse(socket[v])) = 1
    BY <1>1, <1>2, Counts, SMT DEF Inv
  <1>4. PICK x : InUse(socket[v]) = {x}
    BY <1>3, InUseFinite, FS_Singleton
  <1>5. QED
    BY <1>4 DEF InUse

LEMMA NextConnectedInv == Inv /\ ConnectedInv /\ [Next]_vars => ConnectedInv'
  <1> SUFFICES ASSUME Inv, ConnectedInv, [Next]_vars, mounted'
               PROVE  /\ connected' => \E s \in Slots : socket'[visit'][s] = "open"
                      /\ ~strict => \A s \in Slots : socket'[visit'][s] = "open" => connected'
    BY SameBuild DEF ConnectedInv
  <1>1. CASE Mount
    <2>1. visit' \in Visits /\ connected' = FALSE
      BY <1>1 DEF Mount, Forget
    <2>2. \A s \in Slots : socket'[visit'][s] # "open"
      BY <1>1, <2>1 DEF Mount, Inv, TypeInv
    <2>3. QED
      BY <2>1, <2>2
  <1>2. CASE Unmount
    BY <1>2 DEF Unmount
  <1>3. ASSUME NEW v \in Visits, NEW s \in Slots, Opened(v, s)
        PROVE  /\ connected' => \E r \in Slots : socket'[visit'][r] = "open"
               /\ ~strict => \A r \in Slots : socket'[visit'][r] = "open" => connected'
    <2>1. /\ visit' = visit /\ mounted /\ visit \in Visits
          /\ socket' = [socket EXCEPT ![v][s] = "open"]
          /\ connected' = (connected \/ v = visit)
      BY <1>3 DEF Opened, Shown, Inv, TypeInv
    <2>2. CASE v = visit
      <3>1. socket'[visit][s] = "open"
        BY <2>1, <2>2 DEF Inv, TypeInv
      <3>2. QED
        BY <2>1, <2>2, <3>1
    <2>3. CASE v # visit
      <3>1. socket'[visit] = socket[visit]
        BY <2>1, <2>3 DEF Inv, TypeInv
      <3>2. QED
        BY <2>1, <2>3, <3>1 DEF ConnectedInv
    <2>4. QED
      BY <2>2, <2>3
  <1>4. ASSUME NEW v \in Visits, NEW s \in Slots, Closed(v, s)
        PROVE  /\ connected' => \E r \in Slots : socket'[visit'][r] = "open"
               /\ ~strict => \A r \in Slots : socket'[visit'][r] = "open" => connected'
    <2>1. /\ visit' = visit /\ mounted /\ visit \in Visits /\ socket[v][s] # "none"
          /\ socket' = [socket EXCEPT ![v][s] = "none"]
          /\ connected' = (connected /\ v # visit)
      BY <1>4 DEF Closed, Disconnected, Shown, Inv, TypeInv
    <2>2. CASE v = visit
      <3>1. \A r \in Slots \ {s} : socket'[visit][r] = socket[visit][r]
        BY <2>1, <2>2 DEF Inv, TypeInv
      <3>2. socket'[visit][s] = "none"
        BY <2>1, <2>2 DEF Inv, TypeInv
      <3>3. ~strict => \A r \in Slots : socket'[visit][r] # "open"
        BY <2>1, <2>2, <3>1, <3>2, OnlySocket
      <3>4. QED
        BY <2>1, <2>2, <3>3
    <2>3. CASE v # visit
      <3>1. socket'[visit] = socket[visit]
        BY <2>1, <2>3 DEF Inv, TypeInv
      <3>2. QED
        BY <2>1, <2>3, <3>1 DEF ConnectedInv
    <2>4. QED
      BY <2>2, <2>3
  <1>5. ASSUME NEW v \in Visits, Reconnect(v)
        PROVE  /\ connected' => \E r \in Slots : socket'[visit'][r] = "open"
               /\ ~strict => \A r \in Slots : socket'[visit'][r] = "open" => connected'
    <2>1. visit' = visit /\ mounted /\ connected' = connected /\ visit \in Visits
      BY <1>5 DEF Reconnect, pageVars, Inv, TypeInv
    <2>2. \A r \in Slots : socket'[visit][r] = "open" <=> socket[visit][r] = "open"
      <3>1. CASE socket' = socket
        BY <3>1
      <3>2. CASE socket' = [socket EXCEPT ![v][Fresh(v)] = "connecting"]
        <4>1. Cardinality(InUse(socket[v])) <= 2
          BY Counts, EffectsAre, SMT DEF Inv, ChainInv
        <4>2. Fresh(v) \in Slots /\ socket[v][Fresh(v)] = "none"
          BY <4>1, FreshSlot
        <4>3. QED
          BY <2>1, <3>2, <4>2 DEF Inv, TypeInv
      <3>3. QED
        BY <1>5, <3>1, <3>2 DEF Reconnect, Connect
    <2>3. QED
      BY <2>1, <2>2 DEF ConnectedInv
  <1>6. CASE FetchSettles \/ Change \/ GoDown \/ ComeUp
             \/ \E v \in Visits, s \in Slots : Message(v, s)
    <2>1. UNCHANGED <<visit, mounted, socket, connected>>
      BY <1>6 DEF FetchSettles, Change, GoDown, ComeUp, Message, socketVars, pageVars
    <2>2. QED
      BY <2>1 DEF ConnectedInv
  <1>7. CASE UNCHANGED vars
    BY <1>7 DEF vars, socketVars, pageVars, ConnectedInv
  <1>8. QED
    BY <1>1, <1>2, <1>3, <1>4, <1>5, <1>6, <1>7 DEF Next

\* The page says it is connected only while a socket of the shown visit is open, and
\* always does in a production build.
THEOREM ConnectedCorrect == Spec => []ConnectedMeansOpen
  <1>1. ConnectedInv => ConnectedMeansOpen
    BY DEF ConnectedInv, ConnectedMeansOpen
  <1>2. QED
    BY <1>1, InitInv, NextInv, InitConnectedInv, NextConnectedInv, PTL DEF Spec

-----------------------------------------------------------------------------
(* What the page says of the incidents.                                    *)

\* A page that is not loading has had an answer, or something broke.
FetchInv ==
    /\ ~up => breaks > 0
    /\ mounted =>
         /\ fetches <= Effects
         /\ ~loading => fetches < Effects
         /\ ~loading /\ fetched = "unknown" => breaks > 0

LEMMA InitFetchInv == Init => FetchInv
  BY DEF Init, FetchInv

LEMMA NextFetchInv == Inv /\ FetchInv /\ [Next]_vars => FetchInv'
  <1> SUFFICES ASSUME Inv, FetchInv, [Next]_vars PROVE FetchInv'
    OBVIOUS
  <1>1. Effects' = Effects /\ Effects \in {1, 2}
    BY EffectsAre, SameBuild DEF Effects
  <1>2. fetches \in Nat /\ breaks \in Nat
    BY DEF Inv, TypeInv
  <1>3. CASE Mount
    BY <1>1, <1>3, SMT DEF Mount, Forget, Loading, serverVars, FetchInv
  <1>4. CASE Unmount
    BY <1>4 DEF Unmount, serverVars, FetchInv
  <1>5. CASE FetchSettles
    <2>1. fetches' <= Effects /\ fetches' < Effects
      BY <1>1, <1>2, <1>5, SMT DEF FetchSettles, FetchInv
    <2>2. fetched' = "unknown" => breaks' > 0
      BY <1>2, <1>5, SMT DEF FetchSettles, FetchInv, Inv, TypeInv, Dashboards
    <2>3. ~up' => breaks' > 0
      BY <1>2, <1>5, SMT DEF FetchSettles, FetchInv
    <2>4. QED
      BY <1>1, <2>1, <2>2, <2>3 DEF FetchInv
  <1>6. CASE GoDown
    BY <1>1, <1>2, <1>6, SMT DEF GoDown, pageVars, FetchInv
  <1>7. CASE ComeUp
    BY <1>1, <1>7 DEF ComeUp, pageVars, FetchInv
  <1>8. ASSUME NEW v \in Visits, NEW s \in Slots, Closed(v, s) PROVE FetchInv'
    <2>1. UNCHANGED <<mounted, up, loading, fetched, fetches>>
      BY <1>8 DEF Closed
    <2>2. breaks > 0 => breaks' > 0
      BY <1>2, <1>8, SMT DEF Closed
    <2>3. QED
      BY <1>1, <2>1, <2>2 DEF FetchInv
  <1>9. CASE Change \/ UNCHANGED vars
             \/ \E v \in Visits : Reconnect(v)
                  \/ \E s \in Slots : Opened(v, s) \/ Message(v, s)
    <2>1. UNCHANGED <<mounted, up, loading, fetched, fetches, breaks>>
      BY <1>9 DEF Change, vars, Opened, Message, Reconnect, pageVars, serverVars
    <2>2. QED
      BY <1>1, <2>1 DEF FetchInv
  <1>10. QED
    BY <1>3, <1>4, <1>5, <1>6, <1>7, <1>8, <1>9 DEF Next

\* "All systems operational" is said on a state without incidents, or when a fetch has
\* failed and no socket ever told a state.
THEOREM AllClearCorrect == Spec => []AllClearKnown
  <1>1. Inv /\ FetchInv => AllClearKnown
    BY DEF Inv, TypeInv, FetchInv, AllClearKnown, SaysAllClear, SaysLoading, State, Dashboards
  <1>2. QED
    BY <1>1, InitInv, NextInv, InitFetchInv, NextFetchInv, PTL DEF Spec
=============================================================================
