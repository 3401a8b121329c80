--------------------------- MODULE DashboardCache ---------------------------
(***************************************************************************)
(* The dashboard: DashboardService and its Redis key dashboard:state, the  *)
(* requests that read it, the metrics reporter that broadcasts it to the   *)
(* websocket clients, and the transactions that invalidate it.             *)
(*                                                                         *)
(* The database is the sequence of its commits; a query sees a prefix of   *)
(* it.  A dashboard state is known by the prefixes its two queries saw and *)
(* by the tick at which its signals_per_sec was sampled, 0 for the initial *)
(* value.  One tick is one interval of the reporter.                       *)
(***************************************************************************)
EXTENDS Integers, Sequences, FiniteSets

CONSTANTS
    Writers,     \* transactions on work_items ...
    Visible,     \* ... and those followed by invalidateDashboardCache
    Gets,        \* HTTP GETs of the dashboard
    Reporters,   \* runs of the metrics reporter that may overlap
    Clients,     \* websocket clients
    NoState,     \* a missing key
    Ttl,         \* CACHE_TTL_SECONDS, in ticks
    CallTime,    \* bound: ticks that a call of getDashboardState takes
    LastCommit,  \* bound: the tick after which nothing commits
    MaxTime,     \* bound: ticks
    MaxFaults    \* bound: calls that fail

Readers == Gets \cup Reporters \cup Clients

ASSUME SetsAssumption ==
    /\ IsFiniteSet(Writers) /\ Visible \subseteq Writers
    /\ Gets \cap Reporters = {} /\ Gets \cap Clients = {} /\ Reporters \cap Clients = {}
ASSUME BoundsAssumption ==
    /\ {Ttl, MaxTime} \subseteq Nat \ {0}
    /\ {CallTime, LastCommit, MaxFaults} \subseteq Nat

Queries == {"incidents", "counts"}
States == [Queries \cup {"rate"} -> Nat]
Blank == [f \in Queries \cup {"rate"} |-> 0]

\* What a client sees of the database.
Screen(state) == [q \in Queries |-> state[q]]

ASSUME NoStateAssumption == NoState \notin States \cup [Queries -> Nat]

VARIABLES
    commits,  \* Postgres: when each commit was made, in their order
    written,  \* "idle", "committed" or "done", per writer
    cache,    \* Redis  dashboard:state
    ttl,      \* ticks it has left
    pc,       \* the await a reader is at
    pending,  \* the queries it waits for
    draft,    \* the state it builds
    since,    \* when its call began
    clients,  \* the connected websockets
    shown,    \* the screen of each, or NoState
    rate,     \* signalsPerSec of the service in routes/dashboard.ts
    sampled,  \* the tick at which the reporter ran last
    now, faults,
    settled   \* history: commits whose invalidation no build overlapped

writeVars == <<commits, written>>
cacheVars == <<cache, ttl>>
readVars  == <<pc, pending, draft, since>>
feedVars  == <<clients, shown>>
rateVars  == <<rate, sampled>>
vars == <<writeVars, cacheVars, readVars, feedVars, rateVars, now, faults, settled>>

Init ==
    /\ commits = <<>>
    /\ written = [w \in Writers |-> "idle"]
    /\ cache = NoState
    /\ ttl = 0
    /\ pc = [r \in Readers |-> "idle"]
    /\ pending = [r \in Readers |-> {}]
    /\ draft = [r \in Readers |-> Blank]
    /\ since = [r \in Readers |-> 0]
    /\ clients = {}
    /\ shown = [c \in Clients |-> NoState]
    /\ rate = 0
    /\ sampled = 0
    /\ now = 1
    /\ faults = 0
    /\ settled = 0

-----------------------------------------------------------------------------
(* Writers: commit, then invalidate.                                       *)

\* createWorkItem, transitionStatus and submitRca are Visible;
\* recordSignalAndIncrement, which only counts, invalidates nothing.
Commit(w) ==
    /\ written[w] = "idle"
    /\ now <= LastCommit
    /\ commits' = Append(commits, now)
    /\ written' = [written EXCEPT ![w] = IF w \in Visible THEN "committed" ELSE "done"]
    /\ UNCHANGED <<cacheVars, readVars, feedVars, rateVars, now, faults, settled>>

Building == {r \in Readers : pc[r] = "build"}

\* mutant: the key is not deleted
Deleted_Kept(state) == state
Deleted(state) == NoState

\* DEL dashboard:state; a failure is swallowed.
Invalidate(w) ==
    /\ written[w] = "committed"
    /\ written' = [written EXCEPT ![w] = "done"]
    /\ \/ /\ cache' = Deleted(cache)
          /\ ttl' = IF cache' = NoState THEN 0 ELSE ttl
          /\ settled' = IF Building = {} THEN Len(commits) ELSE settled
          /\ UNCHANGED faults
       \/ /\ faults < MaxFaults
          /\ faults' = faults + 1
          /\ UNCHANGED <<cacheVars, settled>>
    /\ UNCHANGED <<commits, readVars, feedVars, rateVars, now>>

-----------------------------------------------------------------------------
(* Readers: getDashboardState, and what each does with its result.         *)

Goto(r, label) == pc' = [pc EXCEPT ![r] = label]

Ask(g) ==
    /\ pc[g] = "idle"
    /\ Goto(g, "get")
    /\ since' = [since EXCEPT ![g] = now]
    /\ UNCHANGED <<writeVars, cacheVars, pending, draft, feedVars, rateVars, now, faults,
                   settled>>

\* computeAndLogMetrics: GETDEL empties the counter and signalsPerSec is replaced.  A
\* reply that is lost takes the signals of this interval with it.  The query of the count
\* that is logged changes nothing: if it fails, so does this run (ReadFails).  The last
\* tick stands for all later ones.
Report(p) ==
    /\ pc[p] = "idle"
    /\ sampled < now \/ now = MaxTime
    /\ sampled' = now
    /\ \/ /\ Goto(p, "get")
          /\ since' = [since EXCEPT ![p] = now]
          /\ rate' = now
          /\ UNCHANGED faults
       \/ /\ faults < MaxFaults
          /\ faults' = faults + 1
          /\ UNCHANGED <<pc, since, rate>>
    /\ UNCHANGED <<writeVars, cacheVars, pending, draft, feedVars, now, settled>>

Connect(c) ==
    /\ pc[c] = "idle"
    /\ c \notin clients
    /\ clients' = clients \cup {c}
    /\ Goto(c, "get")
    /\ since' = [since EXCEPT ![c] = now]
    /\ UNCHANGED <<writeVars, cacheVars, pending, draft, shown, rateVars, now, faults,
                   settled>>

\* "close" or "error" of the socket.
Disconnect(c) ==
    /\ c \in clients
    /\ clients' = clients \ {c}
    /\ shown' = [shown EXCEPT ![c] = NoState]
    /\ UNCHANGED <<writeVars, cacheVars, readVars, rateVars, now, faults, settled>>

\* mutants: a socket that was closed is written; nothing is broadcast
Receivers_Closed(r)    == {c \in Clients : r = c}
Receivers_FirstOnly(r) == {c \in clients : r = c}
\* A broadcast goes to every open socket, a first state to the one that connected.
Receivers(r) == {c \in clients : r \in Reporters \cup {c}}

Deliver(r, state) ==
    /\ Goto(r, "idle")
    /\ since' = [since EXCEPT ![r] = 0]
    /\ shown' = [c \in Clients |-> IF c \in Receivers(r) THEN Screen(state) ELSE shown[c]]

\* The websocket route has a service of its own, whose rate nothing ever sets.
RateOf(r) == IF r \in Clients THEN 0 ELSE rate

GetState(r) ==
    /\ pc[r] = "get"
    /\ \/ /\ cache # NoState
          /\ Deliver(r, cache)
          /\ UNCHANGED <<pending, draft>>
       \/ /\ cache = NoState
          /\ Goto(r, "build")
          /\ pending' = [pending EXCEPT ![r] = Queries]
          /\ UNCHANGED <<draft, since, shown>>
    /\ UNCHANGED <<writeVars, cacheVars, clients, rateVars, now, faults, settled>>

\* The two queries of Promise.all run on connections of their own, in any order.
RunQuery(r, q) ==
    /\ pc[r] = "build"
    /\ q \in pending[r]
    /\ pending' = [pending EXCEPT ![r] = @ \ {q}]
    /\ draft' = [draft EXCEPT ![r][q] = Len(commits)]
    /\ UNCHANGED <<writeVars, cacheVars, pc, since, feedVars, rateVars, now, faults,
                   settled>>

\* mutant: SET without EX
Expiry_None == MaxTime + 1
Expiry == Ttl

\* Both queries have answered: the rate is put in, and the state is SET with its TTL.
StoreState(r) ==
    LET state == [draft[r] EXCEPT !.rate = RateOf(r)] IN
    /\ pc[r] = "build"
    /\ pending[r] = {}
    /\ cache' = state
    /\ ttl' = Expiry
    /\ Deliver(r, state)
    /\ draft' = [draft EXCEPT ![r] = Blank]
    /\ UNCHANGED <<writeVars, pending, clients, rateVars, now, faults, settled>>

\* A call of getDashboardState rejects: an error answer, a skipped broadcast or a
\* connection without its first state.
ReadFails(r) ==
    /\ pc[r] # "idle"
    /\ faults < MaxFaults
    /\ faults' = faults + 1
    /\ Goto(r, "idle")
    /\ pending' = [pending EXCEPT ![r] = {}]
    /\ draft' = [draft EXCEPT ![r] = Blank]
    /\ since' = [since EXCEPT ![r] = 0]
    /\ UNCHANGED <<writeVars, cacheVars, feedVars, rateVars, now, settled>>

-----------------------------------------------------------------------------
\* Time passes for the key and for the calls; the interval fires in every tick.
Tick ==
    /\ now < MaxTime
    /\ \A r \in Readers : pc[r] # "idle" => now - since[r] < CallTime
    /\ sampled = now
    /\ now' = now + 1
    /\ ttl' = IF cache = NoState THEN 0 ELSE ttl - 1
    /\ cache' = IF ttl' = 0 THEN NoState ELSE cache
    /\ UNCHANGED <<writeVars, readVars, feedVars, rateVars, faults, settled>>

ReaderStep(r) ==
    \/ GetState(r) \/ StoreState(r)
    \/ \E q \in Queries : RunQuery(r, q)

Next ==
    \/ \E w \in Writers : Commit(w) \/ Invalidate(w)
    \/ \E g \in Gets : Ask(g)
    \/ \E p \in Reporters : Report(p)
    \/ \E c \in Clients : Connect(c) \/ Disconnect(c)
    \/ \E r \in Readers : ReaderStep(r) \/ ReadFails(r)
    \/ Tick

Spec == Init /\ [][Next]_vars

\* Time passes, setInterval fires for ever, and a call that was made is answered.
FairSpec ==
    /\ Spec
    /\ WF_vars(Tick)
    /\ \A p \in Reporters : WF_vars(Report(p))
    /\ \A r \in Readers : WF_vars(ReaderStep(r))

-----------------------------------------------------------------------------
(* Properties.                                                             *)

\* Type invariant; only open sockets are ever written.
TypeOK ==
    /\ commits \in Seq(1..MaxTime)
    /\ written \in [Writers -> {"idle", "committed", "done"}]
    /\ cache \in States \cup {NoState}
    /\ ttl \in Nat
    /\ pc \in [Readers -> {"idle", "get", "build"}]
    /\ pending \in [Readers -> SUBSET Queries]
    /\ draft \in [Readers -> States]
    /\ since \in [Readers -> 0..MaxTime]
    /\ clients \subseteq Clients
    /\ shown \in [Clients -> [Queries -> Nat] \cup {NoState}]
    /\ \A c \in Clients \ clients : shown[c] = NoState
    /\ sampled \in 0..now /\ rate \in 0..sampled
    /\ now \in 1..MaxTime
    /\ faults \in 0..MaxFaults
    /\ settled \in 0..Len(commits)

\* Both queries of a state saw the first n commits.
Shows(state, n) == \A q \in Queries : state[q] >= n

\* The state misses no commit as old as the TTL and the longest call.
Fresh(state) ==
    \A n \in 1..Len(commits) : commits[n] + Ttl + CallTime <= now => Shows(state, n)

\* A reader may store a state it read before an invalidation, or a DEL may fail;
\* still no stale state is served for longer than that.  Its rate is the 0 of a service
\* that never sampled, or was sampled in the last TTL, but for the ticks whose GETDEL was
\* lost.
StalenessBounded ==
    cache # NoState =>
        /\ Fresh(cache)
        /\ cache.rate # 0 => now - cache.rate <= Ttl + faults

\* "Invalidate AFTER commit": unless a build overlapped the invalidation, every
\* later reader sees the commit.
SettledWritesShow == cache # NoState => Shows(cache, settled)

\* What an open socket was sent last, which stays on the screen: whichever of a broadcast
\* and the first state of its connection overtakes the other, it misses no commit that is
\* older than the TTL, the call that read it and the call and the tick until the next
\* broadcast, but for the ticks whose broadcast failed.
ShownStatesFresh ==
    \A c \in clients, n \in 1..Len(commits) :
        /\ shown[c] # NoState
        /\ commits[n] + Ttl + 2 * CallTime + 1 + faults <= now
        => Shows(shown[c], n)

\* A connected client is shown a state even if its first one could not be read:
\* the next broadcast reaches it.
EveryClientShown ==
    \A c \in Clients : pc[c] = "get" ~> shown[c] # NoState \/ c \notin clients
=============================================================================
