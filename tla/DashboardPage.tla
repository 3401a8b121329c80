---------------------------- MODULE DashboardPage ----------------------------
(***************************************************************************)
(* The dashboard page of the frontend: Dashboard.tsx and its hook          *)
(* useDashboardWebSocket, which opens a socket when an effect runs, opens  *)
(* another three seconds after one closed, and shows what arrives.         *)
(*                                                                         *)
(* Each visit of the page mounts a component with refs of its own.  A      *)
(* development build runs effects twice in StrictMode.  Handlers of an     *)
(* unmounted visit still run, but set no state that is shown.              *)
(***************************************************************************)
EXTENDS Integers, FiniteSets

CONSTANTS
    MaxVisits,  \* bound: visits of the page
    MaxBreaks,  \* bound: stops of the server, lost connections and failed fetches
    MaxNews     \* bound: changes of the dashboard state

ASSUME BoundsAssumption ==
    MaxVisits \in Nat \ {0} /\ MaxBreaks \in Nat /\ MaxNews \in Nat

Visits == 1..MaxVisits
Slots  == 1..3   \* sockets of a visit, more than it ever has: see ChainsBounded
None   == 0

Dashboards == {"quiet", "incidents"}   \* without or with active incidents

VARIABLES
    strict,     \* is this a development build?
    visit,      \* the current or last visit
    mounted,
    socket,     \* readyState of the sockets of each visit; closed ones are forgotten
    ws,         \* wsRef.current of each visit, None if it is closed
    timers,     \* reconnect timers pending, per visit
    connected,  \* the state of the mounted visit ...
    heard,      \* ... what the socket sent last, or "unknown",
    fetched,    \* ... what the fetch returned, or "unknown",
    loading,
    fetches,    \* ... and fetches under way
    up, news,   \* the server: is it there, and its dashboard
    breaks, changes

socketVars == <<socket, ws, timers>>
pageVars   == <<connected, heard, fetched, loading, fetches>>
serverVars == <<up, news, breaks, changes>>
vars == <<strict, visit, mounted, socketVars, pageVars, serverVars>>

Init ==
    /\ strict \in BOOLEAN
    /\ visit = None
    /\ mounted = FALSE
    /\ socket = [v \in Visits |-> [s \in Slots |-> "none"]]
    /\ ws = [v \in Visits |-> None]
    /\ timers = [v \in Visits |-> 0]
    /\ connected = FALSE
    /\ heard = "unknown" /\ fetched = "unknown"
    /\ loading = TRUE
    /\ fetches = 0
    /\ up = TRUE
    /\ news \in Dashboards
    /\ breaks = 0 /\ changes = 0

-----------------------------------------------------------------------------
(* The hook.                                                               *)

Shown(v) == mounted /\ v = visit
SocketsOf(v) == {s \in Slots : socket[v][s] # "none"}
Effects == IF strict THEN 2 ELSE 1

Fresh(v) == CHOOSE s \in Slots : socket[v][s] = "none"

\* connect: a new socket, unless the current one is open.
Connect(v) ==
    IF ws[v] # None /\ socket[v][ws[v]] = "open" THEN UNCHANGED <<socket, ws>>
    ELSE /\ socket' = [socket EXCEPT ![v][Fresh(v)] = "connecting"]
         /\ ws' = [ws EXCEPT ![v] = Fresh(v)]

\* mutant: nothing is loading until the first answer
Loading_Not == FALSE
Loading == TRUE

\* The state of a component that was just created, or is gone.
Forget(n) ==
    /\ connected' = FALSE
    /\ heard' = "unknown" /\ fetched' = "unknown"
    /\ loading' = Loading
    /\ fetches' = n

\* The page is opened: both effects run; in StrictMode they run, are cleaned up and run
\* again, which leaves a first socket closing.
Mount ==
    LET v == visit + 1 IN
    /\ ~mounted
    /\ v \in Visits
    /\ mounted' = TRUE
    /\ visit' = v
    /\ socket' = [socket EXCEPT ![v] = [s \in Slots |->
           IF s < Effects THEN "closing" ELSE IF s = Effects THEN "connecting" ELSE "none"]]
    /\ ws' = [ws EXCEPT ![v] = Effects]
    /\ Forget(Effects)
    /\ UNCHANGED <<strict, timers, serverVars>>

\* The cleanup clears the timer set last and closes the current socket.  Its onclose is
\* yet to come.
Unmount ==
    /\ mounted
    /\ mounted' = FALSE
    /\ timers' = [timers EXCEPT ![visit] = IF @ = 0 THEN 0 ELSE @ - 1]
    /\ socket' = [socket EXCEPT ![visit] =
           [s \in Slots |-> IF s = ws[visit] THEN "closing" ELSE @[s]]]
    /\ Forget(0)
    /\ UNCHANGED <<strict, visit, ws, serverVars>>

\* onopen
Opened(v, s) ==
    /\ socket[v][s] = "connecting"
    /\ up
    /\ socket' = [socket EXCEPT ![v][s] = "open"]
    /\ connected' = (connected \/ Shown(v))
    /\ UNCHANGED <<strict, visit, mounted, ws, timers, heard, fetched, loading, fetches,
                   serverVars>>

\* mutants: onerror schedules as well as onclose; only a feed that was live reconnects
Scheduled_Twice(n)      == n + 2
Scheduled_WhenLive(n)   == IF connected THEN n + 1 ELSE n
Scheduled(n) == n + 1

\* mutant: onclose leaves the flag as it is
Disconnected_Never(v) == connected
Disconnected(v) == connected /\ ~Shown(v)

\* onclose, after onerror if the connection failed: of a socket that was closed, whose
\* server is gone, or whose connection is lost.
Closed(v, s) ==
    /\ socket[v][s] # "none"
    /\ \/ (socket[v][s] = "closing" \/ ~up) /\ UNCHANGED breaks
       \/ breaks < MaxBreaks /\ breaks' = breaks + 1
    /\ socket' = [socket EXCEPT ![v][s] = "none"]
    /\ ws' = [ws EXCEPT ![v] = IF @ = s THEN None ELSE @]
    /\ connected' = Disconnected(v)
    /\ timers' = [timers EXCEPT ![v] = Scheduled(@)]
    /\ UNCHANGED <<strict, visit, mounted, heard, fetched, loading, fetches,
                   up, news, changes>>

\* Three seconds after a close.
Reconnect(v) ==
    /\ timers[v] > 0
    /\ timers' = [timers EXCEPT ![v] = @ - 1]
    /\ Connect(v)
    /\ UNCHANGED <<strict, visit, mounted, pageVars, serverVars>>

\* onmessage: a first state or a broadcast.
Message(v, s) ==
    /\ socket[v][s] = "open"
    /\ up
    /\ Shown(v)
    /\ heard' = news
    /\ UNCHANGED <<strict, visit, mounted, socketVars, connected, fetched, loading,
                   fetches, serverVars>>

-----------------------------------------------------------------------------
(* The page.                                                               *)

\* getDashboard settles; nobody catches its failure.
FetchSettles ==
    /\ mounted
    /\ fetches > 0
    /\ fetches' = fetches - 1
    /\ loading' = FALSE
    /\ \/ up /\ fetched' = news /\ UNCHANGED breaks
       \/ ~up /\ UNCHANGED <<fetched, breaks>>
       \/ breaks < MaxBreaks /\ breaks' = breaks + 1 /\ UNCHANGED fetched
    /\ UNCHANGED <<strict, visit, mounted, socketVars, connected, heard, up, news,
                   changes>>

\* wsState ?? fallbackState
State == IF heard # "unknown" THEN heard ELSE fetched

SaysLoading == loading /\ State = "unknown"
\* "No active incidents.  All systems operational", with the filter at All Active.
SaysAllClear == ~SaysLoading /\ State # "incidents"

-----------------------------------------------------------------------------
(* The server.                                                             *)

Change ==
    /\ changes < MaxNews
    /\ changes' = changes + 1
    /\ news' \in Dashboards \ {news}
    /\ UNCHANGED <<strict, visit, mounted, socketVars, pageVars, up, breaks>>

GoDown ==
    /\ up /\ breaks < MaxBreaks
    /\ up' = FALSE
    /\ breaks' = breaks + 1
    /\ UNCHANGED <<strict, visit, mounted, socketVars, pageVars, news, changes>>

ComeUp ==
    /\ ~up
    /\ up' = TRUE
    /\ UNCHANGED <<strict, visit, mounted, socketVars, pageVars, news, breaks, changes>>

Next ==
    \/ Mount \/ Unmount \/ FetchSettles
    \/ \E v \in Visits, s \in Slots : Opened(v, s) \/ Closed(v, s) \/ Message(v, s)
    \/ \E v \in Visits : Reconnect(v)
    \/ Change \/ GoDown \/ ComeUp

Spec == Init /\ [][Next]_vars

\* Sockets settle, timers fire, the server broadcasts and is restarted when it is down.
FairSpec ==
    /\ Spec
    /\ WF_vars(ComeUp)
    /\ WF_vars(\E v \in Visits, s \in Slots : Opened(v, s) \/ Closed(v, s))
    /\ WF_vars(\E v \in Visits, s \in Slots : Message(v, s))
    /\ \A v \in Visits : WF_vars(Reconnect(v))

-----------------------------------------------------------------------------
(* Properties.                                                             *)

Chains(v) == Cardinality(SocketsOf(v)) + timers[v]

\* However sockets fail, a visit keeps one chain of socket, timer, socket, ... for each
\* run of its effect and no more; the page that is shown never runs out of them.
ChainsBounded ==
    \A v \in Visits : Chains(v) <= Effects /\ (Shown(v) => Chains(v) >= 1)

\* The page says it is connected only while one of its own sockets is open, and, in a
\* production build, whenever one is.
ConnectedMeansOpen ==
    mounted =>
        LET isOpen == \E s \in Slots : socket[visit][s] = "open" IN
        /\ connected => isOpen
        /\ isOpen /\ ~strict => connected

\* "All systems operational" is said on a state without incidents, or when a fetch has
\* failed and no socket ever told a state.
AllClearKnown ==
    mounted /\ SaysAllClear =>
        State = "quiet" \/ (State = "unknown" /\ fetches < Effects /\ breaks > 0)

\* "Dashboard updates in real time": a page left open shows what the server knows, after
\* any outage.
PageCatchesUp == []<>(mounted => State = news)
=============================================================================
