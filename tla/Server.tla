------------------------------- MODULE Server -------------------------------
(***************************************************************************)
(* The backend process of index.ts: bootstrap, the metrics reporter, and   *)
(* shutdown, which runs once for each signal the process gets.  It         *)
(* composes with SignalIngestion, whose handlers and jobs need the process *)
(* and are what a shutdown has to wait for.                                *)
(* A service is "null" (its module variable is), "open" or "closing".      *)
(***************************************************************************)
EXTENDS SignalIngestion, Sequences

CONSTANTS
    Stops,    \* signals: SIGTERM, SIGINT
    MaxEnds   \* bound: processes that are killed or told to stop

ASSUME StopsAssumption == IsFiniteSet(Stops) /\ MaxEnds \in Nat

VARIABLES
    phase,     \* "down", "postgres", "mongo", "routes", "listen" (what bootstrap awaits), "up"
    service,   \* the state of each service
    stop,      \* the close a run of shutdown awaits, or "none"
    reporter,  \* the await the metrics reporter is at
    exit,      \* how the process ended last: "none", "0", "1" or "killed"
    ends

serverVars == <<phase, service, stop, reporter, exit, ends>>
vars == <<ingestVars, serverVars>>

\* mutant: the handlers of the queue lose their pool
Order_StoresFirst == <<"http", "postgres", "queues", "mongo", "redis">>
\* The order shutdown closes in.
Order == <<"http", "queues", "postgres", "mongo", "redis">>
Services == {"http", "queues", "postgres", "mongo", "redis"}

Init ==
    /\ InitIngestion
    /\ phase = "down"
    /\ service = [x \in Services |-> "null"]
    /\ stop = [s \in Stops |-> "none"]
    /\ reporter = "idle"
    /\ exit = "none"
    /\ ends = 0

-----------------------------------------------------------------------------
(* bootstrap                                                               *)

Bootstrap ==
    /\ phase = "down"
    /\ phase' = "postgres"
    /\ exit' = "none"
    /\ service' = [service EXCEPT !["postgres"] = "open"]
    /\ UNCHANGED <<ingestVars, stop, reporter, ends>>

InitPostgres ==
    /\ phase = "postgres"
    /\ phase' = "mongo"
    /\ service' = [service EXCEPT !["mongo"] = "open"]
    /\ UNCHANGED <<ingestVars, stop, reporter, exit, ends>>

\* The client of Redis connects on its own.
InitMongo ==
    /\ phase = "mongo"
    /\ phase' = "routes"
    /\ service' = [service EXCEPT !["redis"] = "open"]
    /\ UNCHANGED <<ingestVars, stop, reporter, exit, ends>>

\* mutant: the worker is not started
RegisterRoutes_NoWorker ==
    /\ phase = "routes"
    /\ phase' = "listen"
    /\ service' = [service EXCEPT !["http"] = "open"]
    /\ UNCHANGED <<ingestVars, stop, reporter, exit, ends>>
\* With the routes come the worker, the interval of the reporter and the handlers of the
\* signals: all of them are there before the port is.
RegisterRoutes ==
    /\ phase = "routes"
    /\ phase' = "listen"
    /\ service' = [service EXCEPT !["http"] = "open", !["queues"] = "open"]
    /\ UNCHANGED <<ingestVars, stop, reporter, exit, ends>>

Listen ==
    /\ phase = "listen"
    /\ phase' = "up"
    /\ UNCHANGED <<ingestVars, service, stop, reporter, exit, ends>>

Running == phase \in {"listen", "up"}
Stopping == {s \in Stops : stop[s] # "none"}
Listening == phase = "up" /\ Stopping = {}

\* The end of the process, and with it of all that was in its memory.
Exit(code) ==
    /\ phase' = "down"
    /\ exit' = code
    /\ service' = [x \in Services |-> "null"]
    /\ stop' = [s \in Stops |-> "none"]
    /\ reporter' = "idle"
    /\ ends' = IF Stopping # {} \/ code = "killed" THEN ends + 1 ELSE ends
    /\ Abandon

\* bootstrap().catch: process.exit(1).
BootstrapFails ==
    /\ phase \in {"postgres", "mongo", "routes"}
    /\ faults < MaxFaults
    /\ faults' = faults + 1
    /\ Exit("1")

\* The same catch when the port is taken: by now the worker has jobs.
ListenFails ==
    /\ phase = "listen"
    /\ faults < MaxFaults
    /\ faults' = faults + 1
    /\ Exit("1")

Kill ==
    /\ phase # "down"
    /\ ends < MaxEnds
    /\ Exit("killed")
    /\ UNCHANGED faults

-----------------------------------------------------------------------------
(* The metrics reporter: one label per store it awaits.                    *)

\* getPool and getRedisClient open what is null; a service that is closing rejects,
\* and the catch of the reporter ends its run.
ReporterCalls(x, label) ==
    /\ service' = [service EXCEPT ![x] = IF @ = "null" THEN "open" ELSE @]
    /\ reporter' = IF service[x] = "closing" THEN "idle" ELSE label

\* clearInterval is the first thing a shutdown does.
Fire ==
    /\ Running /\ Stopping = {}
    /\ reporter = "idle"
    /\ ReporterCalls("redis", "metrics")
    /\ UNCHANGED <<ingestVars, phase, stop, exit, ends>>

\* getDashboardState writes with the client it read with, and opens no other.
Fill ==
    /\ reporter' = IF service["redis"] = "open" THEN "fill" ELSE "idle"
    /\ UNCHANGED service

\* The counter, the count of items, and the dashboard: from the cache, or built.
Report ==
    /\ \/ reporter = "metrics" /\ ReporterCalls("postgres", "count")
       \/ reporter = "count" /\ ReporterCalls("redis", "state")
       \/ reporter = "state" /\ reporter' = "idle" /\ UNCHANGED service
       \/ reporter = "state" /\ ReporterCalls("postgres", "build")
       \/ reporter = "build" /\ Fill
       \/ reporter = "fill" /\ reporter' = "idle" /\ UNCHANGED service
    /\ UNCHANGED <<ingestVars, phase, stop, exit, ends>>

\* mutant: nobody catches it
ReporterRejects_Uncaught == Exit("1")
ReporterRejects ==
    /\ reporter' = "idle"
    /\ UNCHANGED <<payload, requestVars, taken, job, phase, service, stop, exit, ends>>

ReportFails ==
    /\ reporter # "idle"
    /\ faults < MaxFaults
    /\ faults' = faults + 1
    /\ ReporterRejects

-----------------------------------------------------------------------------
(* shutdown                                                                *)

\* mutants: the worker is closed by force; the queue has to be empty
Drained_Forced(x) == x = "http" => Handled = {}
Drained_Empty(x) == x = "queues" => \A id \in Ids : job[id] = "none" \/ Ended(id)
\* What the close of a service waits for.
Drained(x) ==
    /\ x = "http" => Handled = {}
    /\ x = "queues" => Active = {}
    /\ x = "postgres" => reporter \notin {"count", "build"}

Position(x) == CHOOSE i \in 1..Len(Order) : Order[i] = x

\* pool.end and quit reject the second time; the other closes join the first.
RejectsTwice(x) == x \in {"postgres", "redis"}

\* Run s goes on to the first service after position n that is not null.  A rejection
\* is nobody's to handle and ends the process.
CloseNext(s, n, now) ==
    \/ /\ \A i \in (n + 1)..Len(Order) : now[Order[i]] = "null"
       /\ Exit("0")
       /\ UNCHANGED faults
    \/ \E i \in (n + 1)..Len(Order) :
           /\ now[Order[i]] # "null"
           /\ \A j \in (n + 1)..(i - 1) : now[Order[j]] = "null"
           /\ \/ /\ now[Order[i]] = "closing" /\ RejectsTwice(Order[i])
                 /\ Exit("1")
                 /\ UNCHANGED faults
              \/ /\ ~(now[Order[i]] = "closing" /\ RejectsTwice(Order[i]))
                 /\ service' = [now EXCEPT ![Order[i]] = "closing"]
                 /\ stop' = [stop EXCEPT ![s] = Order[i]]
                 /\ UNCHANGED <<ingestVars, phase, reporter, exit, ends>>

\* A signal: fastify.close.
Stop(s) ==
    /\ Running
    /\ stop[s] = "none"
    /\ ends < MaxEnds
    /\ CloseNext(s, 0, service)

Closed(s) ==
    /\ stop[s] # "none"
    /\ Drained(stop[s])
    /\ CloseNext(s, Position(stop[s]), [service EXCEPT ![stop[s]] = "null"])

\* A close that is awaited rejects: quit on a connection that breaks, for one.
CloseFails(s) ==
    /\ stop[s] # "none"
    /\ faults < MaxFaults
    /\ faults' = faults + 1
    /\ Exit("1")

-----------------------------------------------------------------------------
(* The handlers and jobs of SignalIngestion, while there is a process.      *)

HandlerStep(q) ==
    \/ Listening /\ Receive(q) /\ UNCHANGED serverVars
    \/ phase = "up" /\ Add(q) /\ UNCHANGED serverVars
    \/ ~Listening /\ Refuse(q) /\ UNCHANGED serverVars

\* A worker that is being closed starts no job.
JobStep(id) ==
    \/ Running /\ service["queues"] = "open" /\ StartJob(id) /\ UNCHANGED serverVars
    \/ Running /\ SettleJob(id) /\ UNCHANGED serverVars

Boot == Bootstrap \/ InitPostgres \/ InitMongo \/ RegisterRoutes \/ Listen

Next ==
    \/ Boot \/ BootstrapFails \/ ListenFails \/ Kill
    \/ Fire \/ Report \/ ReportFails
    \/ \E s \in Stops : Stop(s) \/ Closed(s) \/ CloseFails(s)
    \/ \E c \in Clients : Send(c) /\ UNCHANGED serverVars
    \/ \E c \in Clients : phase = "up" /\ NextWindow(c) /\ UNCHANGED serverVars
    \/ \E q \in Requests : HandlerStep(q)
    \/ \E q \in Requests : phase = "up" /\ AddFails(q) /\ UNCHANGED serverVars
    \/ \E id \in Ids : JobStep(id)

Spec == Init /\ [][Next]_vars

Work ==
    \/ Boot
    \/ \E s \in Stops : Closed(s)
    \/ \E q \in Requests : HandlerStep(q)
    \/ \E id \in Ids : JobStep(id)

\* The container is restarted ("restart: unless-stopped"), calls that were made are
\* answered, and the worker takes what waits.  All of Work ends, so that one condition
\* is as good as one for each step; the reporter goes on for ever.
FairSpec == Spec /\ WF_vars(Work) /\ WF_vars(Report)

-----------------------------------------------------------------------------
(* Properties.                                                             *)

TypeOK ==
    /\ IngestionTypeOK
    /\ phase \in {"down", "postgres", "mongo", "routes", "listen", "up"}
    /\ service \in [Services -> {"null", "open", "closing"}]
    /\ stop \in [Stops -> Services \cup {"none"}]
    /\ reporter \in {"idle", "metrics", "count", "state", "build", "fill"}
    /\ exit \in {"none", "0", "1", "killed"}
    /\ ends \in 0..MaxEnds
    /\ phase = "down" => Handled = {} /\ Active = {}

\* "SIGTERM handler drains in-flight jobs": a process that is not killed ends while no
\* request is handled and no job is active, however many signals it gets and whatever
\* the reporter does.  Only a failed call cuts work off: the listen, for jobs the worker
\* has begun before it, or the close of the port or of the queues itself.
NothingCutOff ==
    [][phase # "down" /\ phase' = "down" /\ exit' # "killed" =>
         \/ Handled = {} /\ Active = {}
         \/ ListenFails
         \/ \E s \in Stops : stop[s] \in {"http", "queues"} /\ CloseFails(s)]_vars

\* "stops the queue cleanly" before "closes DB connections": no job runs without the
\* stores its handler uses, and no handler without the queue it adds to.
StoresOpenWhileUsed ==
    /\ Active # {} => \A x \in {"postgres", "mongo", "redis"} : service[x] = "open"
    /\ Handled # {} => service["queues"] = "open"

\* A server told to stop once exits with 0, whatever the reporter is doing, as long as the
\* calls of index.ts itself do not fail: only a second signal makes it 1, a listen that
\* fails, or a close that rejects (shutdown has no catch).
OneSignalExitsClean ==
    [][Running /\ exit' = "1" =>
         \/ Cardinality(Stopping) > 1
         \/ Stopping # {} /\ \E s \in Stops : Stop(s)
         \/ ListenFails \/ \E s \in Stops : CloseFails(s)]_vars

\* Shutdown ends: its closes wait for each other's work but never for ever.
ShutdownEnds == Stopping # {} ~> phase = "down"

\* What was answered 202 is processed, by this process or a later one, if only to the
\* failure of its last attempt.
AcceptedIsProcessed ==
    \A q \in Requests : answer[q] = "202" ~> \A id \in SignalsOf(q) : Ended(id)
=============================================================================
