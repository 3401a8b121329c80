--------------------------- MODULE SignalIngestion ---------------------------
(***************************************************************************)
(* POST /api/signals and POST /api/signals/batch: clients, the rate limit, *)
(* validation, and the BullMQ queue the accepted signals are added to.     *)
(* Client c's n-th request is <<c, n>>; all requests of a client carry the *)
(* same payload, so that every one after the first is a retry.  The server *)
(* draws a fresh uuid for each signal of each request.                     *)
(* Module Server says when the process is there to take these steps.       *)
(***************************************************************************)
EXTENDS Integers, FiniteSets

CONSTANTS
    Clients,
    Payloads,   \* what the clients may send, together
    MaxSends,   \* bound: requests of a client
    BatchSize,  \* signals in a batch
    RateMax,    \* config.rateLimit.max, per client and window
    Keep,       \* finished jobs the queue remembers: removeOnComplete, removeOnFail
    MaxFaults   \* bound: calls that fail

Kinds == {"single", "batch", "malformed"}

ASSUME PayloadsAssumption == IsFiniteSet(Clients) /\ Payloads \subseteq [Clients -> Kinds]
ASSUME SizesAssumption ==
    /\ {MaxSends, BatchSize, RateMax, Keep} \subseteq Nat \ {0}
    /\ MaxFaults \in Nat

Requests == Clients \X (1..MaxSends)
Ids == Requests \X (1..BatchSize)

VARIABLES
    payload,  \* what a client sends
    pc,       \* "unsent", "sent", "adding" (awaits the queue) or "over", per request
    answer,   \* the status code it was answered with, or "none"
    heard,    \* requests whose answer reached the client
    taken,    \* requests counted in the window of the rate limit, per client
    job,      \* "none", "waiting", "active", "done" (completed or failed), or "forgotten"
    faults

requestVars == <<pc, answer, heard>>
ingestVars == <<payload, requestVars, taken, job, faults>>

InitIngestion ==
    /\ payload \in Payloads
    /\ pc = [q \in Requests |-> "unsent"]
    /\ answer = [q \in Requests |-> "none"]
    /\ heard = {}
    /\ taken = [c \in Clients |-> 0]
    /\ job = [id \in Ids |-> "none"]
    /\ faults = 0

-----------------------------------------------------------------------------
Client(q) == q[1]
Kind(q) == payload[Client(q)]

\* The uuids the handler draws for the signals of a request.
SignalsOf(q) == {q} \X (1..(IF Kind(q) = "batch" THEN BatchSize ELSE 1))

\* The request its client waits for: the last one it sent.
Current(q) ==
    /\ pc[q] # "unsent"
    /\ \A n \in 1..MaxSends : n > q[2] => pc[<<Client(q), n>>] = "unsent"

\* A client that was not told of success or of a mistake of its own sends again.
MayRetry(q) == Current(q) /\ (q \notin heard \/ answer[q] \in {"429", "500"})

Send(c) ==
    \E n \in 1..MaxSends :
        /\ pc[<<c, n>>] = "unsent"
        /\ n > 1 => MayRetry(<<c, n - 1>>)
        /\ pc' = [pc EXCEPT ![<<c, n>>] = "sent"]
        /\ UNCHANGED <<payload, answer, heard, taken, job, faults>>

\* The answer reaches a client that still waits for it, or nobody.
Answer(q, code) ==
    /\ pc' = [pc EXCEPT ![q] = "over"]
    /\ answer' = [answer EXCEPT ![q] = code]
    /\ heard' \in {heard} \cup {heard \cup {p} : p \in {q} \cap {p \in Requests : Current(p)}}

\* safeParse of the body, and of every item of a batch: one that fails refuses all.
Valid(q) == Kind(q) # "malformed"

\* mutant: one request too many
LimitReached_OffByOne(c) == taken[c] > RateMax
LimitReached(c) == taken[c] >= RateMax

\* The rate limit, then the handler up to its first await.
Receive(q) ==
    /\ pc[q] = "sent"
    /\ \/ /\ LimitReached(Client(q))
          /\ Answer(q, "429")
          /\ UNCHANGED taken
       \/ /\ ~LimitReached(Client(q))
          /\ taken' = [taken EXCEPT ![Client(q)] = @ + 1]
          /\ \/ Valid(q) /\ pc' = [pc EXCEPT ![q] = "adding"] /\ UNCHANGED <<answer, heard>>
             \/ ~Valid(q) /\ Answer(q, "400")
    /\ UNCHANGED <<payload, job, faults>>

\* The window of the rate limit ends.
NextWindow(c) ==
    /\ taken[c] > 0
    /\ taken' = [taken EXCEPT ![c] = 0]
    /\ UNCHANGED <<payload, requestVars, job, faults>>

\* mutant: without the jobId BullMQ cannot know the job
Known_NoJobId(id) == job[id] \in {"waiting", "active"}
Known(id) == job[id] \notin {"none", "forgotten"}

\* One command adds all jobs of the request; a jobId that is known adds nothing.
Added(q) == [id \in Ids |-> IF id \in SignalsOf(q) /\ ~Known(id) THEN "waiting" ELSE job[id]]

\* mutant: the call is not awaited
Add_Unawaited(q) ==
    /\ pc[q] = "adding"
    /\ job' \in {job, Added(q)}
    /\ Answer(q, "202")
    /\ UNCHANGED <<payload, taken, faults>>
\* queue.add or addBulk.  A reply that is lost makes the connection send the command
\* again, or the call reject although its jobs are in the queue.
Add(q) ==
    /\ pc[q] = "adding"
    /\ job' = Added(q)
    /\ \/ Answer(q, "202") /\ UNCHANGED faults
       \/ /\ faults < MaxFaults
          /\ faults' = faults + 1
          /\ UNCHANGED requestVars \/ Answer(q, "500")
    /\ UNCHANGED <<payload, taken>>

AddFails(q) ==
    /\ pc[q] = "adding"
    /\ faults < MaxFaults
    /\ faults' = faults + 1
    /\ Answer(q, "500")
    /\ UNCHANGED <<payload, taken, job>>

-----------------------------------------------------------------------------
(* The worker, as module SignalPipeline details it.                        *)

StartJob(id) ==
    /\ job[id] = "waiting"
    /\ job' = [job EXCEPT ![id] = "active"]
    /\ UNCHANGED <<payload, requestVars, taken, faults>>

Done == {id \in Ids : job[id] = "done"}

\* BullMQ keeps the last finished jobs of either kind and removes an earlier one, which
\* the count of its own kind alone decides.
SettleJob(id) ==
    /\ job[id] = "active"
    /\ \/ job' = [job EXCEPT ![id] = "done"]
       \/ /\ Cardinality(Done) >= Keep
          /\ \E jd \in Done : job' = [job EXCEPT ![id] = "done", ![jd] = "forgotten"]
    /\ UNCHANGED <<payload, requestVars, taken, faults>>

Handled == {q \in Requests : pc[q] = "adding"}
Active == {id \in Ids : job[id] = "active"}

\* The process ends.  Connections break; a command on its way may still arrive; jobs
\* that were active stall and wait for the next process (SignalPipeline fails the ones
\* that stall too often).
Abandon ==
    /\ pc' = [q \in Requests |-> IF pc[q] \in {"sent", "adding"} THEN "over" ELSE pc[q]]
    /\ \E arrived \in SUBSET Handled :
           job' = [id \in Ids |->
               IF job[id] = "active" \/ \E q \in arrived : id \in SignalsOf(q) /\ ~Known(id)
               THEN "waiting" ELSE job[id]]
    /\ taken' = [c \in Clients |-> 0]
    /\ UNCHANGED <<payload, answer, heard>>

\* Nobody listens.
Refuse(q) ==
    /\ pc[q] = "sent"
    /\ pc' = [pc EXCEPT ![q] = "over"]
    /\ UNCHANGED <<payload, answer, heard, taken, job, faults>>

-----------------------------------------------------------------------------
(* Properties.                                                             *)

IngestionTypeOK ==
    /\ payload \in [Clients -> Kinds]
    /\ pc \in [Requests -> {"unsent", "sent", "adding", "over"}]
    /\ answer \in [Requests -> {"none", "202", "400", "429", "500"}]
    /\ heard \subseteq {q \in Requests : answer[q] # "none"}
    /\ taken \in [Clients -> 0..RateMax]
    /\ job \in [Ids -> {"none", "waiting", "active", "done", "forgotten"}]
    /\ faults \in 0..MaxFaults

Queued(q) == {id \in SignalsOf(q) : job[id] # "none"}

\* "A kill -9 on the backend loses zero signals": what was answered 202 is in the queue
\* or done, whichever process answered it and however it ended.  A request is queued
\* whole or not at all, and not at all if the client was told 400 or 429; only a 500 or
\* no answer leaves it open.
AcceptedIsDurable ==
    \A q \in Requests :
        /\ Queued(q) \in {{}, SignalsOf(q)}
        /\ answer[q] = "202" => Queued(q) = SignalsOf(q)
        /\ answer[q] \in {"400", "429"} => Queued(q) = {}

\* "jobId = signal_id makes this idempotent": a command that is sent again after its job
\* was done does not run it again while the queue remembers the job, which it does until
\* Keep others have finished.
DoneOnce ==
    [][\A id \in Done :
           \/ job'[id] = "done"
           \/ job'[id] = "forgotten" /\ Cardinality({jd \in Ids \ {id} : job'[jd] = "done"}) >= Keep]_job

Ended(id) == job[id] \in {"done", "forgotten"}

\* "a client retrying the HTTP call never double-processes a signal".
NeverDoubleProcesses ==
    \A q, p \in Requests :
        Client(q) = Client(p) /\ q # p =>
            ~ \E id \in SignalsOf(q), jd \in SignalsOf(p) : Ended(id) /\ Ended(jd)
=============================================================================
