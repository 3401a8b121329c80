---------------------------- MODULE ServerProofs ----------------------------
(***************************************************************************)
(* Theorems about Server, and about SignalIngestion as Server runs it, for *)
(* every set of clients and of signals to stop, every batch size and limit *)
(* and any number of failures and restarts.                                *)
(***************************************************************************)
EXTENDS Server, FiniteSetTheorems, TLAPS

-----------------------------------------------------------------------------
(* Ingestion.                                                              *)

\* The steps of Server as ingestion sees them.
IngestionStep ==
    \/ UNCHANGED ingestVars
    \/ Abandon /\ UNCHANGED faults
    \/ Abandon /\ faults < MaxFaults /\ faults' = faults + 1
    \/ /\ faults < MaxFaults /\ faults' = faults + 1
       /\ UNCHANGED <<payload, requestVars, taken, job>>
    \/ \E c \in Clients : Send(c) \/ NextWindow(c)
    \/ \E q \in Requests : Receive(q) \/ Add(q) \/ AddFails(q) \/ Refuse(q)
    \/ \E id \in Ids : StartJob(id) \/ SettleJob(id)

\* Nothing is queued before the handler adds it, nor answered before it ends; with
\* this AcceptedIsDurable is inductive.
IngestionInv ==
    /\ IngestionTypeOK
    /\ \A q \in Requests :
          /\ pc[q] \in {"unsent", "sent"} => Queued(q) = {}
          /\ pc[q] # "over" => answer[q] = "none"
    /\ AcceptedIsDurable

\* The signals of a request are its own.
LEMMA SignalsFacts ==
    ASSUME IngestionTypeOK, NEW q \in Requests
    PROVE  /\ Client(q) \in Clients
           /\ SignalsOf(q) \subseteq Ids
           /\ \A id \in SignalsOf(q) : id[1] = q
  <1>1. Client(q) \in Clients
    BY SMT DEF Requests, Client
  <1>2. (IF Kind(q) = "batch" THEN BatchSize ELSE 1) \in 1..BatchSize
    BY SizesAssumption, SMT DEF SizesAssumption
  <1>3. SignalsOf(q) \subseteq Ids
    BY <1>2, SMT DEF SignalsOf, Ids
  <1>4. \A id \in SignalsOf(q) : id[1] = q
    BY SMT DEF SignalsOf
  <1>5. QED
    BY <1>1, <1>3, <1>4

LEMMA InitIngestionInv == Init => IngestionInv
  <1> SUFFICES ASSUME Init PROVE IngestionInv
    OBVIOUS
  <1>1. IngestionTypeOK
    BY SizesAssumption, PayloadsAssumption, SMT
    DEF SizesAssumption, PayloadsAssumption, Init, InitIngestion, IngestionTypeOK
  <1>2. \A q \in Requests : Queued(q) = {} /\ answer[q] = "none"
    <2> SUFFICES ASSUME NEW q \in Requests PROVE Queued(q) = {} /\ answer[q] = "none"
      OBVIOUS
    <2>1. SignalsOf(q) \subseteq Ids
      BY <1>1, SignalsFacts
    <2>2. QED
      BY <2>1 DEF Init, InitIngestion, Queued
  <1>3. QED
    BY <1>1, <1>2 DEF IngestionInv, AcceptedIsDurable

\* What an answer leaves: only its own request is over, and told of the code.
LEMMA AnswerFacts ==
    ASSUME IngestionTypeOK, NEW q \in Requests, answer[q] = "none",
           NEW code \in {"202", "400", "429", "500"}, Answer(q, code)
    PROVE  /\ pc' = [pc EXCEPT ![q] = "over"]
           /\ answer' = [answer EXCEPT ![q] = code]
           /\ answer' \in [Requests -> {"none", "202", "400", "429", "500"}]
           /\ pc' \in [Requests -> {"unsent", "sent", "adding", "over"}]
           /\ heard' \subseteq {p \in Requests : answer'[p] # "none"}
  <1>1. /\ pc' = [pc EXCEPT ![q] = "over"]
        /\ answer' = [answer EXCEPT ![q] = code]
        /\ heard' \subseteq heard \cup {q}
    BY DEF Answer
  <1>2. QED
    BY <1>1, SMT DEF IngestionTypeOK

\* Only the first change of a job from "none" queues a signal.
LEMMA QueuedFacts ==
    ASSUME IngestionTypeOK, payload' = payload, NEW q \in Requests
    PROVE  /\ SignalsOf(q)' = SignalsOf(q)
           /\ Queued(q)' = {id \in SignalsOf(q) : job'[id] # "none"}
           /\ (\A id \in SignalsOf(q) : job'[id] = "none" <=> job[id] = "none")
                => Queued(q)' = Queued(q)
           /\ (\A id \in SignalsOf(q) : job'[id] # "none") => Queued(q)' = SignalsOf(q)
  <1>1. SignalsOf(q)' = SignalsOf(q)
    BY DEF SignalsOf, Kind
  <1>2. QED
    BY <1>1 DEF Queued

\* A step that leaves the jobs alone, and answers no request but q, which may be told of
\* any code but 202, keeps the invariant.
LEMMA OnlyAnswers ==
    ASSUME IngestionInv, IngestionTypeOK', payload' = payload, job' = job,
           NEW q \in Requests, pc[q] # "over",
           NEW code \in {"none", "400", "429", "500"},
           pc[q] = "adding" => code \in {"none", "500"},
           answer' = [answer EXCEPT ![q] = code],
           \A p \in Requests : pc'[p] # "over" => pc[p] # "over",
           \A p \in Requests :
               pc'[p] \in {"unsent", "sent"} => pc[p] \in {"unsent", "sent"},
           pc'[q] # "over" => code = "none"
    PROVE  IngestionInv'
  <1>1. \A p \in Requests : SignalsOf(p)' = SignalsOf(p) /\ Queued(p)' = Queued(p)
    BY QueuedFacts DEF IngestionInv
  <1>2. \A p \in Requests : answer'[p] = IF p = q THEN code ELSE answer[p]
    BY DEF IngestionInv, IngestionTypeOK
  <1>3. pc[q] \in {"unsent", "sent", "adding"}
    BY DEF IngestionInv, IngestionTypeOK
  <1>4. AcceptedIsDurable'
    BY <1>1, <1>2, <1>3 DEF IngestionInv, AcceptedIsDurable
  <1>5. \A p \in Requests :
          /\ pc'[p] \in {"unsent", "sent"} => Queued(p)' = {}
          /\ pc'[p] # "over" => answer'[p] = "none"
    BY <1>1, <1>2 DEF IngestionInv
  <1>6. QED
    BY <1>4, <1>5 DEF IngestionInv

\* A step that answers nobody, moves no request back and takes nothing from the queue.
LEMMA NoAnswers ==
    ASSUME IngestionInv, IngestionTypeOK', payload' = payload, answer' = answer,
           \A p \in Requests :
               pc'[p] \in {"unsent", "sent"} => pc[p] \in {"unsent", "sent"},
           \A p \in Requests : pc'[p] # "over" => pc[p] # "over",
           \A id \in Ids : job'[id] = "none" <=> job[id] = "none"
    PROVE  IngestionInv'
  <1>1. \A p \in Requests : SignalsOf(p)' = SignalsOf(p) /\ Queued(p)' = Queued(p)
    BY QueuedFacts, SignalsFacts DEF IngestionInv
  <1>2. AcceptedIsDurable'
    BY <1>1 DEF IngestionInv, AcceptedIsDurable
  <1>3. QED
    BY <1>1, <1>2 DEF IngestionInv

LEMMA ReceiveKeeps ==
    ASSUME IngestionInv, NEW q \in Requests, Receive(q)
    PROVE  IngestionInv'
  <1>1. /\ IngestionTypeOK
        /\ pc[q] = "sent" /\ answer[q] = "none"
        /\ payload' = payload /\ job' = job /\ faults' = faults
        /\ Client(q) \in Clients
    BY SignalsFacts DEF IngestionInv, Receive
  <1>2. taken' \in [Clients -> 0..RateMax]
    BY <1>1, SizesAssumption, SMT
    DEF SizesAssumption, Receive, LimitReached, IngestionTypeOK
  <1>3. CASE \E code \in {"400", "429"} : Answer(q, code)
    <2>1. PICK code \in {"400", "429"} : Answer(q, code)
      BY <1>3
    <2>2. /\ pc' = [pc EXCEPT ![q] = "over"]
          /\ answer' = [answer EXCEPT ![q] = code]
          /\ answer' \in [Requests -> {"none", "202", "400", "429", "500"}]
          /\ pc' \in [Requests -> {"unsent", "sent", "adding", "over"}]
          /\ heard' \subseteq {p \in Requests : answer'[p] # "none"}
      BY <1>1, <2>1, AnswerFacts
    <2>3. IngestionTypeOK'
      BY <1>1, <1>2, <2>2 DEF IngestionTypeOK
    <2>4. \A p \in Requests : pc'[p] = IF p = q THEN "over" ELSE pc[p]
      BY <1>1, <2>2 DEF IngestionTypeOK
    <2>5. QED
      BY <1>1, <2>2, <2>3, <2>4, OnlyAnswers
  <1>4. CASE pc' = [pc EXCEPT ![q] = "adding"] /\ UNCHANGED <<answer, heard>>
    <2>1. IngestionTypeOK'
      BY <1>1, <1>2, <1>4 DEF IngestionTypeOK
    <2>2. \A p \in Requests : pc'[p] = IF p = q THEN "adding" ELSE pc[p]
      BY <1>1, <1>4 DEF IngestionTypeOK
    <2>3. QED
      BY <1>1, <1>4, <2>1, <2>2, NoAnswers
  <1>5. QED
    BY <1>3, <1>4 DEF Receive

\* The jobs of a request that is added are queued, and nothing else changes.
LEMMA AddedFacts ==
    ASSUME IngestionTypeOK, NEW q \in Requests, job' = Added(q)
    PROVE  /\ job' \in [Ids -> {"none", "waiting", "active", "done", "forgotten"}]
           /\ \A id \in SignalsOf(q) : job'[id] # "none"
           /\ \A p \in Requests : p # q =>
                  \A id \in SignalsOf(p) : job'[id] = "none" <=> job[id] = "none"
  <1>1. \A id \in Ids : job'[id] =
            IF id \in SignalsOf(q) /\ job[id] \in {"none", "forgotten"}
            THEN "waiting" ELSE job[id]
    BY DEF Added, Known
  <1>2. job' \in [Ids -> {"none", "waiting", "active", "done", "forgotten"}]
    BY DEF Added, IngestionTypeOK
  <1>3. \A p \in Requests : p # q => \A id \in SignalsOf(p) : id \in Ids /\ id \notin SignalsOf(q)
    BY SignalsFacts
  <1>4. \A id \in SignalsOf(q) : id \in Ids
    BY SignalsFacts
  <1>5. QED
    BY <1>1, <1>2, <1>3, <1>4

LEMMA AddKeeps ==
    ASSUME IngestionInv, NEW q \in Requests, Add(q)
    PROVE  IngestionInv'
  <1>1. /\ IngestionTypeOK
        /\ pc[q] = "adding" /\ answer[q] = "none"
        /\ payload' = payload /\ taken' = taken
        /\ job' = Added(q)
    BY DEF IngestionInv, Add
  <1>2. faults' \in 0..MaxFaults
    BY SizesAssumption, <1>1, SMT DEF SizesAssumption, Add, IngestionTypeOK
  <1>3. /\ SignalsOf(q)' = SignalsOf(q)
        /\ Queued(q)' = SignalsOf(q)
    BY <1>1, AddedFacts, QueuedFacts
  <1>4. \A p \in Requests : p # q => SignalsOf(p)' = SignalsOf(p) /\ Queued(p)' = Queued(p)
    BY <1>1, AddedFacts, QueuedFacts
  <1>5. job' \in [Ids -> {"none", "waiting", "active", "done", "forgotten"}]
    BY <1>1, AddedFacts
  <1>6. CASE \E code \in {"202", "500"} : Answer(q, code)
    <2>1. PICK code \in {"202", "500"} : Answer(q, code)
      BY <1>6
    <2>2. /\ pc' = [pc EXCEPT ![q] = "over"]
          /\ answer' = [answer EXCEPT ![q] = code]
          /\ answer' \in [Requests -> {"none", "202", "400", "429", "500"}]
          /\ pc' \in [Requests -> {"unsent", "sent", "adding", "over"}]
          /\ heard' \subseteq {p \in Requests : answer'[p] # "none"}
      BY <1>1, <2>1, AnswerFacts
    <2>3. IngestionTypeOK'
      BY <1>1, <1>2, <1>5, <2>2 DEF IngestionTypeOK
    <2>4. \A p \in Requests : /\ pc'[p] = IF p = q THEN "over" ELSE pc[p]
                              /\ answer'[p] = IF p = q THEN code ELSE answer[p]
      BY <1>1, <2>2 DEF IngestionTypeOK
    <2>5. AcceptedIsDurable'
      BY <1>3, <1>4, <2>4 DEF IngestionInv, AcceptedIsDurable
    <2>6. QED
      BY <1>4, <2>3, <2>4, <2>5 DEF IngestionInv
  <1>7. CASE UNCHANGED requestVars
    <2>1. pc' = pc /\ answer' = answer /\ heard' = heard
      BY <1>7 DEF requestVars
    <2>2. IngestionTypeOK'
      BY <1>1, <1>2, <1>5, <2>1 DEF IngestionTypeOK
    <2>3. AcceptedIsDurable'
      BY <1>1, <1>3, <1>4, <2>1 DEF IngestionInv, AcceptedIsDurable
    <2>4. QED
      BY <1>1, <1>4, <2>1, <2>2, <2>3 DEF IngestionInv
  <1>8. QED
    BY <1>6, <1>7 DEF Add

LEMMA AddFailsKeeps ==
    ASSUME IngestionInv, NEW q \in Requests, AddFails(q)
    PROVE  IngestionInv'
  <1>1. /\ IngestionTypeOK
        /\ pc[q] = "adding" /\ answer[q] = "none"
        /\ payload' = payload /\ taken' = taken /\ job' = job
        /\ Answer(q, "500")
    BY DEF IngestionInv, AddFails
  <1>2. faults' \in 0..MaxFaults
    BY SizesAssumption, <1>1, SMT DEF SizesAssumption, AddFails, IngestionTypeOK
  <1>3. /\ pc' = [pc EXCEPT ![q] = "over"]
        /\ answer' = [answer EXCEPT ![q] = "500"]
        /\ answer' \in [Requests -> {"none", "202", "400", "429", "500"}]
        /\ pc' \in [Requests -> {"unsent", "sent", "adding", "over"}]
        /\ heard' \subseteq {p \in Requests : answer'[p] # "none"}
    BY <1>1, AnswerFacts
  <1>4. IngestionTypeOK'
    BY <1>1, <1>2, <1>3 DEF IngestionTypeOK
  <1>5. \A p \in Requests : pc'[p] = IF p = q THEN "over" ELSE pc[p]
    BY <1>1, <1>3 DEF IngestionTypeOK
  <1>6. QED
    BY <1>1, <1>3, <1>4, <1>5, OnlyAnswers

\* The process ends, with or without a failure that is its cause.
LEMMA AbandonKeeps ==
    ASSUME IngestionInv, Abandon, faults' \in 0..MaxFaults
    PROVE  IngestionInv'
  <1>1. /\ IngestionTypeOK
        /\ payload' = payload /\ answer' = answer /\ heard' = heard
        /\ taken' \in [Clients -> 0..RateMax]
    BY SizesAssumption, SMT DEF SizesAssumption, IngestionInv, Abandon
  <1>2. /\ pc' \in [Requests -> {"unsent", "sent", "adding", "over"}]
        /\ \A p \in Requests :
              pc'[p] = IF pc[p] \in {"sent", "adding"} THEN "over" ELSE pc[p]
    BY <1>1 DEF Abandon, IngestionTypeOK
  <1>3. PICK arrived \in SUBSET Handled :
            job' = [id \in Ids |->
               IF job[id] = "active" \/ \E q \in arrived : id \in SignalsOf(q) /\ ~Known(id)
               THEN "waiting" ELSE job[id]]
    BY DEF Abandon
  <1>4. IngestionTypeOK'
    BY <1>1, <1>2, <1>3 DEF IngestionTypeOK
  <1>5. \A p \in Requests : SignalsOf(p)' = SignalsOf(p)
    BY <1>1, QueuedFacts
  <1>6. \A p \in arrived : p \in Requests /\ pc[p] = "adding" /\ Queued(p)' = SignalsOf(p)
    <2> SUFFICES ASSUME NEW p \in arrived
                 PROVE  p \in Requests /\ pc[p] = "adding" /\ Queued(p)' = SignalsOf(p)
      OBVIOUS
    <2>1. p \in Requests /\ pc[p] = "adding"
      BY DEF Handled
    <2>2. \A id \in SignalsOf(p) : id \in Ids /\ job'[id] # "none"
      BY <1>1, <1>3, <2>1, SignalsFacts DEF Known
    <2>3. QED
      BY <1>1, <2>1, <2>2, QueuedFacts
  <1>7. \A p \in Requests : p \notin arrived => Queued(p)' = Queued(p)
    <2> SUFFICES ASSUME NEW p \in Requests, p \notin arrived PROVE Queued(p)' = Queued(p)
      OBVIOUS
    <2>1. \A id \in SignalsOf(p) : id \in Ids /\ \A q \in arrived : id \notin SignalsOf(q)
      BY <1>1, <1>6, SignalsFacts
    <2>2. \A id \in SignalsOf(p) : job'[id] = "none" <=> job[id] = "none"
      BY <1>3, <2>1
    <2>3. QED
      BY <1>1, <2>2, QueuedFacts
  <1>8. AcceptedIsDurable'
    BY <1>1, <1>5, <1>6, <1>7 DEF IngestionInv, AcceptedIsDurable
  <1>9. QED
    BY <1>1, <1>2, <1>4, <1>6, <1>7, <1>8 DEF IngestionInv

\* Every step of ingestion, and every end of the process, keeps the invariant.
LEMMA NextIngestionInv == IngestionInv /\ IngestionStep => IngestionInv'
  <1> SUFFICES ASSUME IngestionInv, IngestionStep PROVE IngestionInv'
    OBVIOUS
  <1>a. /\ IngestionTypeOK
        /\ MaxFaults \in Nat /\ faults \in 0..MaxFaults
    BY SizesAssumption DEF SizesAssumption, IngestionInv, IngestionTypeOK
  <1>1. CASE UNCHANGED ingestVars
    <2>1. /\ payload' = payload /\ answer' = answer /\ pc' = pc /\ job' = job
          /\ IngestionTypeOK'
      BY <1>1, <1>a DEF ingestVars, requestVars, IngestionTypeOK
    <2>2. QED
      BY <2>1, NoAnswers
  <1>2. CASE Abandon /\ UNCHANGED faults
    BY <1>2, <1>a, AbandonKeeps
  <1>3. CASE Abandon /\ faults < MaxFaults /\ faults' = faults + 1
    <2>1. faults' \in 0..MaxFaults
      BY <1>3, <1>a, SMT
    <2>2. QED
      BY <1>3, <2>1, AbandonKeeps
  <1>4. CASE /\ faults < MaxFaults /\ faults' = faults + 1
             /\ UNCHANGED <<payload, requestVars, taken, job>>
    <2>1. faults' \in 0..MaxFaults
      BY <1>4, <1>a, SMT
    <2>2. /\ payload' = payload /\ answer' = answer /\ pc' = pc /\ job' = job
          /\ IngestionTypeOK'
      BY <1>4, <1>a, <2>1 DEF requestVars, IngestionTypeOK
    <2>3. QED
      BY <2>2, NoAnswers
  <1>5. ASSUME NEW c \in Clients, Send(c) PROVE IngestionInv'
    <2>1. PICK n \in 1..MaxSends :
              pc[<<c, n>>] = "unsent" /\ pc' = [pc EXCEPT ![<<c, n>>] = "sent"]
      BY <1>5 DEF Send
    <2>2. <<c, n>> \in Requests
      BY DEF Requests
    <2>3. /\ payload' = payload /\ answer' = answer /\ job' = job
          /\ IngestionTypeOK'
      BY <1>5, <1>a, <2>1 DEF Send, IngestionTypeOK
    <2>4. \A p \in Requests : pc'[p] = IF p = <<c, n>> THEN "sent" ELSE pc[p]
      BY <1>a, <2>1, <2>2 DEF IngestionTypeOK
    <2>5. QED
      BY <2>1, <2>3, <2>4, NoAnswers
  <1>6. ASSUME NEW c \in Clients, NextWindow(c) PROVE IngestionInv'
    <2>1. taken' \in [Clients -> 0..RateMax]
      BY <1>6, <1>a, SizesAssumption, SMT
      DEF SizesAssumption, NextWindow, IngestionTypeOK
    <2>2. /\ payload' = payload /\ answer' = answer /\ pc' = pc /\ job' = job
          /\ IngestionTypeOK'
      BY <1>6, <1>a, <2>1 DEF NextWindow, requestVars, IngestionTypeOK
    <2>3. QED
      BY <2>2, NoAnswers
  <1>7. ASSUME NEW q \in Requests, Refuse(q) PROVE IngestionInv'
    <2>1. /\ payload' = payload /\ answer' = answer /\ job' = job
          /\ pc[q] = "sent" /\ pc' = [pc EXCEPT ![q] = "over"]
          /\ IngestionTypeOK'
      BY <1>7, <1>a DEF Refuse, IngestionTypeOK
    <2>2. \A p \in Requests : pc'[p] = IF p = q THEN "over" ELSE pc[p]
      BY <1>a, <2>1 DEF IngestionTypeOK
    <2>3. QED
      BY <2>1, <2>2, NoAnswers
  <1>8. ASSUME NEW id \in Ids, StartJob(id) \/ SettleJob(id) PROVE IngestionInv'
    <2>1. /\ payload' = payload /\ answer' = answer /\ pc' = pc
          /\ heard' = heard /\ taken' = taken /\ faults' = faults
      BY <1>8 DEF StartJob, SettleJob, requestVars
    <2>2. /\ job' \in [Ids -> {"none", "waiting", "active", "done", "forgotten"}]
          /\ \A jd \in Ids : job'[jd] = "none" <=> job[jd] = "none"
      <3>1. CASE StartJob(id)
        BY <3>1, <1>a DEF StartJob, IngestionTypeOK
      <3>2. CASE SettleJob(id)
        BY <3>2, <1>a DEF SettleJob, Done, IngestionTypeOK
      <3>3. QED
        BY <1>8, <3>1, <3>2
    <2>3. IngestionTypeOK'
      BY <1>a, <2>1, <2>2 DEF IngestionTypeOK
    <2>4. QED
      BY <2>1, <2>2, <2>3, NoAnswers
  <1>9. QED
    BY <1>1, <1>2, <1>3, <1>4, <1>5, <1>6, <1>7, <1>8,
       ReceiveKeeps, AddKeeps, AddFailsKeeps DEF IngestionStep

-----------------------------------------------------------------------------
(* The process.                                                            *)

States == {"null", "open", "closing"}

LEMMA OrderFacts ==
    /\ Len(Order) = 5
    /\ Order[1] = "http" /\ Order[2] = "queues" /\ Order[3] = "postgres"
    /\ Order[4] = "mongo" /\ Order[5] = "redis"
  BY DEF Order

LEMMA PositionFacts ==
    ASSUME NEW x \in Services
    PROVE  Position(x) \in 1..5 /\ Order[Position(x)] = x
  <1>1. \E i \in 1..5 : Order[i] = x
    BY OrderFacts DEF Services
  <1>2. QED
    BY <1>1, OrderFacts DEF Position

\* A run of shutdown that goes on after position n skips what is null, and then ends,
\* is rejected, or closes a service.
LEMMA CloseNextCases ==
    ASSUME NEW s \in Stops, NEW n \in 0..5, NEW now, CloseNext(s, n, now)
    PROVE  \/ /\ \A j \in 1..5 : n < j => now[Order[j]] = "null"
              /\ Exit("0") /\ UNCHANGED faults
           \/ \E k \in 1..5 :
                 /\ n < k /\ now[Order[k]] # "null"
                 /\ \A j \in 1..5 : n < j /\ j < k => now[Order[j]] = "null"
                 /\ \/ /\ now[Order[k]] = "closing" /\ RejectsTwice(Order[k])
                       /\ Exit("1") /\ UNCHANGED faults
                    \/ /\ service' = [now EXCEPT ![Order[k]] = "closing"]
                       /\ stop' = [stop EXCEPT ![s] = Order[k]]
                       /\ UNCHANGED <<ingestVars, phase, reporter, exit, ends>>
  <1>1. CASE /\ \A i \in (n + 1)..5 : now[Order[i]] = "null"
             /\ Exit("0") /\ UNCHANGED faults
    <2>1. \A j \in 1..5 : n < j => j \in (n + 1)..5
      BY SMT
    <2>2. QED
      BY <1>1, <2>1
  <1>2. ASSUME NEW i \in (n + 1)..5,
               now[Order[i]] # "null",
               \A j \in (n + 1)..(i - 1) : now[Order[j]] = "null"
        PROVE  /\ i \in 1..5 /\ n < i
               /\ \A j \in 1..5 : n < j /\ j < i => now[Order[j]] = "null"
    <2>1. i \in 1..5 /\ n < i
      BY SMT
    <2>2. \A j \in 1..5 : n < j /\ j < i => j \in (n + 1)..(i - 1)
      BY <2>1, SMT
    <2>3. QED
      BY <1>2, <2>1, <2>2
  <1>3. QED
    BY <1>1, <1>2, OrderFacts, Zenon DEF CloseNext

\* Ingestion sees every step of Server as one of its own.
LEMMA NextIsIngestionStep == [Next]_vars => IngestionStep
  <1> SUFFICES ASSUME [Next]_vars PROVE IngestionStep
    OBVIOUS
  <1>1. CASE Boot \/ Fire \/ Report
    BY <1>1 DEF Boot, Bootstrap, InitPostgres, InitMongo, RegisterRoutes, Listen, Fire,
                Report, IngestionStep
  <1>2. CASE BootstrapFails \/ ListenFails \/ Kill \/ \E s \in Stops : CloseFails(s)
    BY <1>2 DEF BootstrapFails, ListenFails, CloseFails, Kill, Exit, IngestionStep
  <1>3. CASE ReportFails
    BY <1>3 DEF ReportFails, ReporterRejects, IngestionStep
  <1>4. ASSUME NEW s \in Stops, NEW n, NEW now, CloseNext(s, n, now) PROVE IngestionStep
    BY <1>4 DEF CloseNext, Exit, IngestionStep
  <1>5. ASSUME NEW s \in Stops, Stop(s) \/ Closed(s) PROVE IngestionStep
    BY <1>4, <1>5 DEF Stop, Closed
  <1>6. CASE \E c \in Clients : Send(c) \/ NextWindow(c)
    BY <1>6 DEF IngestionStep
  <1>7. CASE \E q \in Requests : HandlerStep(q) \/ AddFails(q)
    BY <1>7 DEF HandlerStep, IngestionStep
  <1>8. CASE \E id \in Ids : JobStep(id)
    BY <1>8 DEF JobStep, IngestionStep
  <1>9. CASE UNCHANGED vars
    BY <1>9 DEF vars, IngestionStep
  <1>10. QED
    BY <1>1, <1>2, <1>3, <1>5, <1>6, <1>7, <1>8, <1>9 DEF Next

\* "A kill -9 on the backend loses zero signals": what was answered 202 is queued whole,
\* whichever process answered it and however it ended.
THEOREM AcceptedCorrect == Spec => []AcceptedIsDurable
  <1>1. IngestionInv => AcceptedIsDurable
    BY DEF IngestionInv
  <1>2. QED
    BY <1>1, InitIngestionInv, NextIngestionInv, NextIsIngestionStep, PTL DEF Spec

-----------------------------------------------------------------------------
(* Shutdown.                                                               *)

Stores == {"postgres", "mongo", "redis"}

\* Services are closed in an order that lets none go before those that use it: the
\* port, the queue when no handler adds to it, the stores when no job uses them.
ClosedInOrder(now) ==
    /\ now \in [Services -> States]
    /\ now["http"] = "null" => Handled = {}
    /\ now["queues"] # "open" => now["http"] = "null"
    /\ now["queues"] = "null" => Active = {}
    /\ \A x \in Stores : now[x] # "open" => now["queues"] = "null"

\* What bootstrap has opened before it is through.
Opened ==
    /\ phase \in {"postgres", "mongo", "routes"} => service["postgres"] = "open"
    /\ phase \in {"mongo", "routes"} => service["mongo"] = "open"
    /\ phase = "routes" => service["redis"] = "open"

\* Where a run of shutdown is: what it awaits needs nothing that is still open.
Behind(s, now) ==
    /\ stop[s] = "queues" => now["http"] = "null"
    /\ stop[s] \in Stores => now["queues"] = "null"

ProcessTypeOK ==
    /\ phase \in {"down", "postgres", "mongo", "routes", "listen", "up"}
    /\ service \in [Services -> States]
    /\ stop \in [Stops -> Services \cup {"none"}]
    /\ reporter \in {"idle", "metrics", "count", "state", "build", "fill"}
    /\ exit \in {"none", "0", "1", "killed"}
    /\ ends \in 0..MaxEnds

UpInv ==
    /\ Stopping = {} => service["http"] = "open"
    /\ Stopping # {} => ends < MaxEnds
    /\ ClosedInOrder(service)
    /\ \A s \in Stops : Behind(s, service)
    /\ \A x \in Services : service[x] = "closing" => \E s \in Stops : stop[s] = x

ProcessInv ==
    /\ ProcessTypeOK
    /\ ~Running => Stopping = {} /\ Active = {} /\ reporter = "idle"
    /\ phase # "up" => Handled = {}
    /\ phase # "down" => exit = "none"
    /\ Running => UpInv
    /\ Opened

LEMMA InitProcessInv == Init => ProcessInv
  BY StopsAssumption, SMT
  DEF StopsAssumption, Init, InitIngestion, ProcessInv, ProcessTypeOK, Services, States,
      Stopping, Running, Opened, Handled, Active, Ids, Requests

\* The process ends.
LEMMA ExitFacts ==
    ASSUME IngestionInv, ProcessInv, NEW code \in {"0", "1", "killed"}, Exit(code),
           code = "killed" => ends < MaxEnds
    PROVE  ProcessInv'
  <1>1. Handled' = {}
    BY SMT DEF Exit, Abandon, Handled, IngestionInv, IngestionTypeOK
  <1>2. Active' = {}
    BY SMT DEF Exit, Abandon, Active, IngestionInv, IngestionTypeOK
  <1>3. Stopping' = {}
    BY DEF Exit, Stopping
  <1>4. Stopping # {} => ends < MaxEnds
    BY DEF ProcessInv, UpInv
  <1>5. ProcessTypeOK'
    BY <1>4, StopsAssumption, SMT
    DEF StopsAssumption, Exit, ProcessInv, ProcessTypeOK, Services, States
  <1>6. QED
    BY <1>1, <1>2, <1>3, <1>5 DEF Exit, Running, Opened, ProcessInv

\* What a run of shutdown knows when it goes on after position n, once now is what
\* the services are.
Ready(s, n, now) ==
    /\ Running
    /\ ends < MaxEnds
    /\ ClosedInOrder(now)
    /\ n >= 1 => now["http"] = "null"
    /\ n >= 2 => now["queues"] = "null"
    /\ \A t \in Stops : t # s => Behind(t, now)
    /\ \A x \in Services : now[x] = "closing" => \E t \in Stops : t # s /\ stop[t] = x

\* A run of shutdown that ends, ends when nobody is at work; with code 1, if another
\* run closes what it was to close; and else it keeps the order.
LEMMA CloseNextKeeps ==
    ASSUME IngestionInv, ProcessInv, NEW s \in Stops, NEW n \in 0..5, NEW now,
           Ready(s, n, now), CloseNext(s, n, now)
    PROVE  /\ ProcessInv'
           /\ phase' = "down" => Handled = {} /\ Active = {}
           /\ exit' = "1" => \E t \in Stops : t # s /\ t \in Stopping
  <1>a. /\ Order[1] = "http" /\ Order[2] = "queues"
        /\ \A k \in 1..5 : Order[k] \in Services
        /\ \A k \in 3..5 : Order[k] \in Stores
    BY OrderFacts, SMT DEF Services, Stores
  <1>b. /\ Running /\ exit = "none" /\ ends < MaxEnds
        /\ now \in [Services -> States]
        /\ phase # "up" => Handled = {}
    BY DEF Ready, Running, ProcessInv, ClosedInOrder
  <1>1. CASE /\ \A j \in 1..5 : n < j => now[Order[j]] = "null"
             /\ Exit("0") /\ UNCHANGED faults
    <2>1. now["http"] = "null" /\ now["queues"] = "null"
      <3>1. n >= 1 \/ n < 1
        BY SMT
      <3>2. n >= 2 \/ n < 2
        BY SMT
      <3>3. QED
        BY <1>1, <1>a, <3>1, <3>2 DEF Ready
    <2>2. Handled = {} /\ Active = {}
      BY <2>1 DEF Ready, ClosedInOrder
    <2>3. ProcessInv'
      BY <1>1, <1>b, ExitFacts
    <2>4. exit' = "0"
      BY <1>1 DEF Exit
    <2>5. QED
      BY <2>2, <2>3, <2>4
  <1>2. ASSUME NEW k \in 1..5, now[Order[k]] = "closing", RejectsTwice(Order[k]),
               Exit("1"), UNCHANGED faults
        PROVE  /\ ProcessInv'
               /\ phase' = "down" => Handled = {} /\ Active = {}
               /\ exit' = "1" => \E t \in Stops : t # s /\ t \in Stopping
    <2>1. Order[k] \in Stores /\ Order[k] \in Services
      BY <1>2, <1>a DEF RejectsTwice, Stores
    <2>2. now["queues"] = "null" /\ now["http"] = "null"
      BY <1>2, <2>1 DEF Ready, ClosedInOrder
    <2>3. Handled = {} /\ Active = {}
      BY <2>2 DEF Ready, ClosedInOrder
    <2>4. PICK t \in Stops : t # s /\ stop[t] = Order[k]
      BY <1>2, <2>1 DEF Ready
    <2>5. t \in Stopping
      BY <2>1, <2>4, SMT DEF Stopping, Services
    <2>6. ProcessInv'
      BY <1>2, <1>b, ExitFacts
    <2>7. QED
      BY <2>3, <2>4, <2>5, <2>6
  <1>3. ASSUME NEW k \in 1..5, n < k,
               \A j \in 1..5 : n < j /\ j < k => now[Order[j]] = "null",
               now[Order[k]] # "null",
               service' = [now EXCEPT ![Order[k]] = "closing"],
               stop' = [stop EXCEPT ![s] = Order[k]],
               UNCHANGED <<ingestVars, phase, reporter, exit, ends>>
        PROVE  /\ ProcessInv'
               /\ phase' = "down" => Handled = {} /\ Active = {}
               /\ exit' = "1" => \E t \in Stops : t # s /\ t \in Stopping
    <2>1. /\ phase' = phase /\ phase' # "down" /\ Running' /\ Opened'
          /\ exit' = "none" /\ ends' = ends
          /\ Handled' = Handled /\ Active' = Active
      BY <1>3, <1>b DEF ingestVars, requestVars, Handled, Active, Running, Opened
    <2>2. Order[k] \in Services
      BY <1>a
    <2>3. \A t \in Stops : stop'[t] = IF t = s THEN Order[k] ELSE stop[t]
      BY <1>3 DEF ProcessInv, ProcessTypeOK
    <2>4. \A x \in Services : service'[x] = IF x = Order[k] THEN "closing" ELSE now[x]
      BY <1>3, <1>b
    <2>5. /\ service' \in [Services -> States]
          /\ stop' \in [Stops -> Services \cup {"none"}]
      BY <1>3, <1>b, <2>2 DEF ProcessInv, ProcessTypeOK, States
    <2>6. k = 1 \/ k = 2 \/ k \in 3..5
      BY SMT
    <2>7. /\ k = 2 => now["http"] = "null"
          /\ k \in 3..5 => now["queues"] = "null" /\ now["http"] = "null"
      <3>1. k = 2 => now["http"] = "null"
        <4>1. CASE n >= 1
          BY <4>1 DEF Ready
        <4>2. CASE n < 1 /\ k = 2
          <5>1. n < 1 /\ 1 < k /\ 1 \in 1..5
            BY <4>2, SMT
          <5>2. QED
            BY <5>1, <1>3, <1>a
        <4>3. QED
          BY <4>1, <4>2, SMT
      <3>2. k \in 3..5 => now["queues"] = "null"
        <4>1. CASE n >= 2
          BY <4>1 DEF Ready
        <4>2. CASE n < 2 /\ k \in 3..5
          <5>1. n < 2 /\ 2 < k /\ 2 \in 1..5
            BY <4>2, SMT
          <5>2. QED
            BY <5>1, <1>3, <1>a
        <4>3. QED
          BY <4>1, <4>2, SMT
      <3>3. QED
        BY <3>1, <3>2 DEF Ready, ClosedInOrder
    <2>8. ClosedInOrder(service)'
      <3>1. "http" \in Services /\ "queues" \in Services /\ Stores \subseteq Services
            /\ "http" \notin Stores /\ "queues" \notin Stores
        BY SMT DEF Services, Stores
      <3>2. CASE k = 1
        <4>1. now["queues"] = "open" /\ \A x \in Stores : now[x] = "open"
          BY <1>3, <1>a, <3>2 DEF Ready, ClosedInOrder
        <4>2. /\ service'["http"] = "closing" /\ service'["queues"] = "open"
              /\ \A x \in Stores : service'[x] = "open"
          BY <3>1, <3>2, <4>1, <1>a, <2>4
        <4>3. QED
          BY <2>5, <4>2 DEF ClosedInOrder
      <3>3. CASE k = 2
        <4>1. /\ service'["http"] = "null" /\ service'["queues"] = "closing"
              /\ \A x \in Stores : service'[x] = now[x]
          BY <3>1, <3>3, <1>a, <2>4, <2>7
        <4>2. Handled' = {} /\ \A x \in Stores : now[x] = "open"
          BY <1>3, <2>1, <2>7, <3>3, <1>a DEF Ready, ClosedInOrder
        <4>3. QED
          BY <2>5, <4>1, <4>2 DEF ClosedInOrder
      <3>4. CASE k \in 3..5
        <4>1. Order[k] \in Stores
          BY <3>4, <1>a
        <4>2. /\ service'["http"] = "null" /\ service'["queues"] = "null"
              /\ Handled' = {} /\ Active' = {}
          BY <3>1, <3>4, <4>1, <2>1, <2>4, <2>7 DEF Ready, ClosedInOrder
        <4>3. QED
          BY <2>5, <4>2 DEF ClosedInOrder
      <3>5. QED
        BY <2>6, <3>2, <3>3, <3>4
    <2>9. \A t \in Stops : Behind(t, service)'
      <3>1. "http" \in Services /\ "queues" \in Services /\ Stores \subseteq Services
            /\ "http" \notin Stores /\ "queues" \notin Stores
        BY SMT DEF Services, Stores
      <3>2. now["http"] = "null" /\ Order[k] = "http" => FALSE
        BY <1>3
      <3>3. now["queues"] = "null" /\ Order[k] = "queues" => FALSE
        BY <1>3
      <3>4. \A t \in Stops : t # s => Behind(t, service)'
        BY <3>1, <3>2, <3>3, <2>3, <2>4 DEF Ready, Behind
      <3>5. Behind(s, service)'
        <4>1. CASE k = 1
          BY <4>1, <3>1, <1>a, <2>3 DEF Behind
        <4>2. CASE k = 2
          BY <4>2, <3>1, <1>a, <2>3, <2>4, <2>7 DEF Behind
        <4>3. CASE k \in 3..5
          BY <4>3, <3>1, <1>a, <2>3, <2>4, <2>7 DEF Behind
        <4>4. QED
          BY <2>6, <4>1, <4>2, <4>3
      <3>6. QED
        BY <3>4, <3>5
    <2>10. \A x \in Services : service'[x] = "closing" => \E t \in Stops : stop'[t] = x
      BY <2>2, <2>3, <2>4 DEF Ready
    <2>11. s \in Stopping' /\ Stopping' # {}
      BY <2>2, <2>3, SMT DEF Stopping, Services
    <2>12. UpInv'
      BY <1>b, <2>1, <2>8, <2>9, <2>10, <2>11 DEF UpInv
    <2>13. ProcessTypeOK'
      BY <1>3, <2>1, <2>5 DEF ProcessInv, ProcessTypeOK
    <2>14. ProcessInv'
      BY <1>b, <2>1, <2>12, <2>13 DEF ProcessInv
    <2>15. QED
      BY <2>1, <2>14
  <1>4. QED
    BY <1>1, <1>2, <1>3, CloseNextCases

\* A signal: its run starts at the port.
LEMMA StopReady ==
    ASSUME ProcessInv, NEW s \in Stops, Stop(s)
    PROVE  Ready(s, 0, service)
  <1>1. Running /\ ends < MaxEnds /\ stop[s] = "none" /\ UpInv
    BY DEF Stop, ProcessInv
  <1>2. \A x \in Services : x # "none"
    BY DEF Services
  <1>3. QED
    BY <1>1, <1>2, SMT DEF Ready, UpInv

\* A close is done: nobody works with that service, nor will again.
LEMMA ClosedReady ==
    ASSUME IngestionInv, ProcessInv, NEW s \in Stops, Closed(s)
    PROVE  /\ stop[s] \in Services
           /\ Ready(s, Position(stop[s]), [service EXCEPT ![stop[s]] = "null"])
  <1> DEFINE x == stop[s]
             now == [service EXCEPT ![x] = "null"]
  <1>1. x \in Services /\ x # "none" /\ s \in Stopping
    BY SMT DEF Closed, ProcessInv, ProcessTypeOK, Stopping
  <1>2. Running /\ UpInv /\ ends < MaxEnds
    BY <1>1 DEF ProcessInv, UpInv
  <1>3. /\ now \in [Services -> States]
        /\ \A y \in Services : now[y] = IF y = x THEN "null" ELSE service[y]
    BY <1>1 DEF ProcessInv, ProcessTypeOK, States
  <1>4. /\ ClosedInOrder(service)
        /\ Behind(s, service)
        /\ \A t \in Stops : Behind(t, service)
    BY <1>2 DEF UpInv
  <1>5. /\ Services = {"http", "queues"} \cup Stores
        /\ "http" \notin Stores /\ "queues" \notin Stores
    BY SMT DEF Services, Stores
  <1>6. /\ x = "http" => Handled = {}
        /\ x = "queues" => Active = {}
    BY DEF Closed, Drained
  <1> HIDE DEF now, x
  <1>7. ClosedInOrder(now)
    <2>1. CASE x = "http"
      BY <2>1, <1>3, <1>4, <1>5, <1>6 DEF ClosedInOrder
    <2>2. CASE x = "queues"
      BY <2>2, <1>3, <1>4, <1>5, <1>6 DEF ClosedInOrder, Behind, x
    <2>3. CASE x \in Stores
      BY <2>3, <1>3, <1>4, <1>5, <1>6 DEF ClosedInOrder, Behind, x
    <2>4. QED
      BY <2>1, <2>2, <2>3, <1>1, <1>5
  <1>8. /\ Position(x) >= 1 => now["http"] = "null"
        /\ Position(x) >= 2 => now["queues"] = "null"
    <2>1. Position(x) \in 1..5 /\ Order[Position(x)] = x
      BY <1>1, PositionFacts
    <2>2. CASE x = "http"
      <3>1. Position(x) = 1
        BY <2>1, <2>2, OrderFacts, SMT
      <3>2. QED
        BY <2>2, <3>1, <1>3, <1>5, SMT
    <2>3. CASE x = "queues"
      BY <2>3, <1>3, <1>4, <1>5 DEF Behind, x
    <2>4. CASE x \in Stores
      BY <2>4, <1>3, <1>4, <1>5 DEF Behind, ClosedInOrder, x
    <2>5. QED
      BY <2>2, <2>3, <2>4, <1>1, <1>5
  <1>9. \A t \in Stops : Behind(t, now)
    BY <1>3, <1>4, <1>5 DEF Behind
  <1>10. \A y \in Services : now[y] = "closing" => \E t \in Stops : t # s /\ stop[t] = y
    <2> SUFFICES ASSUME NEW y \in Services, now[y] = "closing"
                 PROVE  \E t \in Stops : t # s /\ stop[t] = y
      OBVIOUS
    <2>1. y # x /\ service[y] = "closing"
      BY <1>3
    <2>2. PICK t \in Stops : stop[t] = y
      BY <1>2, <2>1 DEF UpInv
    <2>3. QED
      BY <2>1, <2>2 DEF x
  <1>11. QED
    BY <1>1, <1>2, <1>7, <1>8, <1>9, <1>10 DEF Ready, now, x

\* What Stop and Closed have in common.
LEMMA ShutdownKeeps ==
    ASSUME IngestionInv, ProcessInv, NEW s \in Stops, Stop(s) \/ Closed(s)
    PROVE  /\ ProcessInv'
           /\ phase' = "down" => Handled = {} /\ Active = {}
           /\ exit' = "1" => \E t \in Stops : t # s /\ t \in Stopping
  <1>1. CASE Stop(s)
    <2>1. Ready(s, 0, service) /\ CloseNext(s, 0, service)
      BY <1>1, StopReady DEF Stop
    <2>2. QED
      BY <2>1, CloseNextKeeps, SMT
  <1>2. CASE Closed(s)
    <2> DEFINE n == Position(stop[s])
               now == [service EXCEPT ![stop[s]] = "null"]
    <2>1. stop[s] \in Services /\ Ready(s, n, now) /\ CloseNext(s, n, now)
      BY <1>2, ClosedReady DEF Closed
    <2>2. n \in 0..5
      BY <2>1, PositionFacts, SMT
    <2> HIDE DEF n, now
    <2>3. QED
      BY <2>1, <2>2, CloseNextKeeps
  <1>3. QED
    BY <1>1, <1>2

\* A close that rejects: unless it was that of the port or of the queues, nobody was at
\* work any more.
LEMMA CloseFailsKeeps ==
    ASSUME IngestionInv, ProcessInv, NEW s \in Stops, CloseFails(s)
    PROVE  /\ ProcessInv'
           /\ stop[s] \in {"http", "queues"} \/ (Handled = {} /\ Active = {})
  <1>1. ProcessInv'
    BY ExitFacts DEF CloseFails
  <1>2. stop[s] \in {"http", "queues"} \/ stop[s] \in Stores
    BY DEF CloseFails, ProcessInv, ProcessTypeOK, Services, Stores
  <1>3. Running /\ UpInv
    BY DEF CloseFails, ProcessInv, Stopping
  <1>4. ASSUME stop[s] \in Stores PROVE Handled = {} /\ Active = {}
    <2>1. service["queues"] = "null" /\ service["http"] = "null"
      BY <1>3, <1>4 DEF UpInv, Behind, ClosedInOrder
    <2>2. QED
      BY <1>3, <2>1 DEF UpInv, ClosedInOrder
  <1>5. QED
    BY <1>1, <1>2, <1>4

\* A step of ingestion: handlers start while the port is open, jobs while the queue is.
LEMMA IngestionKeeps ==
    ASSUME ProcessInv, UNCHANGED serverVars,
           Handled' # {} => Handled # {} \/ Listening,
           Active' # {} => Active # {} \/ (Running /\ service["queues"] = "open")
    PROVE  ProcessInv'
  <1>1. /\ phase' = phase /\ service' = service /\ stop' = stop /\ reporter' = reporter
        /\ exit' = exit /\ ends' = ends
        /\ Stopping' = Stopping /\ Running' = Running /\ Opened' = Opened
    BY DEF serverVars, Stopping, Running, Opened
  <1>2. ProcessTypeOK'
    BY <1>1 DEF ProcessInv, ProcessTypeOK
  <1>3. /\ phase # "up" => Handled' = {}
        /\ ~Running => Active' = {}
    BY DEF ProcessInv, Listening
  <1>4. ASSUME Running PROVE UpInv'
    <2>1. UpInv
      BY <1>4 DEF ProcessInv
    <2>2. service["http"] = "null" => Handled' = {}
      BY <2>1 DEF UpInv, ClosedInOrder, Listening
    <2>3. service["queues"] = "null" => Active' = {}
      BY <2>1 DEF UpInv, ClosedInOrder
    <2>4. ClosedInOrder(service)'
      BY <1>1, <2>1, <2>2, <2>3 DEF UpInv, ClosedInOrder
    <2>5. QED
      BY <1>1, <2>1, <2>4 DEF UpInv, Behind
  <1>5. QED
    BY <1>1, <1>2, <1>3, <1>4 DEF ProcessInv

\* What starts and ends, as ingestion takes its steps.
LEMMA WorkFacts ==
    /\ \A c \in Clients : Send(c) \/ NextWindow(c) =>
          Active' = Active /\ (IngestionTypeOK => Handled' = Handled)
    /\ \A q \in Requests : Receive(q) => Active' = Active
    /\ \A q \in Requests : Refuse(q) \/ AddFails(q) =>
          Active' = Active /\ (IngestionTypeOK => Handled' \subseteq Handled)
    /\ \A q \in Requests : Add(q) =>
          (IngestionTypeOK => Active' = Active /\ Handled' \subseteq Handled)
    /\ \A id \in Ids : StartJob(id) => Handled' = Handled
    /\ \A id \in Ids : SettleJob(id) =>
          Handled' = Handled /\ (IngestionTypeOK => Active' \subseteq Active)
  <1>1. ASSUME NEW c \in Clients, Send(c) \/ NextWindow(c), IngestionTypeOK
        PROVE  Handled' = Handled
    <2>1. CASE NextWindow(c)
      BY <2>1 DEF NextWindow, requestVars, Handled
    <2>2. CASE Send(c)
      <3>1. PICK n \in 1..MaxSends :
                pc[<<c, n>>] = "unsent" /\ pc' = [pc EXCEPT ![<<c, n>>] = "sent"]
        BY <2>2 DEF Send
      <3>2. \A p \in Requests : pc'[p] = IF p = <<c, n>> THEN "sent" ELSE pc[p]
        BY <1>1, <3>1 DEF IngestionTypeOK
      <3>3. QED
        BY <3>1, <3>2 DEF Handled
    <2>3. QED
      BY <1>1, <2>1, <2>2
  <1>2. ASSUME NEW c \in Clients, Send(c) \/ NextWindow(c) PROVE Active' = Active
    BY <1>2 DEF Send, NextWindow, Active
  <1>3. ASSUME NEW q \in Requests, Receive(q) PROVE Active' = Active
    BY <1>3 DEF Receive, Active
  <1>4. ASSUME NEW q \in Requests, Refuse(q) \/ AddFails(q) PROVE Active' = Active
    BY <1>4 DEF Refuse, AddFails, Active
  <1>5. ASSUME NEW q \in Requests, Refuse(q) \/ AddFails(q) \/ Add(q), IngestionTypeOK
        PROVE  Handled' \subseteq Handled
    <2>1. pc' = [pc EXCEPT ![q] = "over"] \/ pc' = pc
      BY <1>5 DEF Refuse, AddFails, Add, Answer, requestVars
    <2>2. QED
      BY <1>5, <2>1 DEF IngestionTypeOK, Handled
  <1>6. ASSUME NEW q \in Requests, Add(q), IngestionTypeOK PROVE Active' = Active
    <2>1. \A id \in Ids : job'[id] = "active" <=> job[id] = "active"
      BY <1>6 DEF Add, Added, Known
    <2>2. QED
      BY <2>1 DEF Active
  <1>7. ASSUME NEW id \in Ids, StartJob(id) \/ SettleJob(id) PROVE Handled' = Handled
    BY <1>7 DEF StartJob, SettleJob, requestVars, Handled
  <1>8. ASSUME NEW id \in Ids, SettleJob(id), IngestionTypeOK PROVE Active' \subseteq Active
    BY <1>8 DEF SettleJob, Done, IngestionTypeOK, Active
  <1>9. QED
    BY <1>1, <1>2, <1>3, <1>4, <1>5, <1>6, <1>7, <1>8

\* The reporter may open a store again, and never closes one.
LEMMA ReporterKeeps ==
    ASSUME ProcessInv, Fire \/ Report
    PROVE  ProcessInv'
  <1>1. /\ phase' = phase /\ stop' = stop /\ exit' = exit /\ ends' = ends
        /\ Handled' = Handled /\ Active' = Active /\ Stopping' = Stopping
        /\ Running' = Running
    BY DEF Fire, Report, ingestVars, requestVars, Handled, Active, Stopping, Running
  <1>2. Running /\ Opened'
    BY <1>1 DEF Fire, Report, Running, Opened, ProcessInv
  <1>3. \/ service' = service
        \/ \E x \in {"redis", "postgres"} :
              service' = [service EXCEPT ![x] = IF @ = "null" THEN "open" ELSE @]
    BY DEF Fire, Report, Fill, ReporterCalls
  <1>4. reporter' \in {"idle", "metrics", "count", "state", "build", "fill"}
    BY DEF Fire, Report, Fill, ReporterCalls
  <1>5. /\ service' \in [Services -> States]
        /\ \A y \in Services : service'[y] = service[y]
                               \/ (y \in Stores /\ service'[y] = "open")
    BY <1>3, SMT DEF ProcessInv, ProcessTypeOK, Services, States, Stores
  <1>6. "http" \in Services /\ "queues" \in Services /\ Stores \subseteq Services
        /\ "http" \notin Stores /\ "queues" \notin Stores
    BY SMT DEF Services, Stores
  <1>7. UpInv
    BY <1>2 DEF ProcessInv
  <1>8. ClosedInOrder(service)'
    BY <1>1, <1>5, <1>6, <1>7 DEF UpInv, ClosedInOrder
  <1>9. \A s \in Stops : Behind(s, service)'
    BY <1>1, <1>5, <1>6, <1>7 DEF UpInv, Behind
  <1>10. \A x \in Services : service'[x] = "closing" => \E s \in Stops : stop'[s] = x
    BY <1>1, <1>5, <1>7 DEF UpInv
  <1>11. UpInv'
    BY <1>1, <1>5, <1>6, <1>7, <1>8, <1>9, <1>10 DEF UpInv
  <1>12. QED
    BY <1>1, <1>2, <1>4, <1>5, <1>11 DEF ProcessInv, ProcessTypeOK

\* Each step of bootstrap, reporter, shutdown, handlers and jobs keeps the order in
\* which the process closes.
LEMMA NextProcessInv == IngestionInv /\ ProcessInv /\ [Next]_vars => ProcessInv'
  <1> SUFFICES ASSUME IngestionInv, ProcessInv, [Next]_vars PROVE ProcessInv'
    OBVIOUS
  <1>a. IngestionTypeOK
    BY DEF IngestionInv
  <1>1. CASE Bootstrap \/ InitPostgres \/ InitMongo
    BY <1>1, SMT
    DEF Bootstrap, InitPostgres, InitMongo, ProcessInv, ProcessTypeOK, Services, States,
        Stopping, Running, Opened, Handled, Active, ingestVars, requestVars
  <1>2. CASE RegisterRoutes
    <2>1. /\ phase' = "listen" /\ exit' = "none" /\ ends' = ends /\ stop' = stop
          /\ Stopping' = {} /\ reporter' = reporter
          /\ Handled' = {} /\ Active' = {} /\ Running'
          /\ \A x \in Services : service'[x] = "open"
          /\ service' \in [Services -> States]
      BY <1>2, SMT
      DEF RegisterRoutes, ProcessInv, ProcessTypeOK, Services, States, Opened, Stopping,
          Running, Handled, Active, ingestVars, requestVars
    <2>2. UpInv'
      BY <2>1, SMT DEF UpInv, ClosedInOrder, Behind, Services, States, Stores, Stopping
    <2>3. QED
      BY <1>2, <2>1, <2>2, SMT DEF RegisterRoutes, ProcessInv, ProcessTypeOK, Opened
  <1>3. CASE Listen
    <2>1. /\ phase = "listen" /\ phase' = "up" /\ Running /\ Running' /\ Opened'
          /\ UNCHANGED <<service, stop, reporter, exit, ends>>
          /\ Stopping' = Stopping /\ Handled' = Handled /\ Active' = Active
      BY <1>3
      DEF Listen, Running, Opened, Stopping, Handled, Active, ingestVars, requestVars
    <2>2. UpInv'
      BY <2>1 DEF ProcessInv, UpInv, ClosedInOrder, Behind
    <2>3. QED
      BY <2>1, <2>2 DEF ProcessInv, ProcessTypeOK
  <1>4. CASE BootstrapFails \/ ListenFails
    BY <1>4, ExitFacts DEF BootstrapFails, ListenFails
  <1>5. ASSUME NEW s \in Stops, CloseFails(s) PROVE ProcessInv'
    BY <1>5, CloseFailsKeeps
  <1>6. CASE Kill
    <2>1. Exit("killed") /\ ends < MaxEnds
      BY <1>6 DEF Kill
    <2>2. QED
      BY <2>1, ExitFacts
  <1>7. CASE Fire \/ Report
    BY <1>7, ReporterKeeps
  <1>8. CASE ReportFails
    BY <1>8, SMT
    DEF ReportFails, ReporterRejects, requestVars, ProcessInv, ProcessTypeOK, UpInv,
        ClosedInOrder, Behind, Stopping, Running, Opened, Handled, Active
  <1>9. ASSUME NEW s \in Stops, Stop(s) \/ Closed(s) PROVE ProcessInv'
    BY <1>9, ShutdownKeeps
  <1>10. ASSUME NEW c \in Clients, Send(c) \/ NextWindow(c), UNCHANGED serverVars
        PROVE  ProcessInv'
    BY <1>10, <1>a, WorkFacts, IngestionKeeps
  <1>11. ASSUME NEW q \in Requests, HandlerStep(q) PROVE ProcessInv'
    BY <1>11, <1>a, WorkFacts, IngestionKeeps DEF HandlerStep
  <1>12. ASSUME NEW q \in Requests, AddFails(q), UNCHANGED serverVars PROVE ProcessInv'
    BY <1>12, <1>a, WorkFacts, IngestionKeeps
  <1>13. ASSUME NEW id \in Ids, JobStep(id) PROVE ProcessInv'
    BY <1>13, <1>a, WorkFacts, IngestionKeeps DEF JobStep
  <1>14. CASE UNCHANGED vars
    <2>1. UNCHANGED serverVars /\ Handled' = Handled /\ Active' = Active
      BY <1>14 DEF vars, ingestVars, requestVars, Handled, Active
    <2>2. QED
      BY <2>1, IngestionKeeps
  <1>15. QED
    BY <1>1, <1>2, <1>3, <1>4, <1>5, <1>6, <1>7, <1>8, <1>9, <1>10, <1>11, <1>12, <1>13,
       <1>14
    DEF Next, Boot

-----------------------------------------------------------------------------
(* What follows from the order.                                            *)

LEMMA ProcessCorrect == Spec => [](IngestionInv /\ ProcessInv)
  BY InitIngestionInv, NextIngestionInv, NextIsIngestionStep, InitProcessInv,
     NextProcessInv, PTL DEF Spec

\* Type correctness, and that nothing of a process is left when it has ended.
THEOREM TypeCorrect == Spec => []TypeOK
  <1>1. IngestionInv /\ ProcessInv => TypeOK
    BY DEF IngestionInv, ProcessInv, ProcessTypeOK, States, Running, TypeOK
  <1>2. QED
    BY <1>1, ProcessCorrect, PTL

\* No job runs without the stores its handler uses, and no handler without the queue,
\* whatever the signals and the reporter do.
THEOREM StoresCorrect == Spec => []StoresOpenWhileUsed
  <1>1. IngestionInv /\ ProcessInv => StoresOpenWhileUsed
    <2> SUFFICES ASSUME ProcessInv PROVE StoresOpenWhileUsed
      OBVIOUS
    <2>1. CASE ~Running
      BY <2>1 DEF ProcessInv, Running, StoresOpenWhileUsed
    <2>2. CASE Running
      BY <2>2 DEF ProcessInv, UpInv, ClosedInOrder, Stores, StoresOpenWhileUsed
    <2>3. QED
      BY <2>1, <2>2
  <1>2. QED
    BY <1>1, ProcessCorrect, PTL

\* What ends a process that is through with its bootstrap.
LEMMA EndsOfRunning ==
    ASSUME [Next]_vars, Running, phase' = "down" \/ exit' # exit
    PROVE  \/ \E s \in Stops : Stop(s) \/ Closed(s) \/ CloseFails(s)
           \/ ListenFails
           \/ Kill
  <1>1. phase \in {"listen", "up"} /\ phase \notin {"down", "postgres", "mongo", "routes"}
    BY DEF Running
  <1>2. ~Boot /\ ~BootstrapFails
    BY <1>1 DEF Boot, Bootstrap, InitPostgres, InitMongo, RegisterRoutes, Listen,
                BootstrapFails
  <1>3. ~Fire /\ ~Report /\ ~ReportFails
    BY <1>1 DEF Fire, Report, ReportFails, ReporterRejects
  <1>4. ~ UNCHANGED serverVars
    BY <1>1 DEF serverVars
  <1>5. QED
    BY <1>2, <1>3, <1>4 DEF Next, HandlerStep, JobStep, vars

\* "SIGTERM handler drains in-flight jobs", however many signals there are, unless it is
\* the listen, or the close of the port or of the queues, that fails.
THEOREM DrainCorrect == Spec => NothingCutOff
  <1>1. ASSUME IngestionInv, ProcessInv, [Next]_vars,
               phase # "down", phase' = "down", exit' # "killed"
        PROVE  \/ Handled = {} /\ Active = {}
               \/ ListenFails
               \/ \E s \in Stops : stop[s] \in {"http", "queues"} /\ CloseFails(s)
    <2>1. CASE ~Running
      BY <1>1, <2>1 DEF ProcessInv, Running
    <2>2. CASE Running
      <3>1. ~Kill
        BY <1>1 DEF Kill, Exit
      <3>2. CASE \E s \in Stops : Stop(s) \/ Closed(s)
        BY <1>1, <3>2, ShutdownKeeps
      <3>3. CASE \E s \in Stops : CloseFails(s)
        BY <1>1, <3>3, CloseFailsKeeps
      <3>4. QED
        BY <1>1, <2>2, <3>1, <3>2, <3>3, EndsOfRunning
    <2>3. QED
      BY <2>1, <2>2
  <1>2. IngestionInv /\ ProcessInv /\ [Next]_vars =>
          [phase # "down" /\ phase' = "down" /\ exit' # "killed" =>
             \/ Handled = {} /\ Active = {}
             \/ ListenFails
             \/ \E s \in Stops : stop[s] \in {"http", "queues"} /\ CloseFails(s)]_vars
    BY <1>1
  <1>3. QED
    BY <1>2, ProcessCorrect, PTL DEF Spec, NothingCutOff

\* One signal ends a running process with 0, whatever else happens: it takes a second one
\* to make it 1, or a call of index.ts that fails.
THEOREM ExitCorrect == Spec => OneSignalExitsClean
  <1>1. ASSUME IngestionInv, ProcessInv, [Next]_vars, Running, exit' = "1"
        PROVE  \/ Cardinality(Stopping) > 1
               \/ Stopping # {} /\ \E s \in Stops : Stop(s)
               \/ ListenFails \/ \E s \in Stops : CloseFails(s)
    <2>1. exit = "none"
      BY <1>1 DEF ProcessInv, Running
    <2>2. \/ \E s \in Stops : Stop(s) \/ Closed(s) \/ CloseFails(s)
          \/ ListenFails \/ Kill
      BY <1>1, <2>1, EndsOfRunning
    <2>3. ~Kill
      BY <1>1 DEF Kill, Exit
    <2>4. ASSUME NEW s \in Stops, Stop(s) \/ Closed(s)
          PROVE  \/ Cardinality(Stopping) > 1
                 \/ Stopping # {} /\ Stop(s)
      <3>1. PICK t \in Stops : t # s /\ t \in Stopping
        BY <1>1, <2>4, ShutdownKeeps
      <3>2. CASE Stop(s)
        BY <3>1, <3>2
      <3>3. CASE Closed(s)
        <4>1. s \in Stopping
          BY <3>3 DEF Closed, Stopping
        <4>2. IsFiniteSet(Stopping)
          BY StopsAssumption, FS_Subset DEF StopsAssumption, Stopping
        <4>3. Cardinality(Stopping) \in Nat
          BY <4>2, FS_CardinalityType
        <4>4. Cardinality(Stopping) # 0
          BY <4>1, <4>2, FS_EmptySet
        <4>5. Cardinality(Stopping) # 1
          BY <4>1, <4>2, <3>1, FS_Singleton
        <4>6. QED
          BY <4>3, <4>4, <4>5, SMT
      <3>4. QED
        BY <2>4, <3>2, <3>3
    <2>5. QED
      BY <2>2, <2>3, <2>4
  <1>2. IngestionInv /\ ProcessInv /\ [Next]_vars =>
          [Running /\ exit' = "1" =>
             \/ Cardinality(Stopping) > 1
             \/ Stopping # {} /\ \E s \in Stops : Stop(s)
             \/ ListenFails \/ \E s \in Stops : CloseFails(s)]_vars
    BY <1>1
  <1>3. QED
    BY <1>2, ProcessCorrect, PTL DEF Spec, OneSignalExitsClean

LEMMA IdsFinite == IsFiniteSet(Ids)
  <1>1. MaxSends \in Int /\ BatchSize \in Int /\ 1 \in Int
    BY SizesAssumption DEF SizesAssumption
  <1>2. IsFiniteSet(1..MaxSends) /\ IsFiniteSet(1..BatchSize)
    BY <1>1, FS_Interval
  <1>3. IsFiniteSet(Requests)
    BY <1>2, PayloadsAssumption, FS_Product DEF PayloadsAssumption, Requests
  <1>4. QED
    BY <1>2, <1>3, FS_Product DEF Ids

\* "jobId = signal_id makes this idempotent": a job that was done is not run again while
\* the queue remembers it, and it remembers at least the last Keep.
THEOREM DoneOnceCorrect == Spec => DoneOnce
  <1> DEFINE Others(id) == {jd \in Ids \ {id} : job'[jd] = "done"}
  <1>1. ASSUME IngestionInv, IngestionStep, NEW id \in Done
        PROVE  \/ job'[id] = "done"
               \/ job'[id] = "forgotten" /\ Cardinality(Others(id)) >= Keep
    <2>a. id \in Ids /\ job[id] = "done" /\ IngestionTypeOK
      BY <1>1 DEF Done, IngestionInv
    <2>1. CASE job' = job
      BY <2>a, <2>1
    <2>2. CASE Abandon
      BY <2>a, <2>2 DEF Abandon, Known
    <2>3. ASSUME NEW q \in Requests, Add(q) PROVE job'[id] = "done"
      BY <2>a, <2>3 DEF Add, Added, Known
    <2>4. ASSUME NEW jd \in Ids, StartJob(jd) PROVE job'[id] = "done"
      BY <2>a, <2>4 DEF StartJob, IngestionTypeOK
    <2>5. ASSUME NEW jd \in Ids, SettleJob(jd)
          PROVE  \/ job'[id] = "done"
                 \/ job'[id] = "forgotten" /\ Cardinality(Others(id)) >= Keep
      <3>1. CASE job' = [job EXCEPT ![jd] = "done"]
        BY <2>a, <3>1 DEF IngestionTypeOK
      <3>2. CASE /\ Cardinality(Done) >= Keep
                 /\ \E gone \in Done : job' = [job EXCEPT ![jd] = "done", ![gone] = "forgotten"]
        <4>1. PICK gone \in Done : job' = [job EXCEPT ![jd] = "done", ![gone] = "forgotten"]
          BY <3>2
        <4>2. jd \notin Done /\ job[jd] = "active" /\ gone \in Ids
          BY <2>5 DEF SettleJob, Done
        <4>3. \A x \in Ids : job'[x] = IF x = gone THEN "forgotten"
                                       ELSE IF x = jd THEN "done" ELSE job[x]
          BY <2>a, <4>1, <4>2 DEF IngestionTypeOK
        <4>4. CASE id # gone
          BY <2>a, <4>3, <4>4
        <4>5. CASE id = gone
          <5>1. Others(id) = (Done \ {id}) \cup {jd}
            BY <2>a, <4>2, <4>3, <4>5 DEF Done
          <5>2. IsFiniteSet(Done)
            BY IdsFinite, FS_Subset DEF Done
          <5>3. IsFiniteSet(Done \ {id}) /\ Cardinality(Done \ {id}) = Cardinality(Done) - 1
            BY <1>1, <5>2, FS_RemoveElement
          <5>4. jd \notin Done \ {id}
            BY <4>2
          <5>5. Cardinality((Done \ {id}) \cup {jd}) = Cardinality(Done \ {id}) + 1
            BY <5>3, <5>4, FS_AddElement
          <5>6. Cardinality(Done) \in Nat
            BY <5>2, FS_CardinalityType
          <5>7. Cardinality(Others(id)) = Cardinality(Done)
            <6> HIDE DEF Others
            <6>1. QED
              BY <5>1, <5>3, <5>5, <5>6, SMT
          <5>8. QED
            BY <2>a, <3>2, <4>3, <4>5, <5>7
        <4>6. QED
          BY <4>4, <4>5
      <3>3. QED
        BY <2>5, <3>1, <3>2 DEF SettleJob
    <2>6. QED
      BY <1>1, <2>1, <2>2, <2>3, <2>4, <2>5
      DEF IngestionStep, ingestVars, Send, NextWindow, Receive, AddFails, Refuse
  <1>2. IngestionInv /\ [Next]_vars =>
          [\A id \in Done : \/ job'[id] = "done"
                            \/ job'[id] = "forgotten" /\ Cardinality(Others(id)) >= Keep]_job
    BY <1>1, NextIsIngestionStep
  <1>3. QED
    BY <1>2, ProcessCorrect, PTL DEF Spec, DoneOnce
=============================================================================
