------------------------------- MODULE KVPull -------------------------------
(***************************************************************************)
(* How the vLLM connector moves a request from its prefill ranks to its    *)
(* decode ranks.                                                           *)
(*                                                                         *)
(* A prefill rank keeps the blocks of a finished request until the decode  *)
(* side says DONE, or a timeout passes (task_tracker.py, and               *)
(* KVCacheSendingThread, which counts the DONEs). A decode rank splits a   *)
(* request into pulls, one for each prefill port it needs (the plan, see   *)
(* PullPlan); its receiving thread hands them to one handler for each port *)
(* (KVCacheRecvingThread); the last pull to end puts the heads in order    *)
(* and reports the request. The two sides only share the DONE messages.    *)
(*                                                                         *)
(* Left out: the fetch of the peer's metadata and the connection, which    *)
(* only add ways for a pull to fail; sockets and acknowledgements, for an  *)
(* answer that does not come is only logged.                               *)
(***************************************************************************)
EXTENDS Integers, Sequences, FiniteSets

CONSTANTS
    Setups,             \* the deployments that are examined, see SetupType
    MaxPerHandler       \* MAX_REQUESTS_PER_PEER_HANDLER

VARIABLES
    setup,
    \* the prefill side, for each port
    process,            \* reqs_to_process
    finished,           \* finished_requests
    delayed,            \* delayed_free_requests, oldest first by number
    sendNum,            \* port_send_num
    untold,             \* requests_to_send on the way to the worker
    reported,           \* how often the worker reported a request as sent
    prefilled,          \* the requests that are prefilled: 1..prefilled
    expired,            \* requests some worker gave up
    \* the decode side, for each rank
    started,            \* requests whose pulls are queued
    queue,              \* request_queue
    hand,               \* what run() took and has not submitted yet
    counts,             \* request_task_counts
    markers,            \* finished_request_markers
    peerQueue,          \* peer_request_queues, for each port
    handler,            \* the handler of each port
    failed,             \* failed_recv_requests
    invalid,            \* invalid_block_ids
    pending,            \* pending_reformat: by request and shard, the stage
    processD, finishedD,    \* the tracker of the decode rank
    zeroSent,           \* proc_not_transfer_request, requests with entry False
    reportedD,          \* requests reported as received
    errors,             \* block ids reported as not loaded
    asked,              \* get_finished was called, the errors come next
    engine,             \* "up", "stopping" or "down"
    \* between them
    net,                \* DONE messages
    reading,            \* reads the engine has in flight
    pulled, formatted,  \* what has arrived, and been put in order
    faults              \* faults left

prefillVars == <<process, finished, delayed, sendNum, untold, reported, expired>>
taskVars == <<counts, markers>>
trackVars == <<processD, finishedD, reportedD>>
failVars == <<failed, invalid, errors, asked>>
dataVars == <<pulled, formatted, pending>>
queueVars == <<started, queue, hand>>
peerVars == <<peerQueue, handler>>
vars == <<setup, prefillVars, prefilled, taskVars, trackVars, failVars, dataVars,
          queueVars, peerVars, zeroSent, engine, net, reading, faults>>

Requests == 1..setup.requests

Tasks(d) == setup.tasks[d]

\* A pull of the plan of a decode rank, for one request.
Job(d, r, i) == [rank |-> d, req |-> r, i |-> i]

TaskOf(j) == Tasks(j.rank)[j.i]

\* The block ids of a request as the pull knows them: kernel blocks.
KernelBlockIds(r) == (r * setup.scale)..(r * setup.scale + setup.scale - 1)

NoJob == [rank |-> 0, req |-> 0, i |-> 0]

\* A handler is idle, waits for the executor, or works on a job.
Idle == [at |-> "idle", job |-> NoJob, handled |-> 0]
Submitted == [at |-> "submitted", job |-> NoJob, handled |-> 0]
AtWork(at, j, n) == [at |-> at, job |-> j, handled |-> n]

SetupType(s) ==
    /\ s.requests \in Nat
    /\ s.delayed \subseteq s.ports
    /\ s.tasks \in [s.ranks -> Seq([port : s.ports, shard : Nat, stage : Nat, ends : BOOLEAN])]
    /\ s.expect \in [s.ports -> Nat]
    /\ s.counted \in BOOLEAN /\ s.expires \in BOOLEAN /\ s.stops \in BOOLEAN
    /\ s.told \in BOOLEAN
    /\ s.scale \in Nat /\ s.faults \in Nat

\* Only ports that delay a request are sent DONEs: the two sides choose the
\* same ranks, and a port that is told it expects nothing delays as well.
Agrees(s) ==
    /\ \A d \in s.ranks : \A i \in 1..Len(s.tasks[d]) : s.tasks[d][i].port \in s.delayed
    /\ s.counted \/ s.told => s.delayed = s.ports

ASSUME SetupsAssumption == \A s \in Setups : SetupType(s) /\ Agrees(s)

ASSUME MaxPerHandlerAssumption == MaxPerHandler \in Nat \ {0}

\* Nothing has happened yet, or every prefill worker has its requests and waits
\* for the DONEs.
Init ==
    /\ setup \in Setups
    /\ process = [p \in setup.ports |-> IF setup.told THEN Requests ELSE {}]
    /\ finished = [p \in setup.ports |-> {}]
    /\ delayed = process
    /\ sendNum = [p \in setup.ports |-> [r \in Requests |-> 0]]
    /\ untold = [p \in setup.ports |-> {}]
    /\ reported = [p \in setup.ports |-> [r \in Requests |-> 0]]
    /\ prefilled = IF setup.told THEN setup.requests ELSE 0
    /\ expired = {}
    /\ started = [d \in setup.ranks |-> {}]
    /\ queue = [d \in setup.ranks |-> <<>>]
    /\ hand = [d \in setup.ranks |-> NoJob]
    /\ counts = [d \in setup.ranks |-> [r \in Requests |-> 0]]
    /\ markers = [d \in setup.ranks |-> {}]
    /\ peerQueue = [d \in setup.ranks |-> [p \in setup.ports |-> <<>>]]
    /\ handler = [d \in setup.ranks |-> [p \in setup.ports |-> Idle]]
    /\ failed = [d \in setup.ranks |-> {}]
    /\ invalid = [d \in setup.ranks |-> {}]
    /\ pending = [d \in setup.ranks |-> {}]
    /\ processD = [d \in setup.ranks |-> {}]
    /\ finishedD = [d \in setup.ranks |-> {}]
    /\ zeroSent = [d \in setup.ranks |-> {}]
    /\ reportedD = [d \in setup.ranks |-> {}]
    /\ errors = [d \in setup.ranks |-> {}]
    /\ asked = [d \in setup.ranks |-> FALSE]
    /\ engine = [d \in setup.ranks |-> "up"]
    /\ net = {}
    /\ reading = {}
    /\ pulled = {}
    /\ formatted = {}
    /\ faults = setup.faults

-----------------------------------------------------------------------------
(* The prefill side.                                                       *)

\* Every worker adds the request to reqs_to_process when it is scheduled, the
\* prefill runs, request_finished delays the blocks and answers with what the
\* decode side needs.
Prefill ==
    /\ prefilled < setup.requests
    /\ prefilled' = prefilled + 1
    /\ process' = [p \in setup.ports |-> process[p] \cup {prefilled + 1}]
    /\ untold' = [p \in setup.ports |-> untold[p] \cup {prefilled + 1}]
    /\ UNCHANGED <<setup, finished, delayed, sendNum, reported, expired, taskVars, trackVars,
                   failVars, dataVars, queueVars, peerVars, zeroSent, engine, net, reading,
                   faults>>

\* Mutant: the worker does not note when it started to wait.
StartSendUntimed(p) ==
    /\ untold[p] # {}
    /\ IF p \in setup.delayed
       THEN UNCHANGED <<process, finished, delayed>>
       ELSE /\ finished' = [finished EXCEPT ![p] = @ \cup untold[p]]
            /\ process' = [process EXCEPT ![p] = @ \ untold[p]]
            /\ UNCHANGED delayed
    /\ untold' = [untold EXCEPT ![p] = {}]
    /\ UNCHANGED <<setup, sendNum, reported, prefilled, expired, taskVars, trackVars, failVars,
                   dataVars, queueVars, peerVars, zeroSent, engine, net, reading, faults>>

\* start_load_kv with requests_to_send, in the step after request_finished:
\* the DONEs may be there already.
StartSend(p) ==
    /\ untold[p] # {}
    /\ IF p \in setup.delayed
       THEN /\ delayed' = [delayed EXCEPT ![p] = @ \cup (untold[p] \cap process[p])]
            /\ UNCHANGED <<process, finished>>
       ELSE /\ finished' = [finished EXCEPT ![p] = @ \cup untold[p]]
            /\ process' = [process EXCEPT ![p] = @ \ untold[p]]
            /\ UNCHANGED delayed
    /\ untold' = [untold EXCEPT ![p] = {}]
    /\ UNCHANGED <<setup, sendNum, reported, prefilled, expired, taskVars, trackVars, failVars,
                   dataVars, queueVars, peerVars, zeroSent, engine, net, reading, faults>>

\* Mutant: a DONE finishes a request that is not being processed any more.
UpdateDoneUnguarded(p, r) ==
    /\ finished' = [finished EXCEPT ![p] = @ \cup {r}]
    /\ process' = [process EXCEPT ![p] = @ \ {r}]
    /\ delayed' = [delayed EXCEPT ![p] = @ \ {r}]

\* update_done_task_count of the prefill side.
UpdateDoneTaskCount(p, r) ==
    /\ finished' = [finished EXCEPT ![p] = IF r \in process[p] THEN @ \cup {r} ELSE @]
    /\ process' = [process EXCEPT ![p] = @ \ {r}]
    /\ delayed' = [delayed EXCEPT ![p] = @ \ {r}]

\* run_busy_loop gets a DONE: with a map of expected counts it counts, without
\* one the first DONE finishes the request.
RecvDone(m) ==
    LET p == m.port
        r == m.job.req
        complete == ~setup.counted \/ sendNum[p][r] + 1 >= setup.expect[p]
    IN  /\ net' = net \ {m}
        /\ sendNum' = [sendNum EXCEPT ![p][r] = IF complete THEN 0 ELSE @ + 1]
        /\ IF complete THEN UpdateDoneTaskCount(p, r)
           ELSE UNCHANGED <<finished, process, delayed>>
        /\ UNCHANGED <<setup, untold, reported, prefilled, expired, taskVars, trackVars,
                       failVars, dataVars, queueVars, peerVars, zeroSent, engine, reading,
                       faults>>

\* get_finished of a prefill worker: what is finished, and what has been
\* delayed too long, oldest first (all up to request m).
GetFinished(p, m) ==
    LET old == {r \in delayed[p] : r <= m}
        all == finished[p] \cup old
    IN  /\ all # {}
        /\ old # {} => setup.expires
        /\ delayed' = [delayed EXCEPT ![p] = @ \ old]
        /\ process' = [process EXCEPT ![p] = @ \ old]
        /\ expired' = expired \cup old
        /\ reported' = [reported EXCEPT ![p] =
                          [r \in Requests |-> IF r \in all THEN @[r] + 1 ELSE @[r]]]
        /\ finished' = [finished EXCEPT ![p] = {}]
        /\ UNCHANGED <<setup, sendNum, untold, prefilled, taskVars, trackVars, failVars, dataVars,
                       queueVars, peerVars, zeroSent, engine, net, reading, faults>>

\* The scheduler frees the blocks when every worker has reported the request.
Freed(r) == \A p \in setup.ports : reported[p][r] > 0

\* A DONE is lost; the decode side only logs that no answer came.
Lose(m) ==
    /\ faults > 0
    /\ faults' = faults - 1
    /\ net' = net \ {m}
    /\ UNCHANGED <<setup, prefillVars, prefilled, taskVars, trackVars, failVars, dataVars,
                   queueVars, peerVars, zeroSent, engine, reading>>

-----------------------------------------------------------------------------
(* The decode side.                                                        *)

\* The scheduler of the decode side has the answer of the prefill side and has
\* blocks allocated; a request is given to the workers once.
NeedsRecv(d, r) == r <= prefilled /\ r \notin started[d]

\* start_load_kv: the request is tracked and its pulls are queued.
StartLoad(d, r) ==
    /\ NeedsRecv(d, r)
    /\ engine[d] = "up" /\ ~asked[d]
    /\ started' = [started EXCEPT ![d] = @ \cup {r}]
    /\ processD' = [processD EXCEPT ![d] = @ \cup {r}]
    /\ queue' = [queue EXCEPT ![d] = @ \o [i \in 1..Len(Tasks(d)) |-> Job(d, r, i)]]
    /\ UNCHANGED <<setup, prefillVars, prefilled, taskVars, finishedD, reportedD, failVars,
                   dataVars, hand, peerVars, zeroSent, engine, net, reading, faults>>

\* run() takes a pull; it looks at _stopped only between two of them.
Take(d) ==
    /\ queue[d] # <<>> /\ hand[d] = NoJob /\ engine[d] = "up"
    /\ hand' = [hand EXCEPT ![d] = Head(queue[d])]
    /\ queue' = [queue EXCEPT ![d] = Tail(@)]
    /\ UNCHANGED <<setup, prefillVars, prefilled, taskVars, trackVars, failVars, dataVars,
                   started, peerVars, zeroSent, engine, net, reading, faults>>

\* _submit_request: count the task, append it to the queue of its peer, start
\* a handler if there is none. A stopped executor refuses the handler, and
\* run() only logs that; the peer stays marked active.
Submit(d) ==
    /\ hand[d] # NoJob
    /\ LET j == hand[d]
           p == TaskOf(j).port
       IN  /\ counts' = [counts EXCEPT ![d][j.req] = @ + 1]
           /\ markers' = [markers EXCEPT ![d] =
                            IF j.i = Len(Tasks(d)) THEN @ \cup {j.req} ELSE @]
           /\ peerQueue' = [peerQueue EXCEPT ![d][p] = Append(@, j)]
           /\ handler' = [handler EXCEPT ![d][p] =
                            IF @ # Idle THEN @
                            ELSE IF engine[d] = "up" THEN Submitted
                            ELSE AtWork("refused", NoJob, 0)]
    /\ hand' = [hand EXCEPT ![d] = NoJob]
    /\ UNCHANGED <<setup, prefillVars, prefilled, trackVars, failVars, dataVars, started, queue,
                   zeroSent, engine, net, reading, faults>>


\* _mark_failed_recv_request
MarkFailed(d, r) ==
    /\ failed' = [failed EXCEPT ![d] = @ \cup {r}]
    /\ invalid' = [invalid EXCEPT ![d] = @ \cup KernelBlockIds(r)]

\* A handler takes the next job of its peer. When there is none it retires;
\* after MaxPerHandler jobs it submits itself again, which a stopped executor
\* refuses.
NextJob(d, p) ==
    LET h == handler[d][p]
    IN  /\ h.at \in {"submitted", "next"}
        /\ \/ /\ peerQueue[d][p] = <<>>
              /\ handler' = [handler EXCEPT ![d][p] = Idle]
              /\ UNCHANGED peerQueue
           \/ /\ peerQueue[d][p] # <<>> /\ h.handled = MaxPerHandler
              /\ handler' = [handler EXCEPT ![d][p] =
                               IF engine[d] = "up" THEN Submitted
                               ELSE AtWork("refused", NoJob, 0)]
              /\ UNCHANGED peerQueue
           \/ /\ peerQueue[d][p] # <<>> /\ h.handled < MaxPerHandler
              /\ handler' = [handler EXCEPT ![d][p] =
                               AtWork("begin", Head(peerQueue[d][p]), h.handled + 1)]
              /\ peerQueue' = [peerQueue EXCEPT ![d][p] = Tail(@)]
        /\ UNCHANGED <<setup, prefillVars, prefilled, taskVars, trackVars, failVars, dataVars,
                       queueVars, zeroSent, engine, net, reading, faults>>

\* _handle_request: a request that already failed is skipped, another is read.
BeginPull(d, p) ==
    LET h == handler[d][p]
        r == h.job.req
    IN  /\ h.at = "begin"
        /\ \/ /\ r \in failed[d]
              /\ MarkFailed(d, r)
              /\ handler' = [handler EXCEPT ![d][p].at = "ended"]
              /\ UNCHANGED reading
           \/ /\ r \notin failed[d]
              /\ reading' = reading \cup {h.job}
              /\ handler' = [handler EXCEPT ![d][p].at = "reading"]
              /\ UNCHANGED <<failed, invalid>>
        /\ UNCHANGED <<setup, prefillVars, prefilled, taskVars, trackVars, errors, asked,
                       dataVars, queueVars, peerQueue, zeroSent, engine, net, faults>>

\* sync_read returns, and the pull that completes the heads of its shard leaves
\* word that they are to be put in order: the entry of the shard is replaced.
EndRead(d, p) ==
    LET h == handler[d][p]
        t == TaskOf(h.job)
    IN  /\ h.at = "reading"
        /\ reading' = reading \ {h.job}
        /\ pulled' = pulled \cup {h.job}
        /\ pending' = [pending EXCEPT ![d] =
                         IF t.ends
                         THEN {e \in @ : ~(e.req = h.job.req /\ e.shard = t.shard)}
                                \cup {[req |-> h.job.req, shard |-> t.shard, stage |-> t.stage]}
                         ELSE @]
        /\ handler' = [handler EXCEPT ![d][p].at = "ended"]
        /\ UNCHANGED <<setup, prefillVars, prefilled, taskVars, trackVars, failVars, formatted,
                       queueVars, peerQueue, zeroSent, engine, net, faults>>

\* A handler waits for the read.
Awaited(j) ==
    LET h == handler[j.rank][TaskOf(j).port] IN h.at = "reading" /\ h.job = j

\* The read ends with an error, or is still waiting at the hard deadline and
\* abandoned: then the engine goes on with it.
FailRead(d, p) ==
    LET h == handler[d][p]
    IN  /\ h.at = "reading"
        /\ faults > 0
        /\ faults' = faults - 1
        /\ reading' \in {reading \ {h.job}, reading}
        /\ MarkFailed(d, h.job.req)
        /\ handler' = [handler EXCEPT ![d][p].at = "ended"]
        /\ UNCHANGED <<setup, prefillVars, prefilled, taskVars, trackVars, errors, asked,
                       dataVars, queueVars, peerQueue, zeroSent, engine, net>>

\* An abandoned read ends at last; its data may have landed.
LateRead(j) ==
    /\ j \in reading /\ ~Awaited(j)
    /\ reading' = reading \ {j}
    /\ UNCHANGED <<setup, prefillVars, prefilled, taskVars, trackVars, failVars, dataVars,
                   queueVars, peerVars, zeroSent, engine, net, faults>>


\* _mark_request_task_done: the pull that brings the count to zero when the
\* last pull of the request has been submitted concludes the request.
TaskDone(d, p) ==
    LET h == handler[d][p]
        r == h.job.req
        concludes == counts[d][r] = 1 /\ r \in markers[d]
    IN  /\ h.at = "ended"
        /\ counts' = [counts EXCEPT ![d][r] = @ - 1]
        /\ markers' = [markers EXCEPT ![d] = IF concludes THEN @ \ {r} ELSE @]
        /\ handler' = [handler EXCEPT ![d][p].at = IF concludes THEN "all" ELSE "signal"]
        /\ UNCHANGED <<setup, prefillVars, prefilled, trackVars, failVars, dataVars, queueVars,
                       peerQueue, zeroSent, engine, net, reading, faults>>

\* The heads of a request that did not fail are put in order, which may itself
\* fail; what a failed one left is dropped.
Reformat(d, p) ==
    LET h == handler[d][p]
        r == h.job.req
        left == {e \in pending[d] : e.req = r}
    IN  /\ h.at = "all"
        /\ pending' = [pending EXCEPT ![d] = @ \ left]
        /\ \/ /\ r \in failed[d]
              /\ UNCHANGED <<formatted, failed, invalid, faults>>
           \/ /\ r \notin failed[d]
              /\ formatted' = formatted \cup {<<d, e>> : e \in left}
              /\ UNCHANGED <<failed, invalid, faults>>
           \/ /\ r \notin failed[d] /\ left # {} /\ faults > 0
              /\ faults' = faults - 1
              /\ MarkFailed(d, r)
              /\ UNCHANGED formatted
        /\ handler' = [handler EXCEPT ![d][p].at = "report"]
        /\ UNCHANGED <<setup, prefillVars, prefilled, taskVars, trackVars, errors, asked, pulled,
                       queueVars, peerQueue, zeroSent, engine, net, reading>>

\* The request is finished on this rank, and forgotten.
Report(d, p) ==
    LET h == handler[d][p]
        r == h.job.req
    IN  /\ h.at = "report"
        /\ finishedD' = [finishedD EXCEPT ![d] = IF r \in processD[d] THEN @ \cup {r} ELSE @]
        /\ processD' = [processD EXCEPT ![d] = @ \ {r}]
        /\ zeroSent' = [zeroSent EXCEPT ![d] = @ \ {r}]
        /\ failed' = [failed EXCEPT ![d] = @ \ {r}]
        /\ handler' = [handler EXCEPT ![d][p].at = "signal"]
        /\ UNCHANGED <<setup, prefillVars, prefilled, taskVars, reportedD, invalid, errors,
                       asked, dataVars, queueVars, peerQueue, engine, net, reading, faults>>

\* The first rank tells the ports that nobody pulls from; then the port of the
\* pull is told, whatever became of the pull.
Signal(d, p) ==
    LET h == handler[d][p]
        zeros == IF setup.counted /\ d = 0 /\ h.job.req \notin zeroSent[d]
                 THEN {q \in setup.ports : setup.expect[q] = 0} ELSE {}
    IN  /\ h.at = "signal"
        /\ net' = net \cup {[port |-> q, job |-> h.job] : q \in zeros \cup {p}}
        /\ zeroSent' = [zeroSent EXCEPT ![d] =
                          IF setup.counted /\ d = 0 THEN @ \cup {h.job.req} ELSE @]
        /\ handler' = [handler EXCEPT ![d][p] = AtWork("next", NoJob, h.handled)]
        /\ UNCHANGED <<setup, prefillVars, prefilled, taskVars, trackVars, failVars, dataVars,
                       queueVars, peerQueue, engine, reading, faults>>

\* get_finished of a decode worker; the errors are asked for after it.
GetFinishedD(d) ==
    /\ finishedD[d] # {} /\ ~asked[d] /\ engine[d] = "up"
    /\ reportedD' = [reportedD EXCEPT ![d] = @ \cup finishedD[d]]
    /\ finishedD' = [finishedD EXCEPT ![d] = {}]
    /\ asked' = [asked EXCEPT ![d] = TRUE]
    /\ UNCHANGED <<setup, prefillVars, prefilled, taskVars, processD, failed, invalid, errors,
                   dataVars, queueVars, peerVars, zeroSent, engine, net, reading, faults>>

\* get_block_ids_with_load_errors
GetLoadErrors(d) ==
    /\ asked[d]
    /\ errors' = [errors EXCEPT ![d] = @ \cup invalid[d]]
    /\ invalid' = [invalid EXCEPT ![d] = {}]
    /\ asked' = [asked EXCEPT ![d] = FALSE]
    /\ UNCHANGED <<setup, prefillVars, prefilled, taskVars, trackVars, failed, dataVars,
                   queueVars, peerVars, zeroSent, engine, net, reading, faults>>

\* shutdown of a decode worker: dispatching stops and the executor takes no
\* more handlers,
Stop(d) ==
    /\ setup.stops /\ engine[d] = "up" /\ ~asked[d]
    /\ engine' = [engine EXCEPT ![d] = "stopping"]
    /\ UNCHANGED <<setup, prefillVars, prefilled, taskVars, trackVars, failVars, dataVars,
                   queueVars, peerVars, zeroSent, net, reading, faults>>

\* the handlers it has are waited for,
Drained(d) ==
    \A p \in setup.ports : handler[d][p].at \in {"idle", "refused"}

\* and the engine is finalized.
Finalize(d) ==
    /\ engine[d] = "stopping" /\ Drained(d)
    /\ engine' = [engine EXCEPT ![d] = "down"]
    /\ UNCHANGED <<setup, prefillVars, prefilled, taskVars, trackVars, failVars, dataVars,
                   queueVars, peerVars, zeroSent, net, reading, faults>>

Next ==
    \/ Prefill
    \/ \E p \in setup.ports : StartSend(p) \/ \E m \in 0..setup.requests : GetFinished(p, m)
    \/ \E m \in net : RecvDone(m) \/ Lose(m)
    \/ \E j \in reading : LateRead(j)
    \/ \E d \in setup.ranks :
          \/ \E r \in Requests : StartLoad(d, r)
          \/ Take(d) \/ Submit(d) \/ GetFinishedD(d) \/ GetLoadErrors(d) \/ Stop(d) \/ Finalize(d)
          \/ \E p \in setup.ports :
                \/ NextJob(d, p) \/ BeginPull(d, p) \/ EndRead(d, p) \/ FailRead(d, p)
                \/ TaskDone(d, p) \/ Reformat(d, p) \/ Report(d, p) \/ Signal(d, p)

Spec == Init /\ [][Next]_vars /\ WF_vars(Next)

-----------------------------------------------------------------------------
(* Properties.                                                             *)

\* Type correctness of the two trackers, the queues and the messages.
TypeOK ==
    /\ setup \in Setups
    /\ prefilled \in 0..setup.requests
    /\ process \in [setup.ports -> SUBSET Requests]
    /\ finished \in [setup.ports -> SUBSET Requests]
    /\ delayed \in [setup.ports -> SUBSET Requests]
    /\ untold \in [setup.ports -> SUBSET Requests]
    /\ reported \in [setup.ports -> [Requests -> Nat]]
    /\ processD \in [setup.ranks -> SUBSET Requests]
    /\ finishedD \in [setup.ranks -> SUBSET Requests]

\* A prefill worker reports a request as sent at most once, whatever the order
\* of its DONEs, of requests_to_send and of the timeout: the scheduler counts
\* the reports of the workers, and a second one would free the blocks of
\* another worker too early.
ReportedOnce == \A p \in setup.ports : \A r \in Requests : reported[p][r] <= 1


\* Word was left that the heads of a stage are put in order, and they were.
InOrder(d, r, t) ==
    <<d, [req |-> r, shard |-> t.shard, stage |-> t.stage]>> \in formatted

\* All of a request has been pulled, and the heads of every shard are in order
\* in one of the stages they were pulled from (the word of one stage replaces
\* that of another).
Pulled(d, r) ==
    \A i \in 1..Len(Tasks(d)) :
        LET t == Tasks(d)[i]
        IN  /\ Job(d, r, i) \in pulled
            /\ t.ends => \E k \in 1..Len(Tasks(d)) : /\ Tasks(d)[k].shard = t.shard
                                                     /\ InOrder(d, r, Tasks(d)[k])


\* Every request ends: its decode ranks report it, unless they are shut down,
\* and its blocks are freed. Without losses no timeout is needed for that.
RequestsEnd ==
    <>[](/\ \A r \in Requests : Freed(r)
         /\ \A d \in setup.ranks : engine[d] = "down" \/ reportedD[d] = Requests)
=============================================================================
