------------------------------ MODULE ThrukClient ------------------------------
(***************************************************************************)
(* One ThrukClient shared by the asyncio tasks of the server (client.py):  *)
(* request() with its cache, semaphore and retry loop, and the job polling *)
(* of run_background().                                                    *)
(*                                                                         *)
(* An action is what a task does between two awaits.  The HTTP server is   *)
(* part of the model: Serve fixes the reply to an attempt (and performs    *)
(* the command of a write) before, or without, the client receiving it.    *)
(***************************************************************************)
EXTENDS TTLCache, Semaphore, FiniteSets

CONSTANTS
    Calls,            \* the calls tasks make: records [method, path, background]
    CacheablePaths,   \* CACHEABLE_PATHS
    Ticket,           \* a JSON object with a job_id
    MaxRetries,       \* max_retries
    PollTimeout       \* poll_timeout, in ticks (one tick is one poll_interval)

VARIABLES
    phase,            \* where the task is in request() or run_background()
    call,             \* its current (or last) call
    attempt,          \* the loop variable of request()
    reply,            \* what the server answered to the attempt in flight
    outcome,          \* how the call ended
    patience,         \* ticks left until the poll deadline
    sent,             \* history: HTTP attempts of the call put on the wire
    applied,          \* history: times the server performed the call's command
    heard             \* history: ticks since a payload was received for a key

taskVars == <<phase, call, attempt, reply, outcome, patience>>
vars == <<store, free, waiters, woken, phase, call, attempt, reply, outcome, patience,
          sent, applied, heard>>

-------------------------------------------------------------------------------
(* Calls and replies                                                       *)

\* A retry may repeat a call of any method; only GET leaves the server as it was.
IsWrite(c) == c.method # "GET"

\* No caller in the program passes cache_ttl.
Cacheable(c) == c.method = "GET" /\ c.path \in CacheablePaths

\* The cache key: run_background adds background=1 to the parameters.
KeyOf_PathOnly(c) == <<c.path, FALSE>>
KeyOf(c) == <<c.path, c.background>>

ASSUME ClientAssumption ==
    /\ IsFiniteSet(Tasks)
    /\ Ticket \in Payloads /\ Ticket # Null
    /\ MaxRetries \in Nat
    /\ PollTimeout \in Nat
    /\ Calls # {}
    /\ \A c \in Calls : /\ c.background \in BOOLEAN
                        /\ Cacheable(c) => KeyOf(c) \in CacheKeys

\* 2xx with an empty body, 2xx that is not JSON, RETRY_STATUS, other 4xx/5xx.
Faults == {"empty", "garbled", "retryable", "refused"}
NoReply == "none"

ASSUME RepliesAreDistinct == Payloads \cap (Faults \cup {NoReply}) = {}

\* Thruk answers with a job only when asked to run in the background.
RepliesTo(c) == Faults \cup (IF c.background THEN Payloads ELSE Payloads \ {Ticket})

Accepts(r) == r \in Payloads \cup {"empty", "garbled"}

NoOutcome == [kind |-> "none", value |-> Null]
Ok(v) == [kind |-> "ok", value |-> v]
Ended(kind) == [kind |-> kind, value |-> Null]

Phases == {"idle", "waiting", "sending", "backoff", "polling", "napping", "done"}
Busy(p) == phase[p] \notin {"idle", "done"}

ClientTypeOK ==
    /\ free \in Nat
    /\ waiters \in Seq(Tasks)
    /\ woken \in SUBSET Tasks
    /\ phase \in [Tasks -> Phases]
    /\ call \in [Tasks -> Calls]
    /\ attempt \in [Tasks -> 0..MaxRetries]
    /\ reply \in [Tasks -> Payloads \cup Faults \cup {NoReply}]
    /\ outcome \in [Tasks -> [kind : {"none", "ok", "error", "crashed", "cancelled"},
                              value : Payloads]]
    /\ patience \in [Tasks -> 0..PollTimeout]
    /\ sent \in [Tasks -> Nat]
    /\ applied \in [Tasks -> Nat]
    /\ heard \in [CacheKeys \X Payloads -> 0..TTL]

Init ==
    /\ CacheInit
    /\ SemInit
    /\ phase = [p \in Tasks |-> "idle"]
    /\ call = [p \in Tasks |-> CHOOSE c \in Calls : TRUE]
    /\ attempt = [p \in Tasks |-> 0]
    /\ reply = [p \in Tasks |-> NoReply]
    /\ outcome = [p \in Tasks |-> NoOutcome]
    /\ patience = [p \in Tasks |-> 0]
    /\ sent = [p \in Tasks |-> 0]
    /\ applied = [p \in Tasks |-> 0]
    /\ heard = [kv \in CacheKeys \X Payloads |-> TTL]

-------------------------------------------------------------------------------
(* The semaphore around one HTTP attempt                                   *)

\* `async with self._sem': the attempt goes out at once or the task queues.
StartAttempt(p, before) ==
    /\ Acquire(p)
    /\ phase' = [phase EXCEPT ![p] = IF NoWait THEN "sending" ELSE "waiting"]
    /\ sent' = [sent EXCEPT ![p] = IF NoWait THEN before + 1 ELSE before]

\* Leaving the block, by any path, releases the permit.
EndAttempt(p, next) ==
    /\ phase' = [phase EXCEPT ![p] = next]
    /\ Release

\* What the caller does with a JSON payload: a background call whose payload
\* carries a job_id goes on to poll that job, every other call returns it.
Delivered(c, v) == IF c.background /\ v = Ticket THEN "polling" ELSE "done"
Settle(p, c, v) ==
    /\ outcome' = [outcome EXCEPT ![p] =
                      IF Delivered(c, v) = "done" THEN Ok(v) ELSE NoOutcome]
    /\ patience' = [patience EXCEPT ![p] =
                      IF Delivered(c, v) = "polling" THEN PollTimeout ELSE 0]

-------------------------------------------------------------------------------
(* request()                                                               *)

Accept(p, c) ==
    /\ ~Busy(p)
    /\ call' = [call EXCEPT ![p] = c]
    /\ attempt' = [attempt EXCEPT ![p] = 0]
    /\ applied' = [applied EXCEPT ![p] = 0]

\* A cacheable call finds a payload that is not null and makes no request.
BeginHit(p, c) ==
    /\ Accept(p, c)
    /\ Cacheable(c) /\ Cached(KeyOf(c)) # Null
    /\ CacheGet(KeyOf(c))
    /\ phase' = [phase EXCEPT ![p] = Delivered(c, Cached(KeyOf(c)))]
    /\ Settle(p, c, Cached(KeyOf(c)))
    /\ sent' = [sent EXCEPT ![p] = 0]
    /\ UNCHANGED <<free, waiters, woken, reply, heard>>

\* Any other call starts its first attempt.
BeginMiss(p, c) ==
    /\ Accept(p, c)
    /\ Cacheable(c) => Cached(KeyOf(c)) = Null
    /\ IF Cacheable(c) THEN CacheGet(KeyOf(c)) ELSE UNCHANGED store
    /\ StartAttempt(p, 0)
    /\ outcome' = [outcome EXCEPT ![p] = NoOutcome]
    /\ UNCHANGED <<reply, patience, heard>>

\* A waiter that was given a permit runs again and sends its attempt.
Resume(p) ==
    /\ phase[p] = "waiting" /\ p \in woken
    /\ Enter(p)
    /\ phase' = [phase EXCEPT ![p] = "sending"]
    /\ sent' = [sent EXCEPT ![p] = @ + 1]
    /\ UNCHANGED <<store, call, attempt, reply, outcome, patience,
                   applied, heard>>

\* The server processes the attempt in flight.  It performs an accepted write,
\* does not perform a refused one, and may or may not have performed one it
\* answers with a retryable status.
Serve(p) ==
    /\ phase[p] = "sending" /\ reply[p] = NoReply
    /\ \E r \in RepliesTo(call[p]) :
         /\ reply' = [reply EXCEPT ![p] = r]
         /\ \E n \in {0, 1} :
              /\ n = 1 => IsWrite(call[p]) /\ r # "refused"
              /\ Accepts(r) /\ IsWrite(call[p]) => n = 1
              /\ applied' = [applied EXCEPT ![p] = @ + n]
    /\ UNCHANGED <<store, free, waiters, woken, phase, call, attempt, outcome, patience,
                   sent, heard>>

\* A JSON payload arrives; it is cached when the call is cacheable.
ReceivePayload(p) ==
    LET c == call[p]
        v == reply[p]
    IN  /\ phase[p] = "sending" /\ v \in Payloads
        /\ EndAttempt(p, Delivered(c, v))
        /\ Settle(p, c, v)
        /\ IF Cacheable(c)
           THEN /\ CacheSet(KeyOf(c), v)
                /\ heard' = [heard EXCEPT ![<<KeyOf(c), v>>] = 0]
           ELSE UNCHANGED <<store, heard>>
        /\ reply' = [reply EXCEPT ![p] = NoReply]
        /\ UNCHANGED <<call, attempt, sent, applied>>

\* An empty 2xx body is returned as None and is not cached.
ReceiveEmpty(p) ==
    /\ phase[p] = "sending" /\ reply[p] = "empty"
    /\ EndAttempt(p, "done")
    /\ outcome' = [outcome EXCEPT ![p] = Ok(Null)]
    /\ reply' = [reply EXCEPT ![p] = NoReply]
    /\ UNCHANGED <<store, call, attempt, patience, sent, applied, heard>>

\* ThrukError: invalid JSON, a status that is not retried, or no attempt left.
Rejects(p) ==
    \/ reply[p] \in {"garbled", "refused"}
    \/ reply[p] = "retryable" /\ attempt[p] = MaxRetries
ReceiveError_AsSuccess(p) ==
    /\ phase[p] = "sending" /\ Rejects(p)
    /\ EndAttempt(p, "done")
    /\ outcome' = [outcome EXCEPT ![p] = Ok(Null)]
    /\ reply' = [reply EXCEPT ![p] = NoReply]
    /\ UNCHANGED <<store, call, attempt, patience, sent, applied, heard>>
ReceiveError(p) ==
    /\ phase[p] = "sending" /\ Rejects(p)
    /\ EndAttempt(p, "done")
    /\ outcome' = [outcome EXCEPT ![p] = Ended("error")]
    /\ reply' = [reply EXCEPT ![p] = NoReply]
    /\ UNCHANGED <<store, call, attempt, patience, sent, applied, heard>>

\* A retryable status with attempts left: back off without the permit.
ReceiveRetryable_OffByOne(p) ==
    /\ phase[p] = "sending" /\ reply[p] = "retryable" /\ attempt[p] <= MaxRetries
    /\ EndAttempt(p, "backoff")
    /\ reply' = [reply EXCEPT ![p] = NoReply]
    /\ UNCHANGED <<store, call, attempt, outcome, patience, sent, applied, heard>>
ReceiveRetryable(p) ==
    /\ phase[p] = "sending" /\ reply[p] = "retryable" /\ attempt[p] < MaxRetries
    /\ EndAttempt(p, "backoff")
    /\ reply' = [reply EXCEPT ![p] = NoReply]
    /\ UNCHANGED <<store, call, attempt, outcome, patience, sent, applied, heard>>

\* httpx.RequestError, whether or not the server has processed the attempt.
NetworkError(p) ==
    /\ phase[p] = "sending"
    /\ EndAttempt(p, IF attempt[p] < MaxRetries THEN "backoff" ELSE "done")
    /\ outcome' = [outcome EXCEPT ![p] =
                      IF attempt[p] < MaxRetries THEN NoOutcome ELSE Ended("error")]
    /\ reply' = [reply EXCEPT ![p] = NoReply]
    /\ UNCHANGED <<store, call, attempt, patience, sent, applied, heard>>

\* The backoff delay is over and the loop goes round.
Wake_KeepsAttempt(p) ==
    /\ phase[p] = "backoff"
    /\ StartAttempt(p, sent[p])
    /\ UNCHANGED <<store, call, attempt, reply, outcome, patience, applied, heard>>
Wake(p) ==
    /\ phase[p] = "backoff"
    /\ attempt' = [attempt EXCEPT ![p] = @ + 1]
    /\ StartAttempt(p, sent[p])
    /\ UNCHANGED <<store, call, reply, outcome, patience, applied, heard>>

-------------------------------------------------------------------------------
(* run_background(): polling a job, without semaphore and without retries  *)

\* 302 and the deadline has not passed: sleep for one poll interval.
PollPending(p) ==
    /\ phase[p] = "polling" /\ patience[p] > 0
    /\ phase' = [phase EXCEPT ![p] = "napping"]
    /\ UNCHANGED <<store, free, waiters, woken, call, attempt, reply, outcome, patience,
                   sent, applied, heard>>

\* 302 after the deadline.
PollExpired_NapsOn(p) ==
    /\ phase[p] = "polling" /\ patience[p] = 0
    /\ phase' = [phase EXCEPT ![p] = "napping"]
    /\ UNCHANGED <<store, free, waiters, woken, call, attempt, reply, outcome, patience,
                   sent, applied, heard>>
PollExpired(p) ==
    /\ phase[p] = "polling" /\ patience[p] = 0
    /\ phase' = [phase EXCEPT ![p] = "done"]
    /\ outcome' = [outcome EXCEPT ![p] = Ended("error")]
    /\ UNCHANGED <<store, free, waiters, woken, call, attempt, reply, patience,
                   sent, applied, heard>>

\* The job's output, an HTTP error (ThrukError), or httpx.RequestError, which
\* this loop does not turn into a ThrukError.
PollAnswered(p) ==
    /\ phase[p] = "polling"
    /\ phase' = [phase EXCEPT ![p] = "done"]
    /\ \E o \in {Ok(v) : v \in Payloads \ {Ticket}} \cup {Ended("error"), Ended("crashed")} :
           outcome' = [outcome EXCEPT ![p] = o]
    /\ patience' = [patience EXCEPT ![p] = 0]
    /\ UNCHANGED <<store, free, waiters, woken, call, attempt, reply, sent, applied, heard>>

-------------------------------------------------------------------------------
(* Cancellation and time                                                   *)

\* The task is cancelled at its current await; a permit it holds is released.
Cancel(p) ==
    /\ \/ phase[p] = "sending" /\ Release
       \/ phase[p] = "waiting" /\ Abandon(p)
       \/ phase[p] \in {"backoff", "polling", "napping"} /\ UNCHANGED semVars
    /\ phase' = [phase EXCEPT ![p] = "done"]
    /\ outcome' = [outcome EXCEPT ![p] = Ended("cancelled")]
    /\ reply' = [reply EXCEPT ![p] = NoReply]
    /\ patience' = [patience EXCEPT ![p] = 0]
    /\ UNCHANGED <<store, call, attempt, sent, applied, heard>>

\* One poll interval passes: entries age, deadlines approach, sleepers poll again.
Tick ==
    /\ CacheTick
    /\ heard' = [kv \in DOMAIN heard |-> IF heard[kv] < TTL THEN heard[kv] + 1 ELSE TTL]
    /\ patience' = [p \in Tasks |-> IF patience[p] > 0 THEN patience[p] - 1 ELSE 0]
    /\ phase' = [p \in Tasks |-> IF phase[p] = "napping" THEN "polling" ELSE phase[p]]
    /\ UNCHANGED <<free, waiters, woken, call, attempt, reply, outcome, sent, applied>>

-------------------------------------------------------------------------------

AttemptEnds(p) ==
    \/ ReceivePayload(p)
    \/ ReceiveEmpty(p)
    \/ ReceiveError(p)
    \/ ReceiveRetryable(p)
    \/ NetworkError(p)

PollEnds(p) == PollPending(p) \/ PollExpired(p) \/ PollAnswered(p)

TaskStep(p) ==
    \/ \E c \in Calls : BeginHit(p, c) \/ BeginMiss(p, c)
    \/ Resume(p)
    \/ Serve(p)
    \/ AttemptEnds(p)
    \/ Wake(p)
    \/ PollEnds(p)
    \/ Cancel(p)

Next == (\E p \in Tasks : TaskStep(p)) \/ Tick

\* The event loop runs every ready task, httpx's connect, read, write and pool
\* timeouts end every attempt and every poll, sleeps end, and time passes.  No
\* fairness is assumed of callers, of cancellation or of the Thruk server.
Fairness ==
    /\ WF_vars(Tick)
    /\ \A p \in Tasks :
         /\ WF_vars(Resume(p))
         /\ WF_vars(AttemptEnds(p))
         /\ WF_vars(Wake(p))
         /\ WF_vars(PollEnds(p))

Spec == Init /\ [][Next]_vars
FairSpec == Spec /\ Fairness

-------------------------------------------------------------------------------
(* Properties                                                              *)

Sending == {p \in Tasks : phase[p] = "sending"}
Waiting == {p \in Tasks : phase[p] = "waiting"}
Polling == {p \in Tasks : phase[p] = "polling"}

\* request() never has more than max_concurrent attempts on the wire, whatever
\* the order of arrivals, hand-overs, retries and cancellations (client.py:173-177).
SlotsRespected == ~Unlimited => Cardinality(Sending) <= MaxConcurrent

\* No permit is lost or duplicated on any path out of the `async with', no waiter
\* is forgotten, and when tasks wait beside a free permit a woken one is about to
\* let them in: a leak would slowly stop the client for the rest of the process.
NoPermitLost ==
    ~Unlimited =>
        /\ free + Cardinality(woken \cup Sending) = MaxConcurrent
        /\ ToSet(waiters) \cup woken = Waiting
        /\ free > 0 /\ waiters # <<>> => woken # {}

\* One logical call puts at most max_retries + 1 attempts on the wire, so a
\* command is performed at most that often (client.py:59-65, issue #150).
AttemptBudget ==
    \A p \in Tasks : applied[p] <= sent[p] /\ sent[p] <= MaxRetries + 1

\* A write that is reported as successful has been performed: no path through
\* the retry loop turns a failure into a result.
OkWriteTookEffect ==
    \A p \in Tasks :
        (phase[p] = "done" /\ outcome[p].kind = "ok" /\ IsWrite(call[p]))
            => applied[p] >= 1

\* No caller is ever given a job ticket where it asked for a result: background
\* and plain requests for one path do not share a cache entry.
NoTicketReturned == \A p \in Tasks : outcome[p].value # Ticket

\* A call answered without a request gets a payload that was received for the
\* same key less than default_ttl ago (client.py:162-167).
HitsAreFresh ==
    [][\A p \in Tasks, c \in Calls :
          BeginHit(p, c) => heard[<<KeyOf(c), Cached(KeyOf(c))>>] < TTL]_vars

\* Every call ends, even when Thruk answers no request and no job ever
\* completes: waiting for a permit, the retry loop and the polls are all bounded.
EveryCallEnds == \A p \in Tasks : Busy(p) ~> ~Busy(p)

\* The client implements what FetchPromise says: the semaphore's hand-over
\* bounds the open tries, the retry loop bounds the tries of a call, and the
\* cache answers only from the payloads received within default_ttl.
Promise == INSTANCE FetchPromise WITH
    Callers  <- Tasks,
    Requests <- Calls,
    Readable <- {c \in Calls : Cacheable(c)},
    KeyFor   <- [c \in Calls |-> KeyOf(c)],
    Bodies   <- Payloads,
    NoAnswer <- Null,
    MaxTries <- MaxRetries + 1,
    MaxOpen  <- MaxConcurrent,
    asked    <- call,
    answer   <- [p \in Tasks |-> outcome[p].value],
    busy     <- {p \in Tasks : Busy(p)},
    tries    <- sent,
    open     <- {p \in Tasks : phase[p] = "sending"},
    window   <- {kv \in CacheKeys \X Payloads : heard[kv] < TTL}

KeepsPromise == Promise!PromiseSpec

\* README.md:272 and config.py:97 promise a cap on all in-flight HTTP requests;
\* the polls of run_background go round the semaphore (client.py:366).
AllRequestsCapped ==
    ~Unlimited => Cardinality(Sending \cup Polling) <= MaxConcurrent
================================================================================
