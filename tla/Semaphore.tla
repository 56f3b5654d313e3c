------------------------------- MODULE Semaphore -------------------------------
(***************************************************************************)
(* asyncio.Semaphore (CPython 3.11+), as ThrukClient.request enters and    *)
(* leaves it: free permits, a FIFO queue of waiting tasks, and the tasks a *)
(* permit was given to that have not run since.  While there is such a     *)
(* task a newcomer queues even if a permit is free; the task wakes those   *)
(* it held up when it runs.                                                *)
(***************************************************************************)
EXTENDS Naturals, Sequences, SequencesExt

CONSTANTS
    Tasks,            \* the asyncio tasks that call the client
    MaxConcurrent     \* config.max_concurrent; 0 means no semaphore

ASSUME MaxConcurrentAssumption == MaxConcurrent \in Nat

VARIABLES
    free,             \* _value: permits nobody holds
    waiters,          \* _waiters that wait, oldest first
    woken             \* _waiters whose future is done: they hold a permit

semVars == <<free, waiters, woken>>

\* self._sem is None
Unlimited == MaxConcurrent = 0

SemInit == free = MaxConcurrent /\ waiters = <<>> /\ woken = {}

\* acquire() completes without suspending the caller (not locked()).
NoWait_SkipsCheck == TRUE
NoWait == Unlimited \/ (free > 0 /\ waiters = <<>> /\ woken = {})

\* acquire() by task p, up to its first await.
Acquire(p) ==
    /\ free' = IF NoWait /\ ~Unlimited THEN free - 1 ELSE free
    /\ waiters' = IF NoWait THEN waiters ELSE Append(waiters, p)
    /\ UNCHANGED woken

\* release(): the permit goes to the first waiter, or is free again.
Release ==
    IF waiters # <<>>
    THEN /\ woken' = woken \cup {Head(waiters)}
         /\ waiters' = Tail(waiters)
         /\ UNCHANGED free
    ELSE /\ free' = IF Unlimited THEN free ELSE free + 1
         /\ UNCHANGED <<waiters, woken>>

\* The end of acquire(), reached by a waiter that runs again: of the tasks in q
\* as many are woken as there are permits; w are those woken and not resumed.
WakeUp_Nobody(permits, q, w) == free' = permits /\ waiters' = q /\ woken' = w
WakeUp(permits, q, w) ==
    LET n == IF permits < Len(q) THEN permits ELSE Len(q)
    IN  /\ free' = permits - n
        /\ waiters' = SubSeq(q, n + 1, Len(q))
        /\ woken' = w \cup {q[i] : i \in 1..n}

\* A woken task runs and enters the block.
Enter(p) == WakeUp(free, waiters, woken \ {p})

\* A waiting task is cancelled: it leaves the queue, or gives its permit back.
Abandon(p) ==
    IF p \in woken
    THEN WakeUp(free + 1, waiters, woken \ {p})
    ELSE WakeUp(free,
                RemoveAt(waiters, CHOOSE i \in DOMAIN waiters : waiters[i] = p),
                woken)
================================================================================
