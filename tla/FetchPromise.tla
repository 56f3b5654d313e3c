----------------------------- MODULE FetchPromise -----------------------------
(***************************************************************************)
(* What a ThrukClient promises its callers, without saying how: no cache   *)
(* layout, no semaphore queue, no backoff, no job polling.                 *)
(*                                                                         *)
(* A call is answered from the window of payloads received recently for    *)
(* its key, or tries the server a bounded number of times.  Tries that are *)
(* open at one time are bounded too, and a payload enters the window only  *)
(* when a try receives it.                                                 *)
(***************************************************************************)
EXTENDS Naturals, FiniteSets

CONSTANTS
    Callers,      \* who makes calls
    Requests,     \* what can be asked
    Readable,     \* the requests that may be answered from the window
    KeyFor,       \* the window key of each request
    Bodies,       \* payloads
    NoAnswer,     \* the answer of a call that has none
    MaxTries,     \* tries one call may make
    MaxOpen       \* tries that may be open at one time; 0 means no limit

VARIABLES
    asked,        \* the request of each caller
    answer,       \* the answer to each caller's last call
    busy,         \* callers whose call has not ended
    tries,        \* tries made by the current call
    open,         \* callers whose try is open
    window        \* <<key, payload>> received recently

promiseVars == <<asked, answer, busy, tries, open, window>>

MayOpen == MaxOpen = 0 \/ Cardinality(open) < MaxOpen

PromiseInit ==
    /\ asked \in [Callers -> Requests]
    /\ answer = [p \in Callers |-> NoAnswer]
    /\ busy = {}
    /\ tries = [p \in Callers |-> 0]
    /\ open = {}
    /\ window = {}

\* A call is answered from the window, or begins to be.
Recall(p, c) ==
    /\ p \notin busy
    /\ c \in Readable
    /\ \E v \in Bodies :
         /\ <<KeyFor[c], v>> \in window
         /\ \/ answer' = [answer EXCEPT ![p] = v] /\ busy' = busy
            \/ answer' = [answer EXCEPT ![p] = NoAnswer] /\ busy' = busy \cup {p}
    /\ asked' = [asked EXCEPT ![p] = c]
    /\ tries' = [tries EXCEPT ![p] = 0]
    /\ UNCHANGED <<open, window>>

\* A call begins and has to wait for its first try.
Ask(p, c) ==
    /\ p \notin busy
    /\ asked' = [asked EXCEPT ![p] = c]
    /\ answer' = [answer EXCEPT ![p] = NoAnswer]
    /\ busy' = busy \cup {p}
    /\ tries' = [tries EXCEPT ![p] = 0]
    /\ UNCHANGED <<open, window>>

\* A call begins with its first try.
AskAndTry(p, c) ==
    /\ p \notin busy /\ p \notin open
    /\ MayOpen
    /\ asked' = [asked EXCEPT ![p] = c]
    /\ answer' = [answer EXCEPT ![p] = NoAnswer]
    /\ busy' = busy \cup {p}
    /\ tries' = [tries EXCEPT ![p] = 1]
    /\ open' = open \cup {p}
    /\ UNCHANGED window

Try(p) ==
    /\ p \in busy /\ p \notin open
    /\ tries[p] < MaxTries
    /\ MayOpen
    /\ tries' = [tries EXCEPT ![p] = @ + 1]
    /\ open' = open \cup {p}
    /\ UNCHANGED <<asked, answer, busy, window>>

\* The call ends, with whatever answer it has come to.
End(p) ==
    /\ busy' = busy \ {p}
    /\ \E v \in Bodies : answer' = [answer EXCEPT ![p] = v]

\* A try ends; the call goes on or ends.  Only a readable request adds to the window.
Close(p) ==
    /\ p \in open
    /\ open' = open \ {p}
    /\ \/ UNCHANGED <<answer, busy>>
       \/ End(p)
    /\ \/ window' = window
       \/ /\ asked[p] \in Readable
          /\ \E v \in Bodies : window' = window \cup {<<KeyFor[asked[p]], v>>}
    /\ UNCHANGED <<asked, tries>>

\* A call ends without an open try: cancelled, or its job is over.
Finish(p) ==
    /\ p \in busy \ open
    /\ End(p)
    /\ UNCHANGED <<asked, tries, open, window>>

\* Payloads received too long ago leave the window.
Fade ==
    /\ window' \in SUBSET window
    /\ UNCHANGED <<asked, answer, busy, tries, open>>

PromiseNext ==
    \/ \E p \in Callers, c \in Requests : Recall(p, c) \/ Ask(p, c) \/ AskAndTry(p, c)
    \/ \E p \in Callers : Try(p) \/ Close(p) \/ Finish(p)
    \/ Fade

PromiseSpec == PromiseInit /\ [][PromiseNext]_promiseVars
================================================================================
