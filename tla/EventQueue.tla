----------------------------- MODULE EventQueue -----------------------------
(***************************************************************************)
(* How the server's worker threads hand their results to the event loop    *)
(* (crates/server/src/event_queue.rs, mls_delivery.rs and Server::run).    *)
(* Each queue has a flag in a shared ready word; whoever makes the word    *)
(* non-empty wakes the loop, which takes the word, drains the queues it    *)
(* names in batches, and signals a queue again when it left events in it.  *)
(* Every access to the word, to a queue and to the waker is a step.        *)
(***************************************************************************)
EXTENDS Integers

CONSTANTS Threads,   \* the worker threads that push events
          Queues,    \* the queues, each with its flag
          QueueOf,   \* the queue a thread pushes to
          Batch,     \* the limit of drain_up_to
          MaxEvents, \* bound on the events pushed to a queue
          WakeMayFail \* whether Waker::wake can return an error

ASSUME QueueOfAssumption == QueueOf \in [Threads -> Queues]
ASSUME BatchAssumption == Batch \in Nat \ {0}
ASSUME MaxEventsAssumption == MaxEvents \in Nat
ASSUME WakeMayFailAssumption == WakeMayFail \in BOOLEAN

VARIABLES pushed, taken,  \* events pushed to and drained from each queue
          ready,    \* EventNotifier::ready, as the set of its flags
          woken,    \* the waker's event waits for poll
          thread,   \* where each worker thread is
          loop,     \* where the event loop is
          behind,   \* the queue drain_up_to left events in, while it signals it
          workers   \* ready_workers: the queues of this pass still to drain

vars == <<pushed, taken, ready, woken, thread, loop, behind, workers>>

Init ==
    /\ pushed = [q \in Queues |-> 0]
    /\ taken = [q \in Queues |-> 0]
    /\ ready = {}
    /\ woken = FALSE
    /\ thread = [t \in Threads |-> "idle"]
    /\ loop = "poll"
    /\ behind = {}
    /\ workers = {}

Pending(q) == pushed[q] - taken[q]

\* push: append the event, then signal.
Push(t) ==
    /\ thread[t] = "idle"
    /\ pushed[QueueOf[t]] < MaxEvents
    /\ pushed' = [pushed EXCEPT ![QueueOf[t]] = @ + 1]
    /\ thread' = [thread EXCEPT ![t] = "signal"]
    /\ UNCHANGED <<taken, ready, woken, loop, behind, workers>>

\* signal: fetch_or, and wake if the word was empty.
Signal(t) ==
    /\ thread[t] = "signal"
    /\ ready' = ready \cup {QueueOf[t]}
    /\ thread' = [thread EXCEPT ![t] = IF ready = {} THEN "wake" ELSE "idle"]
    /\ UNCHANGED <<pushed, taken, woken, loop, behind, workers>>

Wake(t) ==
    /\ thread[t] = "wake"
    /\ woken' = TRUE \/ (WakeMayFail /\ woken' = woken)
    /\ thread' = [thread EXCEPT ![t] = "idle"]
    /\ UNCHANGED <<pushed, taken, ready, loop, behind, workers>>

\* The poll returns the waker's event.
Poll ==
    /\ loop = "poll"
    /\ woken
    /\ woken' = FALSE
    /\ loop' = "take"
    /\ UNCHANGED <<pushed, taken, ready, thread, behind, workers>>

\* The poll returns without it: a timeout, or only sockets are ready.  The pass
\* drains no queue.
PollOther ==
    /\ loop = "poll"
    /\ ~woken
    /\ loop' = "drain"
    /\ UNCHANGED <<pushed, taken, ready, woken, thread, behind, workers>>

\* Mutant: only one flag of the word is looked at.
TakeOne ==
    /\ loop = "take"
    /\ workers' = {CHOOSE q \in Queues : ready # {} => q \in ready}
    /\ ready' = {}
    /\ loop' = "drain"
    /\ UNCHANGED <<pushed, taken, woken, thread, behind>>

take_ready ==
    /\ loop = "take"
    /\ workers' = ready
    /\ ready' = {}
    /\ loop' = "drain"
    /\ UNCHANGED <<pushed, taken, woken, thread, behind>>

\* Mutant: a queue is not signalled again when events remain in it.
DrainOnce(q) ==
    /\ loop = "drain" /\ q \in workers
    /\ taken' = [taken EXCEPT ![q] = @ + (IF Pending(q) < Batch THEN Pending(q) ELSE Batch)]
    /\ workers' = workers \ {q}
    /\ UNCHANGED <<pushed, ready, woken, thread, loop, behind>>

drain_up_to(q) ==
    /\ loop = "drain" /\ q \in workers
    /\ taken' = [taken EXCEPT ![q] = @ + (IF Pending(q) < Batch THEN Pending(q) ELSE Batch)]
    /\ workers' = workers \ {q}
    /\ IF Pending(q) > Batch THEN loop' = "signal" /\ behind' = {q} ELSE UNCHANGED <<loop, behind>>
    /\ UNCHANGED <<pushed, ready, woken, thread>>

Resignal ==
    /\ loop = "signal"
    /\ ready' = ready \cup behind
    /\ behind' = {}
    /\ loop' = IF ready = {} THEN "wake" ELSE "drain"
    /\ UNCHANGED <<pushed, taken, woken, thread, workers>>

Rewake ==
    /\ loop = "wake"
    /\ woken' = TRUE \/ (WakeMayFail /\ woken' = woken)
    /\ loop' = "drain"
    /\ UNCHANGED <<pushed, taken, ready, thread, behind, workers>>

\* The pass is over; the loop polls again.
EndPass ==
    /\ loop = "drain" /\ workers = {}
    /\ loop' = "poll"
    /\ UNCHANGED <<pushed, taken, ready, woken, thread, behind, workers>>

Worker(t) == Push(t) \/ Signal(t) \/ Wake(t)

Loop == \/ Poll \/ PollOther \/ take_ready
        \/ \E q \in Queues : drain_up_to(q)
        \/ Resignal \/ Rewake \/ EndPass

Next == (\E t \in Threads : Worker(t)) \/ Loop

Spec == Init /\ [][Next]_vars

\* A thread that pushed an event goes on to signal it, and the loop runs.
FairSpec == Spec /\ WF_vars(Loop) /\ \A t \in Threads : WF_vars(Signal(t) \/ Wake(t))

(***************************************************************************)
(* Properties.                                                             *)
(***************************************************************************)
\* The shapes of the state.
TypeOK ==
    /\ pushed \in [Queues -> Nat] /\ taken \in [Queues -> Nat]
    /\ \A q \in Queues : taken[q] <= pushed[q]
    /\ ready \subseteq Queues /\ workers \subseteq Queues
    /\ woken \in BOOLEAN
    /\ thread \in [Threads -> {"idle", "signal", "wake"}]
    /\ loop \in {"poll", "take", "drain", "signal", "wake"}
    /\ behind \subseteq Queues

\* A queue with events is in the ready word, or among those the loop is about
\* to drain, or somebody is about to put it there.
EventsAnnounced ==
    \A q \in Queues : Pending(q) > 0 =>
        \/ q \in ready \cup workers \cup behind
        \/ \E t \in Threads : QueueOf[t] = q /\ thread[t] = "signal"

\* While the ready word is not empty the loop is on its way to take it: a wake
\* is posted, or will be by the one that found the word empty.
ReadyMeansWoken ==
    ready # {} => \/ woken
                  \/ loop \in {"take", "wake"}
                  \/ \E t \in Threads : thread[t] = "wake"

\* No wakeup is lost: when the loop goes to sleep, every pushed event has been
\* drained or its producer is still inside push.
NoLostWakeup ==
    (loop = "poll" /\ ~woken /\ \A t \in Threads : thread[t] = "idle") =>
        \A q \in Queues : Pending(q) = 0

\* Every event is eventually drained, whatever the batches and the order in
\* which threads push, signal and wake.
EventsDrained ==
    \A q \in Queues : \A n \in 1..MaxEvents : (pushed[q] >= n) ~> (taken[q] >= n)

\* drain_history_replies: "Called every event-loop pass; the reader's waker only
\* shortens the wait."  If so, an event is drained even when a wake failed.
WakerOnlyShortens == EventsDrained

\* The invariant behind NoLostWakeup when wakes do not fail: with what is above,
\* the loop forgets no queue of a pass.
Inv ==
    /\ TypeOK /\ EventsAnnounced /\ ReadyMeansWoken
    /\ loop \in {"poll", "take"} => workers = {}
    /\ loop # "signal" => behind = {}
=============================================================================
