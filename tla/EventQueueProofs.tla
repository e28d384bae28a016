-------------------------- MODULE EventQueueProofs --------------------------
(***************************************************************************)
(* No wakeup is lost, for every number of threads and queues, every batch  *)
(* limit and every number of events, as long as Waker::wake does not fail. *)
(***************************************************************************)
EXTENDS EventQueue, TLAPS

\* The initial state of the queues, the ready word and the loop satisfies the
\* invariant.
LEMMA InitInv == Init => Inv
<1> SUFFICES ASSUME Init PROVE Inv
  OBVIOUS
<1>1. TypeOK
  <2>1. pushed \in [Queues -> Nat] /\ taken \in [Queues -> Nat]
    BY DEF Init
  <2>2. \A q \in Queues : taken[q] <= pushed[q]
    BY DEF Init
  <2>3. thread \in [Threads -> {"idle", "signal", "wake"}]
    BY DEF Init
  <2> QED  BY <2>1, <2>2, <2>3, Zenon DEF Init, TypeOK
<1>2. \A q \in Queues : Pending(q) = 0
  BY DEF Init, Pending
<1>3. EventsAnnounced
  BY <1>2 DEF EventsAnnounced
<1> QED  BY <1>1, <1>3 DEF Init, Inv, ReadyMeansWoken

\* Every step of a producer inside push (append, fetch_or, wake) keeps it.
LEMMA WorkerInv ==
  ASSUME WakeMayFail = FALSE, Inv, NEW t \in Threads, Worker(t)
  PROVE  Inv'
<1>q. QueueOf[t] \in Queues
  BY QueueOfAssumption
<1>1. CASE Push(t)
  <2>1. TypeOK'
    BY <1>1, <1>q DEF Inv, TypeOK, Push
  <2>2. EventsAnnounced'
    <3> SUFFICES ASSUME NEW q \in Queues, Pending(q)' > 0
                 PROVE  \/ (q \in ready \cup workers \cup behind)'
                        \/ \E u \in Threads : QueueOf[u] = q /\ thread'[u] = "signal"
      BY DEF EventsAnnounced
    <3>1. CASE q = QueueOf[t]
      BY <3>1, <1>1 DEF Inv, TypeOK, Push
    <3>2. CASE q # QueueOf[t]
      <4>1. Pending(q) > 0
        BY <3>2, <1>1, <1>q DEF Inv, TypeOK, Push, Pending
      <4>2. \A u \in Threads : thread[u] = "signal" => thread'[u] = "signal"
        BY <1>1 DEF Inv, TypeOK, Push
      <4> QED  BY <4>1, <4>2, <1>1 DEF Inv, EventsAnnounced, Push
    <3> QED  BY <3>1, <3>2
  <2>3. ReadyMeansWoken'
    <3>1. \A u \in Threads : thread[u] = "wake" => thread'[u] = "wake"
      BY <1>1 DEF Inv, TypeOK, Push
    <3> QED  BY <3>1, <1>1 DEF Inv, ReadyMeansWoken, Push
  <2> QED  BY <2>1, <2>2, <2>3, <1>1 DEF Inv, Push
<1>2. CASE Signal(t)
  <2>1. TypeOK'
    BY <1>2, <1>q DEF Inv, TypeOK, Signal
  <2>2. EventsAnnounced'
    <3> SUFFICES ASSUME NEW q \in Queues, Pending(q)' > 0
                 PROVE  \/ (q \in ready \cup workers \cup behind)'
                        \/ \E u \in Threads : QueueOf[u] = q /\ thread'[u] = "signal"
      BY DEF EventsAnnounced
    <3>1. Pending(q) > 0
      BY <1>2 DEF Signal, Pending
    <3>2. \A u \in Threads : u # t => thread'[u] = thread[u]
      BY <1>2 DEF Inv, TypeOK, Signal
    <3> QED  BY <3>1, <3>2, <1>2 DEF Inv, EventsAnnounced, Signal
  <2>3. ReadyMeansWoken'
    <3>1. \A u \in Threads : thread[u] = "wake" => thread'[u] = "wake"
      BY <1>2 DEF Inv, TypeOK, Signal
    <3>2. ready = {} => thread'[t] = "wake"
      BY <1>2 DEF Inv, TypeOK, Signal
    <3> QED  BY <3>1, <3>2, <1>2 DEF Inv, ReadyMeansWoken, Signal
  <2> QED  BY <2>1, <2>2, <2>3, <1>2 DEF Inv, Signal
<1>3. CASE Wake(t)
  <2>1. woken' = TRUE
    BY <1>3 DEF Wake
  <2>2. TypeOK'
    BY <2>1, <1>3 DEF Inv, TypeOK, Wake
  <2>3. \A u \in Threads : thread[u] = "signal" => thread'[u] = "signal"
    BY <1>3 DEF Inv, TypeOK, Wake
  <2>4. EventsAnnounced'
    BY <2>3, <1>3 DEF Inv, EventsAnnounced, Pending, Wake
  <2> QED  BY <2>1, <2>2, <2>4, <1>3 DEF Inv, ReadyMeansWoken, Wake
<1> QED  BY <1>1, <1>2, <1>3 DEF Worker

\* A bounded drain keeps it: events that stay behind are announced again.
LEMMA DrainInv ==
  ASSUME Inv, NEW q \in Queues, drain_up_to(q)
  PROVE  Inv'
<1>t. /\ pushed[q] \in Nat /\ taken[q] \in Nat /\ taken[q] <= pushed[q]
      /\ Batch \in Nat
  BY BatchAssumption DEF Inv, TypeOK
<1>1. TypeOK'
  BY <1>t DEF Inv, TypeOK, drain_up_to, Pending
<1>2. EventsAnnounced'
  <2> SUFFICES ASSUME NEW r \in Queues, Pending(r)' > 0
               PROVE  \/ (r \in ready \cup workers \cup behind)'
                      \/ \E u \in Threads : QueueOf[u] = r /\ thread'[u] = "signal"
    BY DEF EventsAnnounced
  <2>1. CASE r = q
    <3>1. Pending(q) > Batch
      BY <2>1, <1>t DEF Inv, TypeOK, drain_up_to, Pending
    <3> QED  BY <3>1, <2>1 DEF drain_up_to
  <2>2. CASE r # q
    <3>1. Pending(r) > 0
      BY <2>2 DEF Inv, TypeOK, drain_up_to, Pending
    <3> QED  BY <3>1, <2>2 DEF Inv, EventsAnnounced, drain_up_to
  <2> QED  BY <2>1, <2>2
<1>3. ReadyMeansWoken'
  BY DEF Inv, ReadyMeansWoken, drain_up_to
<1> QED  BY <1>1, <1>2, <1>3 DEF Inv, drain_up_to

\* Every other step of the event loop keeps it: polling, taking the ready word,
\* signalling a queue again and ending a pass.
LEMMA LoopInv ==
  ASSUME WakeMayFail = FALSE, Inv, Loop
  PROVE  Inv'
<1>1. CASE Poll
  BY <1>1, Zenon DEF Inv, TypeOK, EventsAnnounced, ReadyMeansWoken, Pending, Poll
<1>2. CASE PollOther
  BY <1>2 DEF Inv, TypeOK, EventsAnnounced, ReadyMeansWoken, Pending, PollOther
<1>3. CASE take_ready
  BY <1>3 DEF Inv, TypeOK, EventsAnnounced, ReadyMeansWoken, Pending, take_ready
<1>4. CASE \E q \in Queues : drain_up_to(q)
  BY <1>4, DrainInv
<1>5. CASE Resignal
  BY <1>5 DEF Inv, TypeOK, EventsAnnounced, ReadyMeansWoken, Pending, Resignal
<1>6. CASE Rewake
  BY <1>6, Zenon DEF Inv, TypeOK, EventsAnnounced, ReadyMeansWoken, Pending, Rewake
<1>7. CASE EndPass
  BY <1>7 DEF Inv, TypeOK, EventsAnnounced, ReadyMeansWoken, Pending, EndPass
<1> QED  BY <1>1, <1>2, <1>3, <1>4, <1>5, <1>6, <1>7 DEF Loop

\* The invariant of the hand-off holds in every state: what was pushed is
\* announced, and what is announced has a wake on its way.
THEOREM HandOffInvariant ==
  ASSUME WakeMayFail = FALSE
  PROVE  Spec => []Inv
<1>1. Inv /\ [Next]_vars => Inv'
  <2> SUFFICES ASSUME Inv, [Next]_vars PROVE Inv'
    OBVIOUS
  <2>1. CASE Next
    BY <2>1, WorkerInv, LoopInv, Zenon DEF Next
  <2>2. CASE UNCHANGED vars
    BY <2>2 DEF vars, Inv, TypeOK, EventsAnnounced, ReadyMeansWoken, Pending
  <2> QED  BY <2>1, <2>2
<1> QED  BY InitInv, <1>1, PTL DEF Spec

\* The loop never sleeps on an event: EventQueue::push and drain_up_to lose no
\* wakeup, however their steps interleave with the loop's take_ready.
THEOREM NoWakeupLost ==
  ASSUME WakeMayFail = FALSE
  PROVE  Spec => []NoLostWakeup
<1>1. Inv => NoLostWakeup
  <2> SUFFICES ASSUME Inv, loop = "poll", ~woken,
                      \A t \in Threads : thread[t] = "idle",
                      NEW q \in Queues
               PROVE  Pending(q) = 0
    BY DEF NoLostWakeup
  <2>1. ready = {} /\ workers = {} /\ behind = {}
    BY DEF Inv, ReadyMeansWoken
  <2>2. ~(Pending(q) > 0)
    BY <2>1 DEF Inv, EventsAnnounced
  <2> QED  BY <2>2 DEF Inv, TypeOK, Pending
<1> QED  BY <1>1, HandOffInvariant, PTL
=============================================================================
