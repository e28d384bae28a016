------------------------- MODULE MlsDeliveryProofs --------------------------
(***************************************************************************)
(* The interleavings of the durability worker and the network loop keep    *)
(* the delivery state valid, for any devices, accounts, event ids and      *)
(* sequence space.                                                         *)
(***************************************************************************)
EXTENDS MlsPublishProofs

\* The two states of a thread.
LEMMA ThreadStates ==
    ASSUME NEW d
    PROVE  /\ Planned(d) = [busy |-> Planned(d).busy, delta |-> Planned(d).delta]
           /\ Planned(d).busy \in BOOLEAN /\ Planned(d).delta = d
           /\ Idle = [busy |-> Idle.busy, delta |-> Idle.delta]
           /\ Idle.busy \in BOOLEAN /\ ~Idle.busy /\ Idle.delta = StateDelta
  BY DEF Planned, Idle

\* A worker that plans a ready delta keeps the invariant.
LEMMA PlanInv ==
    ASSUME Inv, NEW d, IsStateDelta(d), worker' = Planned(d),
           expired' \in Nat, expired <= expired', WorkerReady(mem, d, seen, expired'),
           mem' = mem, loop' = loop, seen' = seen, pending_acks' \subseteq pending_acks,
           pending_welcome_acks' \subseteq pending_welcome_acks
    PROVE  Inv'
  <1>1. /\ seen \in [Devices -> Nat] /\ expired \in Nat /\ Sound(mem, seen, expired)
        /\ IsMemoryState(mem)
    BY DEF Inv, TypeOK
  <1>2. SeenMore(seen, seen)
    BY <1>1 DEF SeenMore
  <1>3. Sound(mem, seen, expired')
    BY <1>1, <1>2, SoundGrows
  <1>4. TypeOK'
    <2>1. /\ worker' = [busy |-> worker'.busy, delta |-> worker'.delta]
          /\ worker'.busy \in BOOLEAN /\ IsStateDelta(worker'.delta)
      BY ThreadStates, Zenon
    <2>2. QED BY <1>1, <2>1, Zenon DEF Inv, TypeOK
  <1>5. worker'.delta = d
    BY ThreadStates
  <1>6. QED BY <1>3, <1>4, <1>5, Zenon DEF Inv

\* A worker that gives up its plan, or has none, keeps the invariant.
LEMMA IdleInv ==
    ASSUME Inv, worker' = Idle, mem' = mem, loop' = loop, seen' = seen, expired' = expired,
           pending_acks' \subseteq pending_acks, pending_welcome_acks' = pending_welcome_acks
    PROVE  Inv'
  <1>1. /\ worker' = [busy |-> worker'.busy, delta |-> worker'.delta]
        /\ worker'.busy \in BOOLEAN /\ IsStateDelta(worker'.delta) /\ ~worker'.busy
    BY ThreadStates, EmptyDelta, Zenon
  <1>2. pending_acks' \subseteq Devices
    BY DEF Inv, TypeOK
  <1>3. TypeOK'
    BY <1>1, <1>2, Zenon DEF Inv, TypeOK
  <1>4. QED BY <1>1, <1>3, Zenon DEF Inv

\* A network loop that plans a ready delta keeps the invariant.
LEMMA LoopPlanInv ==
    ASSUME Inv, NEW d, IsStateDelta(d), loop' = Planned(d),
           seen' \in [Devices -> Nat], SeenMore(seen, seen'), LoopReady(mem, d, seen'),
           mem' = mem, worker' = worker, expired' = expired, pending_acks' = pending_acks,
           pending_welcome_acks' = pending_welcome_acks
    PROVE  Inv'
  <1>1. /\ seen \in [Devices -> Nat] /\ expired \in Nat /\ Sound(mem, seen, expired)
        /\ IsStateDelta(worker.delta)
        /\ worker.busy => WorkerReady(mem, worker.delta, seen, expired)
    BY DEF Inv, TypeOK
  <1>2. expired <= expired
    BY <1>1
  <1>3. Sound(mem, seen', expired)
    BY <1>1, <1>2, SoundGrows
  <1>4. worker.busy => WorkerReady(mem, worker.delta, seen', expired)
    BY <1>1, <1>2, WorkerReadyGrows
  <1>5. TypeOK'
    <2>1. /\ loop' = [busy |-> loop'.busy, delta |-> loop'.delta]
          /\ loop'.busy \in BOOLEAN /\ IsStateDelta(loop'.delta)
      BY ThreadStates, Zenon
    <2>2. QED BY <2>1, Zenon DEF Inv, TypeOK
  <1>6. loop'.delta = d
    BY ThreadStates
  <1>7. QED BY <1>3, <1>4, <1>5, <1>6, Zenon DEF Inv

\* A worker that publishes keeps the invariant, the network loop's plan included.
LEMMA WorkerPublishInv == Inv /\ WorkerPublish => Inv' /\ LogStep(mem, mem')
  <1> SUFFICES ASSUME Inv, WorkerPublish PROVE Inv' /\ LogStep(mem, mem')
    OBVIOUS
  <1>1. /\ seen \in [Devices -> Nat] /\ expired \in Nat /\ Sound(mem, seen, expired)
        /\ IsStateDelta(worker.delta) /\ IsStateDelta(loop.delta)
        /\ pending_welcome_acks \subseteq DOMAIN mem.welcome_cursors
        /\ WorkerReady(mem, worker.delta, seen, expired)
        /\ loop.busy => LoopReady(mem, loop.delta, seen)
    BY DEF Inv, TypeOK, WorkerPublish
  <1>2. /\ mem' = apply_delta(mem, worker.delta) /\ worker' = Idle
        /\ seen' = [x \in Devices |->
                      IF x \in mem'.room.required_devices \ mem.room.required_devices
                      THEN Larger(seen[x], mem'.room.head_sequence) ELSE seen[x]]
        /\ UNCHANGED <<loop, pending_acks, pending_welcome_acks, expired>>
    BY Zenon DEF WorkerPublish
  <1>3. /\ Sound(mem', seen', expired) /\ seen' \in [Devices -> Nat] /\ SeenMore(seen, seen')
        /\ LogStep(mem, mem')
        /\ DOMAIN mem.welcome_cursors \subseteq DOMAIN mem'.welcome_cursors
    BY <1>1, <1>2, PublishSound, SMTT(30)
  <1>4. loop.busy => LoopReady(mem', loop.delta, seen')
    <2>1. /\ mem.room \in RoomRecord /\ mem.global \in GlobalRecord
          /\ mem'.room \in RoomRecord /\ mem'.global \in GlobalRecord
      BY <1>1, <1>3, SoundTypes
    <2>2. /\ mem'.room.head_sequence >= mem.room.head_sequence
          /\ mem'.global.next_welcome_delivery_id >= mem.global.next_welcome_delivery_id
      BY <1>3 DEF LogStep
    <2>3. QED BY <1>1, <1>3, <2>1, <2>2, LoopReadyGrows
  <1>5. /\ worker' = [busy |-> worker'.busy, delta |-> worker'.delta]
        /\ worker'.busy \in BOOLEAN /\ IsStateDelta(worker'.delta) /\ ~worker'.busy
    BY <1>2, ThreadStates, EmptyDelta, Zenon
  <1>6. IsMemoryState(mem')
    BY <1>3, SoundTypes
  <1>7. TypeOK'
    BY <1>2, <1>3, <1>5, <1>6, Zenon DEF Inv, TypeOK
  <1>8. pending_welcome_acks \subseteq DOMAIN mem'.welcome_cursors
    BY <1>1, <1>3
  <1>9. QED BY <1>2, <1>3, <1>4, <1>5, <1>7, <1>8, Zenon DEF Inv

\* A network loop that publishes keeps the invariant, the worker's plan included.
LEMMA LoopPublishInv == Inv /\ LoopPublish => Inv' /\ LogStep(mem, mem')
  <1> SUFFICES ASSUME Inv, LoopPublish PROVE Inv' /\ LogStep(mem, mem')
    OBVIOUS
  <1>1. /\ seen \in [Devices -> Nat] /\ expired \in Nat /\ Sound(mem, seen, expired)
        /\ IsStateDelta(worker.delta) /\ IsStateDelta(loop.delta)
        /\ pending_acks \subseteq Devices /\ pending_welcome_acks \subseteq Devices
        /\ pending_welcome_acks \subseteq DOMAIN mem.welcome_cursors
        /\ worker.busy => WorkerReady(mem, worker.delta, seen, expired)
        /\ LoopReady(mem, loop.delta, seen)
    BY DEF Inv, TypeOK, LoopPublish
  <1>2. /\ mem' = apply_delta(mem, loop.delta) /\ loop' = Idle
        /\ pending_acks' = pending_acks \cup DOMAIN loop.delta.cursors
        /\ pending_welcome_acks' = pending_welcome_acks \cup DOMAIN loop.delta.welcome_cursors
        /\ UNCHANGED <<worker, seen, expired>>
    BY Zenon DEF LoopPublish
  <1>3. /\ Sound(mem', seen, expired) /\ LogStep(mem, mem') /\ SameStored(mem, mem')
        /\ DOMAIN mem.device_cursors \subseteq DOMAIN mem'.device_cursors
        /\ DOMAIN mem'.welcome_cursors =
             DOMAIN mem.welcome_cursors \cup DOMAIN loop.delta.welcome_cursors
    BY <1>1, <1>2, LoopPublishSound
  <1>4. IsMemoryState(mem) /\ IsMemoryState(mem')
    BY <1>1, <1>3, SoundTypes
  <1>5. worker.busy => WorkerReady(mem', worker.delta, seen, expired)
    BY <1>1, <1>3, <1>4, WorkerReadySame
  <1>6. /\ loop' = [busy |-> loop'.busy, delta |-> loop'.delta]
        /\ loop'.busy \in BOOLEAN /\ IsStateDelta(loop'.delta) /\ ~loop'.busy
    BY <1>2, ThreadStates, EmptyDelta, Zenon
  <1>7. pending_acks' \subseteq Devices /\ pending_welcome_acks' \subseteq Devices
          /\ pending_welcome_acks' \subseteq DOMAIN mem'.welcome_cursors
    BY <1>1, <1>2, <1>3, SMTT(30) DEF IsStateDelta, IsMap
  <1>8. TypeOK'
    BY <1>2, <1>4, <1>6, <1>7, Zenon DEF Inv, TypeOK
  <1>9. QED BY <1>2, <1>3, <1>5, <1>6, <1>7, <1>8, Zenon DEF Inv

\* The empty store is valid.
LEMMA InitInv == Init => Inv
  <1> SUFFICES ASSUME Init PROVE Inv
    OBVIOUS
  <1> DEFINE s == MemoryState(Devices)
  <1>1. /\ \A K, V : IsMap(Empty, K, V)
        /\ DOMAIN Empty = {}
    BY EmptyMap
  <1>2. s = [global |-> s.global, room |-> s.room, events |-> s.events,
             event_ids |-> s.event_ids, commit_epochs |-> s.commit_epochs,
             device_cursors |-> s.device_cursors, welcomes |-> s.welcomes,
             welcome_target_counts |-> s.welcome_target_counts,
             device_welcomes |-> s.device_welcomes, welcome_cursors |-> s.welcome_cursors]
          /\ s.events = Empty /\ s.event_ids = Empty /\ s.commit_epochs = Empty
          /\ s.device_cursors = Empty /\ s.welcomes = Empty /\ s.welcome_target_counts = Empty
          /\ s.device_welcomes = {} /\ s.welcome_cursors = Empty /\ s.room = NoRoom
          /\ s.global = [active |-> Devices, revision |-> 0, next_welcome_delivery_id |-> 1]
    BY DEF MemoryState
  <1> HIDE DEF s
  <1>3. /\ s.global \in GlobalRecord /\ s.room \in RoomRecord
        /\ s.room.oldest_available_sequence = 1 /\ s.room.head_sequence = 0
        /\ s.room.members = {} /\ s.room.required_devices = {}
    BY <1>2 DEF GlobalRecord, RoomRecord, NoRoom
  <1>4. IsMemoryState(s)
    BY <1>1, <1>2, <1>3, Zenon DEF IsMemoryState, HasFields
  <1>5. LogValid(s)
    <2>1. 1..0 = {} /\ 1 \in 1..(0 + 1)
      OBVIOUS
    <2>2. LogContiguous(s)
      BY <1>1, <1>2, <1>3, <2>1 DEF LogContiguous
    <2>3. IndexesExact(s) /\ EpochsChained(s)
      BY <1>1, <1>2 DEF IndexesExact, EpochsChained, IdsOf, EpochsOf
    <2>4. QED BY <1>1, <1>2, <2>2, <2>3 DEF LogValid
  <1>6. MembersActive(s) /\ WelcomesConsistent(s) /\ RequiredHaveCursors(s)
    BY <1>1, <1>2, <1>3
    DEF MembersActive, WelcomesConsistent, WelcomesStored, RequiredHaveCursors
  <1>7. CursorsConsistent(s) /\ CursorsSeen(s, seen)
          /\ DeletionSeen(s, s.room.required_devices, seen, expired)
    BY <1>1, <1>2, <1>3 DEF CursorsConsistent, CursorsSeen, DeletionSeen
  <1>8. Sound(s, seen, expired)
    BY <1>4, <1>5, <1>6, <1>7 DEF Sound
  <1>9. seen \in [Devices -> Nat] /\ expired \in Nat
    BY DEF Init
  <1>10. mem = s /\ worker = Idle /\ loop = Idle /\ pending_acks = {} /\ pending_welcome_acks = {}
    BY DEF Init, s
  <1>11. /\ worker = [busy |-> worker.busy, delta |-> worker.delta]
         /\ worker.busy \in BOOLEAN /\ ~worker.busy /\ IsStateDelta(worker.delta)
         /\ loop = [busy |-> loop.busy, delta |-> loop.delta]
         /\ loop.busy \in BOOLEAN /\ ~loop.busy /\ IsStateDelta(loop.delta)
    BY <1>10, ThreadStates, EmptyDelta, Zenon
  <1>12. TypeOK
    BY <1>4, <1>9, <1>10, <1>11 DEF TypeOK
  <1>13. QED BY <1>8, <1>10, <1>11, <1>12 DEF Inv

\* Every step of either thread keeps the invariant.
LEMMA NextInv == Inv /\ [Next]_vars => Inv'
  <1> SUFFICES ASSUME Inv, [Next]_vars PROVE Inv'
    OBVIOUS
  <1>1. /\ seen \in [Devices -> Nat] /\ expired \in Nat /\ Sound(mem, seen, expired)
        /\ IsMemoryState(mem) /\ IsStateDelta(worker.delta) /\ IsStateDelta(loop.delta)
        /\ pending_acks \subseteq Devices /\ pending_welcome_acks \subseteq Devices
        /\ pending_welcome_acks \subseteq DOMAIN mem.welcome_cursors
    BY DEF Inv, TypeOK
  <1>2. /\ expired <= expired /\ SeenMore(seen, seen)
    BY <1>1 DEF SeenMore
  <1>3. CASE \E c \in {x \in Commit : x.committer \in Online} : CreateRoom(c)
    <2>1. PICK c \in Commit : CreateRoom(c)
      BY <1>3
    <2> DEFINE d == CommitDelta(mem, {c.committer}, c)
    <2>2. worker' = Planned(d) /\ expired' = expired
          /\ UNCHANGED <<mem, loop, pending_acks, pending_welcome_acks, seen>>
      BY <2>1, Zenon DEF CreateRoom, Plan
    <2>3. IsStateDelta(d) /\ WorkerReady(mem, d, seen, expired)
      BY <1>1, CommitReady
    <2> HIDE DEF d
    <2>4. QED BY <1>1, <1>2, <2>2, <2>3, PlanInv
  <1>4. CASE \E c \in {x \in Commit : x.committer \in Online}, e \in Sequences : SubmitCommit(c, e)
    <2>1. PICK c \in Commit, e \in Sequences : SubmitCommit(c, e)
      BY <1>4
    <2> DEFINE d == CommitDelta(mem, mem.room.members, c)
    <2>2. worker' = Planned(d) /\ expired' = expired
          /\ UNCHANGED <<mem, loop, pending_acks, pending_welcome_acks, seen>>
      BY <2>1, Zenon DEF SubmitCommit, Plan
    <2>3. IsStateDelta(d) /\ WorkerReady(mem, d, seen, expired)
      BY <1>1, CommitReady
    <2> HIDE DEF d
    <2>4. QED BY <1>1, <1>2, <2>2, <2>3, PlanInv
  <1>5. CASE \E x \in Online, id \in EventIds, e \in Sequences, ct \in Ciphertexts :
               SubmitApplication(x, id, e, ct)
    <2>1. PICK x \in Online, id \in EventIds, e \in Sequences, ct \in Ciphertexts :
                 SubmitApplication(x, id, e, ct)
      BY <1>5
    <2> DEFINE d == append_application(mem, id, e, ct)
    <2>2. worker' = Planned(d) /\ expired' = expired
          /\ UNCHANGED <<mem, loop, pending_acks, pending_welcome_acks, seen>>
      BY <2>1, Zenon DEF SubmitApplication, Plan
    <2>3. e = mem.room.epoch /\ id \notin DOMAIN mem.event_ids /\ ~mem.room.revocation_pending
      BY <2>1 DEF SubmitApplication, MlsSubmitOutcome
    <2>4. IsStateDelta(d) /\ WorkerReady(mem, d, seen, expired)
      BY <1>1, <2>3, ApplicationReady
    <2> HIDE DEF d
    <2>5. QED BY <1>1, <1>2, <2>2, <2>4, PlanInv
  <1>6. CASE \E active \in SUBSET Devices : PutRoster(active)
    <2>1. PICK active \in SUBSET Devices : PutRoster(active)
      BY <1>6
    <2> DEFINE d == put_roster(mem, active)
    <2>2. worker' = Planned(d) /\ expired' = expired
          /\ UNCHANGED <<mem, loop, pending_acks, pending_welcome_acks, seen>>
      BY <2>1, Zenon DEF PutRoster, Plan
    <2>3. IsStateDelta(d) /\ WorkerReady(mem, d, seen, expired)
      BY <1>1, RosterReady
    <2> HIDE DEF d
    <2>4. QED BY <1>1, <1>2, <2>2, <2>3, PlanInv
  <1>7. CASE \E cutoff \in 0..mem.room.head_sequence, t \in SUBSET mem.device_welcomes :
               Cleanup(cutoff, t)
    <2>1. PICK cutoff \in 0..mem.room.head_sequence, targets \in SUBSET mem.device_welcomes :
                 Cleanup(cutoff, targets)
      BY <1>7
    <2> DEFINE d == CleanupDelta(mem, cutoff, targets)
    <2>2. worker' = Planned(d) /\ expired' = Larger(expired, ExpiredNow(mem, cutoff))
          /\ UNCHANGED <<mem, loop, pending_acks, pending_welcome_acks, seen>>
      BY <2>1, Zenon DEF Cleanup, Plan
    <2>3. ExpiredNow(mem, cutoff) \in Nat
      <3>1. mem.room.head_sequence \in Nat
              /\ mem.room.oldest_available_sequence \in 1..(mem.room.head_sequence + 1)
        BY <1>1, SoundTypes
      <3>2. QED BY <3>1 DEF ExpiredNow, Expiry
    <2>4. expired' \in Nat /\ expired <= expired'
      BY <1>1, <2>2, <2>3 DEF Larger
    <2>5. Sound(mem, seen, expired')
      BY <1>1, <1>2, <2>4, SoundGrows
    <2>6. IsStateDelta(d) /\ WorkerReady(mem, d, seen, expired')
      BY <1>1, <2>2, <2>4, <2>5, CleanupReady
    <2> HIDE DEF d
    <2>7. QED BY <2>2, <2>4, <2>6, PlanInv
  <1>8. CASE \E x \in Devices : PersistAcknowledgement(x)
    <2>1. PICK x \in Devices : PersistAcknowledgement(x)
      BY <1>8
    <2> DEFINE d == persist_acknowledgement(mem, x)
    <2>2. UNCHANGED <<mem, loop, pending_welcome_acks, seen, expired>>
            /\ pending_acks' \subseteq pending_acks
      BY <2>1 DEF PersistAcknowledgement
    <2>3. worker' = IF x \in DOMAIN mem.device_cursors THEN Planned(d) ELSE Idle
      BY <2>1, Zenon DEF PersistAcknowledgement
    <2>4. CASE x \in DOMAIN mem.device_cursors
      <3>1. IsStateDelta(d) /\ WorkerReady(mem, d, seen, expired)
        BY <1>1, <2>4, PersistReady
      <3> HIDE DEF d
      <3>2. QED BY <1>1, <1>2, <2>2, <2>3, <2>4, <3>1, PlanInv
    <2>5. CASE x \notin DOMAIN mem.device_cursors
      <3>1. worker' = Idle
        BY <2>3, <2>5
      <3>2. QED BY <2>2, <3>1, IdleInv
    <2>6. QED BY <2>4, <2>5
  <1>9. CASE \E x \in Devices : PersistWelcomeAcknowledgement(x)
    <2>1. PICK x \in Devices : PersistWelcomeAcknowledgement(x)
      BY <1>9
    <2> DEFINE i == mem.welcome_cursors[x]
               d == acknowledge_welcome(x, i)
    <2>2. UNCHANGED <<mem, loop, pending_acks, seen, expired>> /\ worker' = Planned(d)
            /\ x \in pending_welcome_acks
            /\ pending_welcome_acks' = pending_welcome_acks \ {x}
      BY <2>1, Zenon DEF PersistWelcomeAcknowledgement
    <2>3. WelcomeIdValid(i, mem)
      BY <1>1, <2>2 DEF Sound, WelcomesConsistent
    <2> HIDE DEF i
    <2>4. IsStateDelta(d) /\ WorkerReady(mem, d, seen, expired)
      BY <1>1, <2>3, WelcomeAckReady
    <2> HIDE DEF d
    <2>5. QED BY <1>1, <1>2, <2>2, <2>4, PlanInv
  <1>10. CASE WorkerPublish
    BY <1>10, WorkerPublishInv
  <1>11. CASE WorkerFail
    BY <1>11, IdleInv DEF WorkerFail
  <1>12. CASE \E x \in Online, q \in Sequences : Acknowledge(x, q)
    <2>1. PICK x \in Online, q \in Sequences : Acknowledge(x, q)
      BY <1>12
    <2> DEFINE d == acknowledge(mem, x, q)
    <2>2. /\ loop' = Planned(d) /\ AckAdvances(mem, x, q)
          /\ seen' = [seen EXCEPT ![x] = Larger(seen[x], q)]
          /\ UNCHANGED <<mem, worker, pending_acks, pending_welcome_acks, expired>>
      BY <2>1, Zenon DEF Acknowledge
    <2>3. x \in Devices /\ q \in Nat
      BY OnlineAssumption, MaxSequenceAssumption DEF Sequences
    <2>4. seen' \in [Devices -> Nat] /\ SeenMore(seen, seen')
      BY <1>1, <2>2, <2>3 DEF SeenMore, Larger
    <2>5. IsStateDelta(d) /\ LoopReady(mem, d, seen')
      BY <1>1, <2>2, <2>3, AcknowledgeReady, Zenon
    <2> HIDE DEF d
    <2>6. QED BY <2>2, <2>4, <2>5, LoopPlanInv, Zenon
  <1>13. CASE \E x \in Inbox, i \in 1..(mem.global.next_welcome_delivery_id - 1) :
                AcknowledgeWelcome(x, i)
    <2>1. PICK x \in Inbox, i \in 1..(mem.global.next_welcome_delivery_id - 1) :
                 AcknowledgeWelcome(x, i)
      BY <1>13
    <2> DEFINE d == acknowledge_welcome(x, i)
    <2>2. /\ loop' = Planned(d)
          /\ UNCHANGED <<mem, worker, pending_acks, pending_welcome_acks, seen, expired>>
      BY <2>1, Zenon DEF AcknowledgeWelcome
    <2>3. x \in Devices /\ WelcomeIdValid(i, mem)
      BY OnlineAssumption DEF WelcomeIdValid
    <2>4. IsStateDelta(d) /\ LoopReady(mem, d, seen)
      BY <1>1, <2>3, WelcomeAckReady, Zenon
    <2> HIDE DEF d
    <2>5. QED BY <1>1, <1>2, <2>2, <2>4, LoopPlanInv
  <1>14. CASE LoopPublish
    BY <1>14, LoopPublishInv
  <1>15. CASE UNCHANGED vars
    BY <1>15, Zenon DEF vars, Inv, TypeOK
  <1>16. QED
    BY <1>3, <1>4, <1>5, <1>6, <1>7, <1>8, <1>9, <1>10, <1>11, <1>12, <1>13, <1>14, <1>15
    DEF Next, Worker, Loop

\* Only the publications change the shared state, and only as LogStep allows.
LEMMA NextLogStep == Inv /\ [Next]_vars => LogStep(mem, mem')
  <1> SUFFICES ASSUME Inv, [Next]_vars PROVE LogStep(mem, mem')
    OBVIOUS
  <1>1. CASE mem' = mem
    <2>1. mem.room \in RoomRecord /\ mem.global \in GlobalRecord
      BY DEF Inv, TypeOK, IsMemoryState
    <2>2. QED BY <1>1, <2>1 DEF LogStep, RoomRecord, GlobalRecord
  <1>2. CASE WorkerPublish
    BY <1>2, WorkerPublishInv
  <1>3. CASE LoopPublish
    BY <1>3, LoopPublishInv
  <1>4. mem' = mem \/ WorkerPublish \/ LoopPublish
    BY Zenon DEF Next, Worker, Loop, vars, CreateRoom, SubmitCommit, SubmitApplication, PutRoster,
        Cleanup, Plan, PersistAcknowledgement, PersistWelcomeAcknowledgement, WorkerFail,
        Acknowledge, AcknowledgeWelcome
  <1>5. QED BY <1>1, <1>2, <1>3, <1>4

(***************************************************************************)
(* Theorems.                                                               *)
(***************************************************************************)
\* The inductive invariant holds in every behaviour of the two threads.
THEOREM DeliveryInvariant == Spec => []Inv
  BY InitInv, NextInv, PTL DEF Spec

\* The shared state always has the shape of MemoryState.
THEOREM DeliveryTypes == Spec => []TypeOK
  <1>1. Inv => TypeOK
    BY DEF Inv
  <1>2. QED BY <1>1, DeliveryInvariant, PTL

\* The retained log has no gap and both its indexes are exact: what
\* validate_memory requires of the log when the store is opened.
THEOREM StoredLogCorrect == Spec => []StoredLogValid
  <1>1. Inv => StoredLogValid
    BY DEF Inv, Sound, LogValid, StoredLogValid
  <1>2. QED BY <1>1, DeliveryInvariant, PTL

\* The epochs of the retained events form a chain that ends at the room's epoch.
THEOREM EpochChainCorrect == Spec => []EpochChain
  <1>1. Inv => EpochChain
    BY DEF Inv, Sound, LogValid, EpochChain
  <1>2. QED BY <1>1, DeliveryInvariant, PTL

\* Every required device has a cursor and every cursor is consistent, although
\* both threads write cursors they read before.
THEOREM CursorsCorrect == Spec => []CursorsValid
  <1>1. Inv => CursorsValid
    BY DEF Inv, Sound, CursorsValid
  <1>2. QED BY <1>1, DeliveryInvariant, PTL

\* Cleanup deletes an event a required device has not seen only when retention
\* expired it.
THEOREM RetentionCorrect == Spec => []NothingUnseenDeleted
  <1>1. Inv => NothingUnseenDeleted
    BY DEF Inv, Sound, DeletionSeen, NothingUnseenDeleted
  <1>2. QED BY <1>1, DeliveryInvariant, PTL

\* Welcomes, their targets, the target counts and the Welcome cursors agree.
THEOREM WelcomesCorrect == Spec => []WelcomesValid
  <1>1. Inv => WelcomesValid
    BY DEF Inv, Sound, WelcomesValid
  <1>2. QED BY <1>1, DeliveryInvariant, PTL

\* A retained event never changes, and neither the epoch nor the sequences of
\* the room go back.
THEOREM AppendOnlyCorrect == Spec => LogAppendOnly
  <1> DEFINE A == /\ \A q \in DOMAIN mem.events \cap DOMAIN mem'.events :
                        mem'.events[q] = mem.events[q]
                  /\ mem'.room.epoch >= mem.room.epoch
                  /\ mem'.room.head_sequence >= mem.room.head_sequence
                  /\ mem'.room.oldest_available_sequence >= mem.room.oldest_available_sequence
  <1>1. Inv /\ [Next]_vars => [A]_vars
    BY NextLogStep DEF LogStep
  <1> HIDE DEF A
  <1>2. Spec => [][A]_vars
    BY <1>1, DeliveryInvariant, PTL DEF Spec
  <1>3. QED BY <1>2 DEF LogAppendOnly, A

\* No application is stored while the group has the leaf of a revoked device.
THEOREM RevocationCorrect == Spec => NoApplicationToRevokedLeaf
  <1> DEFINE A == \A q \in DOMAIN mem'.events \ DOMAIN mem.events :
                     IsApplication(mem'.events[q]) => mem.room.members \subseteq mem.global.active
  <1>1. Inv /\ [Next]_vars => [A]_vars
    BY NextLogStep DEF LogStep
  <1> HIDE DEF A
  <1>2. Spec => [][A]_vars
    BY <1>1, DeliveryInvariant, PTL DEF Spec
  <1>3. QED BY <1>2 DEF NoApplicationToRevokedLeaf, A
=============================================================================
