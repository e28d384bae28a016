---------------------------- MODULE MlsLogProofs ----------------------------
(***************************************************************************)
(* What appending an event, pruning the log, storing a Welcome and         *)
(* deleting Welcome targets do to the validity of the stored state.        *)
(***************************************************************************)
EXTENDS MlsDelivery, MlsStoreProofs, WellFoundedInduction

(***************************************************************************)
(* The log under the planners.                                             *)
(***************************************************************************)
\* Whether the log is valid depends only on the events, the two indexes and the
\* room's epoch and sequences.
LEMMA LogValidSame ==
    ASSUME NEW s, NEW t, LogValid(s), t.events = s.events, t.event_ids = s.event_ids,
           t.commit_epochs = s.commit_epochs, t.room.head_sequence = s.room.head_sequence,
           t.room.oldest_available_sequence = s.room.oldest_available_sequence,
           t.room.epoch = s.room.epoch
    PROVE  LogValid(t) /\ LogContiguous(t)
  <1>1. LogContiguous(t)
    BY Zenon DEF LogValid, LogContiguous
  <1>2. IndexesExact(t)
    <2>1. \A seqs : IdsOf(t, seqs) = IdsOf(s, seqs) /\ EpochsOf(t, seqs) = EpochsOf(s, seqs)
      BY DEF IdsOf, EpochsOf
    <2>2. IndexesExact(s)
      BY Zenon DEF LogValid
    <2>3. QED BY <2>1, <2>2 DEF IndexesExact
  <1>3. EpochsChained(t)
    <2>1. EpochsChained(s)
      BY Zenon DEF LogValid
    <2>2. QED BY <2>1, Zenon DEF EpochsChained
  <1>4. QED BY <1>1, <1>2, <1>3, Zenon DEF LogValid

\* A step that changes neither the events nor the counters is a step of the log.
LEMMA LogStepSame ==
    ASSUME NEW s, NEW t, s.room \in RoomRecord, s.global \in GlobalRecord, t.events = s.events,
           t.room.head_sequence = s.room.head_sequence, t.room.epoch = s.room.epoch,
           t.room.oldest_available_sequence = s.room.oldest_available_sequence,
           t.global.next_welcome_delivery_id = s.global.next_welcome_delivery_id
    PROVE  LogStep(s, t)
  <1>1. /\ t.room.epoch >= s.room.epoch /\ t.room.head_sequence >= s.room.head_sequence
        /\ t.room.oldest_available_sequence >= s.room.oldest_available_sequence
        /\ t.global.next_welcome_delivery_id >= s.global.next_welcome_delivery_id
    BY DEF RoomRecord, GlobalRecord
  <1>2. QED BY <1>1, Zenon DEF LogStep

\* Whether a step is one of the log depends only on room, roster and events.
LEMMA LogStepLike ==
    ASSUME NEW s, NEW p, NEW t, NEW r, LogStep(s, p),
           t.events = s.events, t.room = s.room, t.global = s.global,
           r.events = p.events, r.room = p.room, r.global = p.global
    PROVE  LogStep(t, r)
  BY Zenon DEF LogStep

\* Appending an event that starts at the room's epoch, with a fresh id if it is
\* an application, keeps the log valid.
LEMMA AppendKeepsLog ==
    ASSUME NEW s, IsMemoryState(s), LogValid(s), NEW t, NEW e \in MlsDeliveryEvent,
           e.sequence = s.room.head_sequence + 1, StartEpoch(e) = s.room.epoch,
           IsCommit(e) => e.epoch = e.parent_epoch + 1,
           IsApplication(e) => e.event_id \notin DOMAIN s.event_ids,
           InsertedEvent(s, e, t), NEW room \in RoomRecord,
           room.head_sequence = s.room.head_sequence + 1,
           room.oldest_available_sequence = s.room.oldest_available_sequence,
           room.epoch = e.epoch, NEW r, r.room = room,
           r.events = t.events, r.event_ids = t.event_ids, r.commit_epochs = t.commit_epochs
    PROVE  /\ LogValid(r)
           /\ IsMap(r.events, Nat, MlsDeliveryEvent) /\ IsMap(r.event_ids, EventIds, Nat)
           /\ IsMap(r.commit_epochs, Nat, Nat)
           /\ DOMAIN r.events = DOMAIN s.events \cup {e.sequence}
           /\ \A q \in DOMAIN s.events : r.events[q] = s.events[q]
           /\ r.events[e.sequence] = e
  <1> DEFINE h == s.room.head_sequence
             o == s.room.oldest_available_sequence
  <1>1. /\ h \in Nat /\ o \in Nat /\ s.room.epoch \in Nat
        /\ IsMap(s.events, Nat, MlsDeliveryEvent) /\ IsMap(s.event_ids, EventIds, Nat)
        /\ IsMap(s.commit_epochs, Nat, Nat)
    BY DEF IsMemoryState, RoomRecord
  <1>2. /\ o \in 1..(h + 1) /\ DOMAIN s.events = o..h
        /\ \A q \in DOMAIN s.events : s.events[q].sequence = q
    BY DEF LogValid, LogContiguous
  <1>3. e.sequence \in Nat /\ e.epoch \in Nat /\ (IsCommit(e) => e.parent_epoch \in Nat)
          /\ (IsApplication(e) => e.event_id \in EventIds) /\ (IsCommit(e) <=> ~IsApplication(e))
    BY DEF MlsDeliveryEvent, CommitEvent, ApplicationEvent, IsCommit, IsApplication
  <1>4. /\ IsMap(r.events, Nat, MlsDeliveryEvent)
        /\ DOMAIN r.events = DOMAIN s.events \cup {e.sequence}
        /\ \A q \in DOMAIN s.events : r.events[q] = s.events[q]
        /\ r.events[e.sequence] = e
    <2>2. r.events = With(s.events, Entry(e.sequence, e))
      BY DEF InsertedEvent
    <2>3. e.sequence \notin DOMAIN s.events
      BY <1>1, <1>2
    <2>4. IsMap(r.events, Nat, MlsDeliveryEvent) /\ Added(s.events, e.sequence, e, r.events)
      BY <1>1, <1>3, <2>2, <2>3, AddEntry, Zenon
    <2>5. QED BY <2>4 DEF Added
  <1>5. IsApplication(e) =>
          /\ IsMap(r.event_ids, EventIds, Nat)
          /\ DOMAIN r.event_ids = DOMAIN s.event_ids \cup {e.event_id}
          /\ \A i \in DOMAIN s.event_ids : r.event_ids[i] = s.event_ids[i]
          /\ r.event_ids[e.event_id] = e.sequence
          /\ r.commit_epochs = s.commit_epochs
    <2>1. HAVE IsApplication(e)
    <2>3. r.event_ids = With(s.event_ids, Entry(e.event_id, e.sequence))
            /\ r.commit_epochs = s.commit_epochs
      BY <1>3, <2>1 DEF InsertedEvent
    <2>4. e.event_id \notin DOMAIN s.event_ids
      BY <2>1
    <2>5. IsMap(r.event_ids, EventIds, Nat)
            /\ Added(s.event_ids, e.event_id, e.sequence, r.event_ids)
      BY <1>1, <1>3, <2>1, <2>3, <2>4, AddEntry, ZenonT(60)
    <2>6. QED BY <2>3, <2>5 DEF Added
  <1>6. IsCommit(e) =>
          /\ e.parent_epoch \notin DOMAIN s.commit_epochs
          /\ IsMap(r.commit_epochs, Nat, Nat)
          /\ DOMAIN r.commit_epochs = DOMAIN s.commit_epochs \cup {e.parent_epoch}
          /\ \A i \in DOMAIN s.commit_epochs : r.commit_epochs[i] = s.commit_epochs[i]
          /\ r.commit_epochs[e.parent_epoch] = e.sequence
          /\ r.event_ids = s.event_ids
    <2>1. HAVE IsCommit(e)
    <2>3. r.commit_epochs = With(s.commit_epochs, Entry(e.parent_epoch, e.sequence))
            /\ r.event_ids = s.event_ids
      BY <1>3, <2>1 DEF InsertedEvent
    <2>4. e.parent_epoch \notin DOMAIN s.commit_epochs
      BY <1>1, <2>1 DEF LogValid, IndexesExact, EpochsOf, StartEpoch
    <2>5. IsMap(r.commit_epochs, Nat, Nat)
            /\ Added(s.commit_epochs, e.parent_epoch, e.sequence, r.commit_epochs)
      BY <1>1, <1>3, <2>1, <2>3, <2>4, AddEntry, ZenonT(60)
    <2>6. QED BY <2>3, <2>4, <2>5 DEF Added
  <1>7. LogContiguous(r)
    BY <1>1, <1>2, <1>4 DEF LogContiguous
  <1>8. IndexesExact(r)
    <2>1. IdsOf(r, DOMAIN r.events) =
            IdsOf(s, DOMAIN s.events) \cup (IF IsApplication(e) THEN {e.event_id} ELSE {})
      BY <1>4 DEF IdsOf
    <2>2. EpochsOf(r, DOMAIN r.events) =
            EpochsOf(s, DOMAIN s.events) \cup (IF IsCommit(e) THEN {e.parent_epoch} ELSE {})
      BY <1>4 DEF EpochsOf
    <2>3. DOMAIN r.event_ids = IdsOf(r, DOMAIN r.events)
            /\ DOMAIN r.commit_epochs = EpochsOf(r, DOMAIN r.events)
      BY <1>3, <1>5, <1>6, <2>1, <2>2, Zenon DEF LogValid, IndexesExact
    <2>4. ASSUME NEW q \in DOMAIN r.events
          PROVE  IF IsApplication(r.events[q]) THEN r.event_ids[r.events[q].event_id] = q
                                               ELSE r.commit_epochs[r.events[q].parent_epoch] = q
      <3>1. CASE q = e.sequence
        BY <1>3, <1>4, <1>5, <1>6, <3>1
      <3>2. CASE q \in DOMAIN s.events
        <4>1. /\ r.events[q] = s.events[q]
              /\ IF IsApplication(s.events[q]) THEN s.event_ids[s.events[q].event_id] = q
                                               ELSE s.commit_epochs[s.events[q].parent_epoch] = q
          BY <1>4, <3>2 DEF LogValid, IndexesExact
        <4>2. IsCommit(s.events[q]) <=> ~IsApplication(s.events[q])
          BY <1>1, <3>2 DEF IsMap, MlsDeliveryEvent, CommitEvent, ApplicationEvent, IsCommit,
                            IsApplication
        <4>3. IF IsApplication(s.events[q]) THEN s.events[q].event_id \in DOMAIN s.event_ids
                                            ELSE s.events[q].parent_epoch \in DOMAIN s.commit_epochs
          BY <3>2, <4>2 DEF LogValid, IndexesExact, IdsOf, EpochsOf
        <4>4. QED BY <1>3, <1>5, <1>6, <4>1, <4>3
      <3>3. QED BY <1>4, <3>1, <3>2
    <2>5. QED BY <2>3, <2>4 DEF IndexesExact
  <1>9. EpochsChained(r)
    <2>1. ASSUME NEW q \in DOMAIN r.events, q + 1 \in DOMAIN r.events
          PROVE  StartEpoch(r.events[q + 1]) = r.events[q].epoch
      <3>1. q \in DOMAIN s.events /\ q \in Nat
        BY <1>1, <1>2, <1>4, <2>1
      <3>2. CASE q + 1 = e.sequence
        <4>1. q = h
          BY <1>1, <3>1, <3>2
        <4>2. QED BY <1>4, <3>1, <3>2, <4>1 DEF LogValid, EpochsChained
      <3>3. CASE q + 1 \in DOMAIN s.events
        BY <1>4, <3>1, <3>3 DEF LogValid, EpochsChained
      <3>4. QED BY <1>4, <2>1, <3>2, <3>3
    <2>2. ASSUME NEW q \in DOMAIN r.events
          PROVE  /\ q = room.head_sequence => r.events[q].epoch = room.epoch
                 /\ IsCommit(r.events[q]) => r.events[q].epoch = r.events[q].parent_epoch + 1
      <3>1. CASE q = e.sequence
        BY <1>4, <3>1
      <3>2. CASE q \in DOMAIN s.events
        <4>1. q # room.head_sequence
          BY <1>1, <1>2, <3>2
        <4>2. QED BY <1>4, <3>2, <4>1 DEF LogValid, EpochsChained
      <3>3. QED BY <1>4, <3>1, <3>2
    <2>3. QED BY <2>1, <2>2 DEF EpochsChained
  <1>10. ASSUME NEW q \in DOMAIN r.events, IsCommit(r.events[q])
         PROVE  r.events[q].parent_epoch < r.room.epoch
    <2>1. e.epoch >= s.room.epoch
      BY <1>1, <1>3 DEF StartEpoch
    <2>2. CASE q = e.sequence
      BY <1>3, <1>4, <1>10, <2>2
    <2>3. CASE q \in DOMAIN s.events
      <3>1. s.events[q].parent_epoch < s.room.epoch /\ s.events[q].parent_epoch \in Nat
        BY <1>1, <1>4, <1>10, <2>3 DEF LogValid, IsMap, IsCommit, MlsDeliveryEvent, CommitEvent,
                                       ApplicationEvent
      <3>2. QED BY <1>1, <1>3, <1>4, <2>1, <2>3, <3>1
    <2>4. QED BY <1>4, <2>2, <2>3
  <1>11. IsMap(r.event_ids, EventIds, Nat) /\ IsMap(r.commit_epochs, Nat, Nat)
    BY <1>1, <1>3, <1>5, <1>6
  <1>12. QED BY <1>4, <1>7, <1>8, <1>9, <1>10, <1>11 DEF LogValid

\* Deleting the oldest events and moving the oldest available sequence after
\* them keeps the log valid.
LEMMA PruneKeepsLog ==
    ASSUME NEW s, IsMemoryState(s), LogValid(s), NEW t, NEW end \in Nat,
           s.room.oldest_available_sequence <= end + 1, end <= s.room.head_sequence,
           RemovedEvents(s, s.room.oldest_available_sequence..end, t), NEW room \in RoomRecord,
           room.head_sequence = s.room.head_sequence,
           room.oldest_available_sequence = end + 1,
           room.epoch = s.room.epoch, NEW r, r.room = room,
           r.events = t.events, r.event_ids = t.event_ids, r.commit_epochs = t.commit_epochs
    PROVE  /\ LogValid(r)
           /\ IsMap(r.events, Nat, MlsDeliveryEvent) /\ IsMap(r.event_ids, EventIds, Nat)
           /\ IsMap(r.commit_epochs, Nat, Nat)
           /\ DOMAIN r.events = (end + 1)..s.room.head_sequence
           /\ DOMAIN r.events \subseteq DOMAIN s.events
           /\ \A q \in DOMAIN r.events : r.events[q] = s.events[q]
  <1> DEFINE h == s.room.head_sequence
             o == s.room.oldest_available_sequence
  <1>1. /\ h \in Nat /\ o \in Nat /\ s.room.epoch \in Nat
        /\ IsMap(s.events, Nat, MlsDeliveryEvent) /\ IsMap(s.event_ids, EventIds, Nat)
        /\ IsMap(s.commit_epochs, Nat, Nat)
    BY DEF IsMemoryState, RoomRecord
  <1>2. /\ o \in 1..(h + 1) /\ DOMAIN s.events = o..h
        /\ \A q \in DOMAIN s.events : s.events[q].sequence = q
    BY DEF LogValid, LogContiguous
  <1>3. /\ IsMap(r.events, Nat, MlsDeliveryEvent)
        /\ DOMAIN r.events = DOMAIN s.events \ (o..end)
        /\ \A q \in DOMAIN r.events : r.events[q] = s.events[q]
    <2>1. r.events = Without(s.events, o..end)
      BY DEF RemovedEvents
    <2>2. IsMap(r.events, Nat, MlsDeliveryEvent) /\ Removed(s.events, o..end, r.events)
      BY <1>1, <2>1, RemoveKeys, Zenon
    <2>3. QED BY <2>2, Zenon DEF Removed
  <1>4. DOMAIN r.events = (end + 1)..h
    BY <1>1, <1>2, <1>3
  <1>5. /\ IsMap(r.event_ids, EventIds, Nat)
        /\ DOMAIN r.event_ids = DOMAIN s.event_ids \ IdsOf(s, o..end)
        /\ \A i \in DOMAIN r.event_ids : r.event_ids[i] = s.event_ids[i]
    <2>1. r.event_ids = Without(s.event_ids, IdsOf(s, o..end))
      BY DEF RemovedEvents
    <2>2. IsMap(r.event_ids, EventIds, Nat) /\ Removed(s.event_ids, IdsOf(s, o..end), r.event_ids)
      BY <1>1, <2>1, RemoveKeys, Zenon
    <2>3. QED BY <2>2, Zenon DEF Removed
  <1>6. /\ IsMap(r.commit_epochs, Nat, Nat)
        /\ DOMAIN r.commit_epochs = DOMAIN s.commit_epochs \ EpochsOf(s, o..end)
        /\ \A i \in DOMAIN r.commit_epochs : r.commit_epochs[i] = s.commit_epochs[i]
    <2>1. r.commit_epochs = Without(s.commit_epochs, EpochsOf(s, o..end))
      BY DEF RemovedEvents
    <2>2. IsMap(r.commit_epochs, Nat, Nat) /\ Removed(s.commit_epochs, EpochsOf(s, o..end), r.commit_epochs)
      BY <1>1, <2>1, RemoveKeys, Zenon
    <2>3. QED BY <2>2, Zenon DEF Removed
  <1>7. LogContiguous(r)
    <2>1. end + 1 \in 1..(h + 1)
      BY <1>1, <1>2
    <2>2. \A q \in DOMAIN r.events : r.events[q].sequence = q
      BY <1>2, <1>3
    <2>3. QED BY <1>4, <2>1, <2>2 DEF LogContiguous
  <1> DEFINE Kept == DOMAIN r.events
             Gone == (o..end) \cap DOMAIN s.events
  <1>8. Kept \subseteq DOMAIN s.events /\ Gone \subseteq DOMAIN s.events
          /\ DOMAIN s.events = Kept \cup Gone /\ Kept \cap Gone = {}
    BY <1>3
  <1>9. \A q \in DOMAIN s.events :
           /\ IsApplication(s.events[q]) => s.event_ids[s.events[q].event_id] = q
           /\ IsCommit(s.events[q]) => s.commit_epochs[s.events[q].parent_epoch] = q
           /\ IsCommit(s.events[q]) <=> ~IsApplication(s.events[q])
    <2>1. \A e \in MlsDeliveryEvent : IsCommit(e) <=> ~IsApplication(e)
      BY DEF MlsDeliveryEvent, CommitEvent, ApplicationEvent, IsCommit, IsApplication
    <2>2. QED BY <1>1, <2>1 DEF LogValid, IndexesExact, IsMap
  <1> HIDE DEF Kept, Gone
  <1>10. DOMAIN r.event_ids = IdsOf(r, Kept)
    <2>1. IdsOf(s, o..end) = {s.events[q].event_id : q \in {p \in Gone : IsApplication(s.events[p])}}
      BY DEF IdsOf, Gone
    <2>2. IdsOf(r, Kept) = {s.events[q].event_id : q \in {p \in Kept : IsApplication(s.events[p])}}
      BY <1>3 DEF IdsOf, Kept
    <2>3. DOMAIN s.event_ids = {s.events[q].event_id :
                                   q \in {p \in DOMAIN s.events : IsApplication(s.events[p])}}
      BY DEF LogValid, IndexesExact, IdsOf
    <2>4. QED BY <1>5, <1>8, <1>9, <2>1, <2>2, <2>3
  <1>11. DOMAIN r.commit_epochs = EpochsOf(r, Kept)
    <2>1. EpochsOf(s, o..end) = {s.events[q].parent_epoch : q \in {p \in Gone : IsCommit(s.events[p])}}
      BY DEF EpochsOf, Gone
    <2>2. EpochsOf(r, Kept) = {s.events[q].parent_epoch : q \in {p \in Kept : IsCommit(s.events[p])}}
      BY <1>3 DEF EpochsOf, Kept
    <2>3. DOMAIN s.commit_epochs = {s.events[q].parent_epoch :
                                       q \in {p \in DOMAIN s.events : IsCommit(s.events[p])}}
      BY DEF LogValid, IndexesExact, EpochsOf
    <2>4. QED BY <1>6, <1>8, <1>9, <2>1, <2>2, <2>3
  <1>12. IndexesExact(r)
    <2>1. ASSUME NEW q \in Kept
          PROVE  IF IsApplication(r.events[q]) THEN r.event_ids[r.events[q].event_id] = q
                                               ELSE r.commit_epochs[r.events[q].parent_epoch] = q
      <3>1. r.events[q] = s.events[q] /\ q \in DOMAIN s.events
        BY <1>3, <1>8 DEF Kept
      <3>2. CASE IsApplication(s.events[q])
        <4>1. s.events[q].event_id \in IdsOf(r, Kept)
          BY <3>1, <3>2 DEF IdsOf, Kept
        <4>2. QED BY <1>5, <1>9, <1>10, <3>1, <3>2, <4>1
      <3>3. CASE ~IsApplication(s.events[q])
        <4>1. s.events[q].parent_epoch \in EpochsOf(r, Kept)
          BY <1>9, <3>1, <3>3 DEF EpochsOf, Kept
        <4>2. QED BY <1>6, <1>9, <1>11, <3>1, <3>3, <4>1
      <3>4. QED BY <3>2, <3>3
    <2>2. QED BY <1>10, <1>11, <2>1 DEF IndexesExact, Kept
  <1>13. EpochsChained(r)
    BY <1>3, <1>8 DEF LogValid, EpochsChained, Kept
  <1>14. QED BY <1>3, <1>4, <1>5, <1>6, <1>7, <1>8, <1>12, <1>13 DEF LogValid, Kept

(***************************************************************************)
(* The Welcomes under the planners.                                        *)
(***************************************************************************)
\* The targets of one Welcome.
TargetsOf(dw, i) == {x \in dw : x[2] = i}

\* One Welcome has finitely many targets.
LEMMA TargetsFinite ==
    ASSUME NEW dw, dw \subseteq Devices \X Nat, NEW i \in Nat
    PROVE  IsFiniteSet(TargetsOf(dw, i))
  <1>1. IsFiniteSet({i})
    BY FS_Singleton, Zenon
  <1>2. IsFiniteSet(Devices \X {i})
    BY <1>1, FS_Product, DevicesAssumption
  <1>3. TargetsOf(dw, i) \in SUBSET (Devices \X {i})
    BY DEF TargetsOf
  <1>4. QED BY <1>2, <1>3, FS_Subset

\* The targets of a new Welcome are as many as its devices.
LEMMA TargetsCount ==
    ASSUME NEW D \in SUBSET Devices, NEW i
    PROVE  Cardinality({<<x, i>> : x \in D}) = Cardinality(D)
  <1> DEFINE f == [x \in D |-> <<x, i>>]
             T == {<<x, i>> : x \in D}
  <1>1. f \in Bijection(D, T)
    <2>1. f \in [D -> T] /\ \A y \in T : \E x \in D : f[x] = y
      OBVIOUS
    <2>2. IsInjective(f)
      BY DEF IsInjective
    <2> HIDE DEF f, T
    <2>3. QED BY <2>1, <2>2 DEF Bijection, Injection, Surjection
  <1>2. ExistsBijection(D, T)
    BY <1>1 DEF ExistsBijection
  <1>3. IsFiniteSet(D)
    BY FS_Subset, DevicesAssumption
  <1> HIDE DEF T
  <1>4. Cardinality(T) = Cardinality(D)
    BY <1>2, <1>3, FS_Bijection
  <1>5. QED BY <1>4 DEF T

\* A Welcome stays valid when the log grows or loses its oldest events.
LEMMA WelcomeKept ==
    ASSUME NEW s, IsMemoryState(s), WelcomesStored(s), LogContiguous(s), NEW t,
           t.room \in RoomRecord, t.global \in GlobalRecord, LogContiguous(t), LogStep(s, t),
           NEW i \in DOMAIN s.welcomes
    PROVE  /\ i \in 1..(t.global.next_welcome_delivery_id - 1)
           /\ s.welcomes[i].sequence \in 1..t.room.head_sequence
           /\ s.welcomes[i].device_ids # {}
           /\ s.welcomes[i].sequence >= t.room.oldest_available_sequence =>
                  s.welcomes[i].sequence \in DOMAIN t.events
                    /\ IsCommit(t.events[s.welcomes[i].sequence])
  <1> DEFINE q == s.welcomes[i].sequence
  <1>1. /\ s.room.head_sequence \in Nat /\ s.room.oldest_available_sequence \in Nat
        /\ t.room.head_sequence \in Nat /\ t.room.oldest_available_sequence \in Nat
        /\ s.global.next_welcome_delivery_id \in Nat /\ t.global.next_welcome_delivery_id \in Nat
    BY DEF IsMemoryState, RoomRecord, GlobalRecord
  <1>2. /\ i \in 1..(s.global.next_welcome_delivery_id - 1)
        /\ q \in 1..s.room.head_sequence
        /\ s.welcomes[i].device_ids # {}
        /\ q >= s.room.oldest_available_sequence => q \in DOMAIN s.events /\ IsCommit(s.events[q])
    BY DEF WelcomesStored
  <1>3. /\ s.room.head_sequence <= t.room.head_sequence
        /\ s.room.oldest_available_sequence <= t.room.oldest_available_sequence
        /\ s.global.next_welcome_delivery_id <= t.global.next_welcome_delivery_id
        /\ q \in DOMAIN s.events \cap DOMAIN t.events => t.events[q] = s.events[q]
    BY <1>1 DEF LogStep
  <1>4. DOMAIN t.events = t.room.oldest_available_sequence..t.room.head_sequence
    BY DEF LogContiguous
  <1> HIDE DEF q
  <1>5. /\ i \in 1..(t.global.next_welcome_delivery_id - 1)
        /\ q \in 1..t.room.head_sequence
        /\ q >= t.room.oldest_available_sequence => q \in DOMAIN t.events /\ IsCommit(t.events[q])
    <2>1. q \in Nat /\ q \in 1..t.room.head_sequence
      BY <1>1, <1>2, <1>3
    <2>2. i \in 1..(t.global.next_welcome_delivery_id - 1)
      BY <1>1, <1>2, <1>3
    <2>3. q >= t.room.oldest_available_sequence =>
            q \in DOMAIN t.events /\ q >= s.room.oldest_available_sequence
      BY <1>1, <1>3, <1>4, <2>1
    <2>4. QED BY <1>2, <1>3, <2>1, <2>2, <2>3, Zenon
  <1>6. QED BY <1>2, <1>5 DEF q

\* A step that leaves the Welcomes alone keeps them valid.
LEMMA WelcomesKept ==
    ASSUME NEW s, IsMemoryState(s), WelcomesStored(s), LogContiguous(s), NEW t,
           t.room \in RoomRecord, t.global \in GlobalRecord, LogContiguous(t), LogStep(s, t),
           t.welcomes = s.welcomes, t.welcome_target_counts = s.welcome_target_counts,
           t.device_welcomes = s.device_welcomes
    PROVE  WelcomesStored(t)
  BY WelcomeKept, Zenon DEF WelcomesStored

\* A commit that adds devices stores a valid Welcome for them.
LEMMA WelcomeAdded ==
    ASSUME NEW s, IsMemoryState(s), WelcomesStored(s), LogContiguous(s), NEW t,
           t.room \in RoomRecord, t.global \in GlobalRecord, LogContiguous(t), LogStep(s, t),
           NEW w \in StoredWelcome, w.delivery_id = s.global.next_welcome_delivery_id,
           t.global.next_welcome_delivery_id = w.delivery_id + 1,
           w.sequence \in 1..t.room.head_sequence, w.sequence \in DOMAIN t.events,
           IsCommit(t.events[w.sequence]), w.device_ids # {},
           t.welcomes = With(s.welcomes, Entry(w.delivery_id, w)),
           t.welcome_target_counts =
             With(s.welcome_target_counts, Entry(w.delivery_id, Cardinality(w.device_ids))),
           t.device_welcomes = TargetsWith(s, w)
    PROVE  /\ WelcomesStored(t)
           /\ IsMap(t.welcomes, Nat, StoredWelcome) /\ IsMap(t.welcome_target_counts, Nat, Nat)
           /\ t.device_welcomes \subseteq Devices \X Nat
  <1> DEFINE n == w.delivery_id
  <1>1. /\ n \in Nat /\ n # 0 /\ w.device_ids \in SUBSET Devices
        /\ IsMap(s.welcomes, Nat, StoredWelcome) /\ IsMap(s.welcome_target_counts, Nat, Nat)
        /\ s.device_welcomes \subseteq Devices \X Nat
    BY DEF IsMemoryState, StoredWelcome, GlobalRecord
  <1>2. n \notin DOMAIN s.welcomes /\ n \notin DOMAIN s.welcome_target_counts
    BY <1>1 DEF WelcomesStored
  <1>3. Cardinality(w.device_ids) \in Nat /\ Cardinality(w.device_ids) > 0
    <2>1. IsFiniteSet(w.device_ids)
      BY <1>1, FS_Subset, DevicesAssumption
    <2>2. QED BY <2>1, FS_EmptySet, FS_CardinalityType
  <1>4. IsMap(t.welcomes, Nat, StoredWelcome) /\ Added(s.welcomes, n, w, t.welcomes)
    BY <1>1, <1>2, AddEntry, ZenonT(60)
  <1>5. IsMap(t.welcome_target_counts, Nat, Nat)
          /\ Added(s.welcome_target_counts, n, Cardinality(w.device_ids), t.welcome_target_counts)
    <2> DEFINE c == Cardinality(w.device_ids)
               f == s.welcome_target_counts
    <2>1. c \in Nat /\ n \in Nat /\ IsMap(f, Nat, Nat) /\ n \notin DOMAIN f
      BY <1>1, <1>2, <1>3
    <2>2. t.welcome_target_counts = With(f, Entry(n, c))
      OBVIOUS
    <2> HIDE DEF c, f, n
    <2>3. IsMap(With(f, Entry(n, c)), Nat, Nat) /\ Added(f, n, c, With(f, Entry(n, c)))
      BY <2>1, AddEntry, Zenon
    <2>4. QED BY <2>2, <2>3 DEF c, f
  <1>6. \A x \in s.device_welcomes : x[2] \in DOMAIN s.welcomes /\ x[2] # n
    BY <1>2 DEF WelcomesStored
  <1>7. t.device_welcomes = s.device_welcomes \cup {<<x, n>> : x \in w.device_ids}
    BY <1>6 DEF TargetsWith
  <1>8. t.device_welcomes \subseteq Devices \X Nat
    BY <1>1, <1>7
  <1>9. ASSUME NEW i \in DOMAIN t.welcomes
        PROVE  /\ i \in 1..(t.global.next_welcome_delivery_id - 1)
               /\ t.welcomes[i].sequence \in 1..t.room.head_sequence
               /\ t.welcomes[i].device_ids # {}
               /\ t.welcomes[i].sequence >= t.room.oldest_available_sequence =>
                    t.welcomes[i].sequence \in DOMAIN t.events
                      /\ IsCommit(t.events[t.welcomes[i].sequence])
    <2>1. CASE i = n
      BY <1>1, <1>4, <2>1, SMTT(30) DEF Added
    <2>2. CASE i \in DOMAIN s.welcomes
      BY <1>4, <2>2, WelcomeKept, SMTT(30) DEF Added
    <2>3. i = n \/ i \in DOMAIN s.welcomes
      BY <1>4, Zenon DEF Added
    <2>4. QED BY <2>1, <2>2, <2>3, Zenon
  <1>10. ASSUME NEW x \in t.device_welcomes
         PROVE  x[2] \in DOMAIN t.welcomes /\ x[1] \in t.welcomes[x[2]].device_ids
    <2>1. CASE x \in s.device_welcomes
      BY <1>4, <2>1, SMTT(30) DEF Added, WelcomesStored
    <2>2. CASE x \in {<<y, n>> : y \in w.device_ids}
      BY <1>4, <2>2 DEF Added
    <2>3. QED BY <1>7, <2>1, <2>2
  <1>11. DOMAIN t.welcome_target_counts = DOMAIN t.welcomes
    BY <1>4, <1>5, SMTT(30) DEF Added, WelcomesStored
  <1>12. ASSUME NEW i \in DOMAIN t.welcomes
         PROVE  /\ t.welcome_target_counts[i] > 0
                /\ t.welcome_target_counts[i] = Cardinality({x \in t.device_welcomes : x[2] = i})
    <2>1. CASE i = n
      <3>1. {x \in t.device_welcomes : x[2] = i} = {<<x, n>> : x \in w.device_ids}
        BY <1>6, <1>7, <2>1
      <3>2. Cardinality({<<x, n>> : x \in w.device_ids}) = Cardinality(w.device_ids)
        BY <1>1, TargetsCount, SMTT(30)
      <3>3. QED BY <1>3, <1>5, <2>1, <3>1, <3>2, Zenon DEF Added
    <2>2. CASE i \in DOMAIN s.welcomes
      <3>1. {x \in t.device_welcomes : x[2] = i} = {x \in s.device_welcomes : x[2] = i}
        BY <1>2, <1>7, <2>2, SMTT(30)
      <3>2. t.welcome_target_counts[i] = s.welcome_target_counts[i]
        BY <1>5, <2>2, SMTT(30) DEF Added, WelcomesStored
      <3>3. QED BY <2>2, <3>1, <3>2, Zenon DEF WelcomesStored
    <2>3. QED BY <1>4, <2>1, <2>2, SMTT(30) DEF Added
  <1>13. WelcomesStored(t)
    BY <1>9, <1>10, <1>11, <1>12, Zenon DEF WelcomesStored
  <1>14. QED BY <1>4, <1>5, <1>8, <1>13

\* Deleting Welcome targets, with the Welcomes that lose their last one, keeps
\* the counts exact.
LEMMA WelcomesRemoved ==
    ASSUME NEW s, IsMemoryState(s), WelcomesStored(s), LogContiguous(s), NEW t,
           t.room \in RoomRecord, t.global \in GlobalRecord, LogContiguous(t), LogStep(s, t),
           NEW targets,
           t.welcomes = Without(s.welcomes, TargetsGone(s, targets)),
           t.welcome_target_counts = Without(TargetsLeft(s, targets), TargetsGone(s, targets)),
           t.device_welcomes = s.device_welcomes \ targets
    PROVE  /\ WelcomesStored(t)
           /\ IsMap(t.welcomes, Nat, StoredWelcome) /\ IsMap(t.welcome_target_counts, Nat, Nat)
           /\ t.device_welcomes \subseteq Devices \X Nat
  <1> DEFINE left == TargetsLeft(s, targets)
             gone == TargetsGone(s, targets)
             dw == s.device_welcomes
             hit == targets \cap dw
  <1>1. /\ IsMap(s.welcomes, Nat, StoredWelcome) /\ IsMap(s.welcome_target_counts, Nat, Nat)
        /\ dw \subseteq Devices \X Nat
        /\ DOMAIN s.welcome_target_counts = DOMAIN s.welcomes
    BY SMTT(30) DEF IsMemoryState, WelcomesStored
  <1>2. DOMAIN left = DOMAIN s.welcomes
    BY <1>1 DEF TargetsLeft
  <1>3. ASSUME NEW i \in DOMAIN s.welcomes
        PROVE  /\ left[i] \in Nat
               /\ left[i] = Cardinality({x \in t.device_welcomes : x[2] = i})
               /\ left[i] = 0 <=> {x \in t.device_welcomes : x[2] = i} = {}
    <2> DEFINE S == TargetsOf(dw, i)
               H == {x \in hit : x[2] = i}
               L == {x \in t.device_welcomes : x[2] = i}
    <2>1. i \in Nat
      BY <1>1 DEF IsMap
    <2>2. IsFiniteSet(S)
      BY <1>1, <2>1, TargetsFinite
    <2>3. S \ targets = L /\ S \cap targets = H
      BY DEF TargetsOf
    <2>4. left[i] = Cardinality(S) - Cardinality(H)
      BY <1>1, Zenon DEF TargetsLeft, WelcomesStored, TargetsOf
    <2> HIDE DEF S, H, L
    <2>5. IsFiniteSet(L) /\ Cardinality(L) = Cardinality(S) - Cardinality(H)
      BY <2>2, <2>3, FS_Difference, Zenon
    <2>6. Cardinality(L) \in Nat /\ (Cardinality(L) = 0 <=> L = {})
      BY <2>5, FS_CardinalityType, FS_EmptySet
    <2>7. QED BY <2>4, <2>5, <2>6 DEF L
  <1>4. gone = {i \in DOMAIN s.welcomes : left[i] = 0}
    BY <1>2 DEF TargetsGone
  <1>5. left = [i \in DOMAIN left |-> left[i]]
    BY DEF TargetsLeft
  <1> HIDE DEF left, gone
  <1>6. IsMap(t.welcomes, Nat, StoredWelcome) /\ Removed(s.welcomes, gone, t.welcomes)
    <2>1. t.welcomes = Without(s.welcomes, gone)
      BY DEF gone
    <2>2. IsMap(Without(s.welcomes, gone), Nat, StoredWelcome)
            /\ Removed(s.welcomes, gone, Without(s.welcomes, gone))
      BY <1>1, RemoveKeys, Zenon
    <2>3. QED BY <2>1, <2>2
  <1>7. IsMap(t.welcome_target_counts, Nat, Nat) /\ Removed(left, gone, t.welcome_target_counts)
    <2>1. t.welcome_target_counts = Without(left, gone)
      BY DEF gone, left
    <2>2. IsMap(left, Nat, Nat)
      BY <1>1, <1>2, <1>3, <1>5, Zenon DEF IsMap
    <2>3. IsMap(Without(left, gone), Nat, Nat) /\ Removed(left, gone, Without(left, gone))
      BY <2>2, RemoveKeys, Zenon
    <2>4. QED BY <2>1, <2>3
  <1>8. t.device_welcomes \subseteq Devices \X Nat
    BY <1>1
  <1>9. DOMAIN t.welcome_target_counts = DOMAIN t.welcomes
          /\ DOMAIN t.welcomes \subseteq DOMAIN s.welcomes
    BY <1>2, <1>6, <1>7 DEF Removed
  <1>10. ASSUME NEW i \in DOMAIN t.welcomes
         PROVE  /\ i \in 1..(t.global.next_welcome_delivery_id - 1)
                /\ t.welcomes[i].sequence \in 1..t.room.head_sequence
                /\ t.welcomes[i].device_ids # {}
                /\ t.welcomes[i].sequence >= t.room.oldest_available_sequence =>
                     t.welcomes[i].sequence \in DOMAIN t.events
                       /\ IsCommit(t.events[t.welcomes[i].sequence])
    <2>1. i \in DOMAIN s.welcomes /\ t.welcomes[i] = s.welcomes[i]
      BY <1>6, <1>9 DEF Removed
    <2>2. QED BY <2>1, WelcomeKept
  <1>11. ASSUME NEW x \in t.device_welcomes
         PROVE  x[2] \in DOMAIN t.welcomes /\ x[1] \in t.welcomes[x[2]].device_ids
    <2>1. x[2] \in DOMAIN s.welcomes /\ x[1] \in s.welcomes[x[2]].device_ids
      BY DEF WelcomesStored
    <2>2. left[x[2]] # 0
      <3>1. x \in {y \in t.device_welcomes : y[2] = x[2]}
        OBVIOUS
      <3>2. QED BY <1>3, <2>1, <3>1, Zenon
    <2>3. QED BY <1>4, <1>6, <2>1, <2>2 DEF Removed
  <1>12. ASSUME NEW i \in DOMAIN t.welcomes
         PROVE  /\ t.welcome_target_counts[i] > 0
                /\ t.welcome_target_counts[i] = Cardinality({x \in t.device_welcomes : x[2] = i})
    <2>1. i \in DOMAIN s.welcomes /\ i \notin gone /\ t.welcome_target_counts[i] = left[i]
      BY <1>6, <1>7, <1>9 DEF Removed
    <2>2. left[i] \in Nat /\ left[i] # 0
            /\ left[i] = Cardinality({x \in t.device_welcomes : x[2] = i})
      BY <1>3, <1>4, <2>1
    <2>3. QED BY <2>1, <2>2, SMTT(30)
  <1>13. WelcomesStored(t)
    BY <1>9, <1>10, <1>11, <1>12, Zenon DEF WelcomesStored
  <1>14. QED BY <1>6, <1>7, <1>8, <1>13

(***************************************************************************)
(* The prune boundary.                                                     *)
(***************************************************************************)
\* A non-empty set of naturals has a least element.
LEMMA LeastNatural ==
    ASSUME NEW S \in SUBSET Nat, S # {}
    PROVE  \E x \in S : \A y \in S : x <= y
  <1> DEFINE R == OpToRel(<, Nat)
  <1>1. IsWellFoundedOn(R, Nat)
    BY NatLessThanWellFounded
  <1>2. \A x, y \in Nat : <<y, x>> \in R <=> y < x
    BY DEF OpToRel
  <1> HIDE DEF R
  <1>3. PICK x \in S : \A y \in S : ~(<<y, x>> \in R)
    BY <1>1, WFMin, Zenon
  <1>4. ASSUME NEW y \in S PROVE x <= y
    <2>1. ~(<<y, x>> \in R)
      BY <1>3
    <2>2. x \in Nat /\ y \in Nat
      OBVIOUS
    <2>3. ~(y < x)
      BY <1>2, <2>1, <2>2, Zenon
    <2>4. QED BY <2>2, <2>3
  <1>5. QED BY <1>4

\* The safe sequence is at most the head and at most every required cursor.
LEMMA SafeSequenceBound ==
    ASSUME NEW s, IsMemoryState(s), RequiredHaveCursors(s), CursorsConsistent(s)
    PROVE  /\ SafeSequence(s) \in 0..s.room.head_sequence
           /\ \A d \in s.room.required_devices :
                SafeSequence(s) <= s.device_cursors[d].highest_contiguous_sequence
  <1> DEFINE h == s.room.head_sequence
             S == {s.device_cursors[d].highest_contiguous_sequence : d \in s.room.required_devices}
  <1>1. h \in Nat
    BY DEF IsMemoryState, RoomRecord
  <1>2. \A d \in s.room.required_devices :
          s.device_cursors[d].highest_contiguous_sequence \in 0..h
    <2>1. \A d \in DOMAIN s.device_cursors :
            s.device_cursors[d].highest_contiguous_sequence \in Nat
      BY DEF IsMemoryState, IsMap, DeviceCursor
    <2>2. QED BY <1>1, <2>1 DEF RequiredHaveCursors, CursorsConsistent, CursorConsistent
  <1>3. S \subseteq 0..h
    BY <1>2
  <1>4. SafeSequence(s) = MinOver(S, h)
    BY DEF SafeSequence
  <1>5. \A d \in s.room.required_devices : s.device_cursors[d].highest_contiguous_sequence \in S
    OBVIOUS
  <1> HIDE DEF S
  <1>6. CASE S = {}
    BY <1>1, <1>4, <1>5, <1>6 DEF MinOver
  <1>7. CASE S # {}
    <2>1. \E x \in S : \A y \in S : x <= y
      BY <1>1, <1>3, <1>7, LeastNatural
    <2>2. MinOver(S, h) \in S /\ \A y \in S : MinOver(S, h) <= y
      BY <1>7, <2>1 DEF MinOver
    <2>3. QED BY <1>3, <1>4, <1>5, <2>2, Zenon
  <1>8. QED BY <1>6, <1>7
=============================================================================
