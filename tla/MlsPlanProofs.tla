--------------------------- MODULE MlsPlanProofs ----------------------------
(***************************************************************************)
(* The deltas of commits, applications and rosters are ready to be         *)
(* published when the worker plans them.                                   *)
(***************************************************************************)
EXTENDS MlsLogProofs

(***************************************************************************)
(* The planned deltas.                                                     *)
(***************************************************************************)
\* The fields of a delta with these contents.
DeltaIs(d, global, rooms, events, deleted_events, cursors, deleted_cursors, welcomes,
        deleted_targets, welcome_cursors) ==
    d = [global |-> global, rooms |-> rooms, events |-> events,
         deleted_events |-> deleted_events, cursors |-> cursors,
         deleted_cursors |-> deleted_cursors, welcomes |-> welcomes,
         deleted_welcome_targets |-> deleted_targets, welcome_cursors |-> welcome_cursors]

\* The delta of a commit.
LEMMA CommitDeltaFields ==
    ASSUME NEW s, NEW members, NEW c,
           NEW room, room = CommitRoom(s, c), NEW e, e = CommitEventOf(s, c),
           NEW targets, targets = WelcomeTargets(members, c),
           NEW new, new = [x \in room.required_devices \ s.room.required_devices |->
                              NewCursor(room.head_sequence)],
           NEW old, old = s.room.required_devices \ room.required_devices
    PROVE  IF targets = {}
           THEN DeltaIs(CommitDelta(s, members, c), {s.global}, {room}, {e}, {}, new, old,
                        {}, {}, Empty)
           ELSE DeltaIs(CommitDelta(s, members, c),
                        {[s.global EXCEPT !.next_welcome_delivery_id =
                             s.global.next_welcome_delivery_id + 1]},
                        {room}, {e}, {}, new, old,
                        {[delivery_id |-> s.global.next_welcome_delivery_id,
                          sequence |-> e.sequence, device_ids |-> targets]},
                        {}, Empty)
  <1> DEFINE p == plan_cursor_reconciliation(s, room, EventDelta(room, e))
             g == [s.global EXCEPT !.next_welcome_delivery_id =
                      s.global.next_welcome_delivery_id + 1]
             w == [delivery_id |-> s.global.next_welcome_delivery_id,
                   sequence |-> e.sequence, device_ids |-> targets]
  <1>1. DeltaIs(p, {}, {room}, {e}, {}, new, old, {}, {}, Empty)
    <2>1. p = [[StateDelta EXCEPT !.rooms = {room}, !.events = {e}] EXCEPT
                 !.deleted_cursors = old, !.cursors = new]
      BY Zenon DEF plan_cursor_reconciliation, EventDelta
    <2>2. QED BY <2>1, Zenon DEF DeltaIs, StateDelta
  <1>2. CommitDelta(s, members, c) =
          IF targets = {} THEN [p EXCEPT !.global = {s.global}]
                          ELSE [p EXCEPT !.welcomes = {w}, !.global = {g}]
    BY Zenon DEF CommitDelta, plan_commit
  <1> HIDE DEF p, g, w
  <1>3. IF targets = {}
        THEN DeltaIs(CommitDelta(s, members, c), {s.global}, {room}, {e}, {}, new, old, {}, {}, Empty)
        ELSE DeltaIs(CommitDelta(s, members, c), {g}, {room}, {e}, {}, new, old, {w}, {}, Empty)
    BY <1>1, <1>2, ZenonT(60) DEF DeltaIs
  <1>4. QED BY <1>3, Zenon DEF g, w

\* The delta of an application.
LEMMA ApplicationDeltaFields ==
    ASSUME NEW s, NEW id, NEW epoch, NEW ct, NEW room, NEW e,
           room = [s.room EXCEPT !.head_sequence = s.room.head_sequence + 1],
           e = [kind |-> "application", sequence |-> s.room.head_sequence + 1,
                epoch |-> epoch, event_id |-> id, ciphertext |-> ct]
    PROVE  DeltaIs(append_application(s, id, epoch, ct), {}, {room}, {e}, {}, Empty, {},
                   {}, {}, Empty)
  <1>1. append_application(s, id, epoch, ct) =
          [StateDelta EXCEPT !.rooms = {room}, !.events = {e}]
    BY Zenon DEF append_application, EventDelta
  <1>2. QED BY <1>1, Zenon DEF DeltaIs, StateDelta

\* What Sound says of the types of a state, for the planners.
LEMMA SoundTypes ==
    ASSUME NEW s, NEW sn, NEW ex, Sound(s, sn, ex)
    PROVE  /\ s.room \in RoomRecord /\ s.global \in GlobalRecord
           /\ IsMap(s.device_cursors, Devices, DeviceCursor)
           /\ IsMap(s.welcome_cursors, Devices, Nat)
           /\ IsMemoryState(s) /\ LogValid(s) /\ LogContiguous(s) /\ WelcomesStored(s)
           /\ s.room.head_sequence + 1 \notin DOMAIN s.events
           /\ s.global.next_welcome_delivery_id \notin DOMAIN s.welcomes
           /\ s.global.next_welcome_delivery_id \in Nat
           /\ s.room.head_sequence \in Nat /\ s.room.epoch \in Nat
           /\ s.room.oldest_available_sequence \in 1..(s.room.head_sequence + 1)
  <1>1. /\ IsMemoryState(s) /\ LogValid(s) /\ LogContiguous(s) /\ WelcomesStored(s)
    BY DEF Sound, LogValid, WelcomesConsistent
  <1>2. /\ s.room \in RoomRecord /\ s.global \in GlobalRecord
        /\ IsMap(s.device_cursors, Devices, DeviceCursor)
        /\ IsMap(s.welcome_cursors, Devices, Nat)
    BY <1>1 DEF IsMemoryState
  <1>3. /\ s.room.head_sequence \in Nat /\ s.room.epoch \in Nat
        /\ s.global.next_welcome_delivery_id \in Nat
    BY <1>2 DEF RoomRecord, GlobalRecord
  <1>4. /\ s.room.oldest_available_sequence \in 1..(s.room.head_sequence + 1)
        /\ DOMAIN s.events = s.room.oldest_available_sequence..s.room.head_sequence
    BY <1>1 DEF LogContiguous
  <1>5. s.room.head_sequence + 1 \notin DOMAIN s.events
    BY <1>3, <1>4
  <1>6. s.global.next_welcome_delivery_id \notin DOMAIN s.welcomes
    BY <1>1, <1>3 DEF WelcomesStored
  <1>7. QED BY <1>1, <1>2, <1>3, <1>4, <1>5, <1>6

\* The worker's plan for a commit is ready to be published.
LEMMA CommitReady ==
    ASSUME NEW s, NEW sn \in [Devices -> Nat], NEW ex \in Nat, Sound(s, sn, ex),
           NEW members, NEW c \in Commit
    PROVE  /\ IsStateDelta(CommitDelta(s, members, c))
           /\ WorkerReady(s, CommitDelta(s, members, c), sn, ex)
  <1> DEFINE d == CommitDelta(s, members, c)
             t == apply_delta(s, d)
             h == s.room.head_sequence
             room == CommitRoom(s, c)
             e == CommitEventOf(s, c)
             targets == WelcomeTargets(members, c)
             new == [x \in room.required_devices \ s.room.required_devices |->
                        NewCursor(room.head_sequence)]
             old == s.room.required_devices \ room.required_devices
             n == s.global.next_welcome_delivery_id
             w == [delivery_id |-> n, sequence |-> e.sequence, device_ids |-> targets]
             g == [s.global EXCEPT !.next_welcome_delivery_id = n + 1]
             m == insert_event_memory(s, e)
  <1>1. /\ s.room \in RoomRecord /\ s.global \in GlobalRecord
        /\ IsMap(s.device_cursors, Devices, DeviceCursor)
        /\ IsMap(s.welcome_cursors, Devices, Nat)
        /\ IsMemoryState(s) /\ LogValid(s) /\ LogContiguous(s) /\ WelcomesStored(s)
        /\ h + 1 \notin DOMAIN s.events /\ n \notin DOMAIN s.welcomes /\ n \in Nat
        /\ h \in Nat /\ s.room.epoch \in Nat /\ s.room.oldest_available_sequence \in 1..(h + 1)
    BY SoundTypes
  <1>2. /\ room \in RoomRecord /\ room.head_sequence = h + 1
        /\ room.oldest_available_sequence = s.room.oldest_available_sequence
        /\ room.epoch = s.room.epoch + 1 /\ room.members = c.members
        /\ room.revocation_pending = ~(c.members \subseteq s.global.active)
        /\ room.required_devices = c.members \cap s.global.active
    <2>1. c.members \in SUBSET Devices /\ s.global.active \in SUBSET Devices
      BY <1>1 DEF Commit, GlobalRecord
    <2>2. c.members \cap s.global.active \in SUBSET Devices
            /\ s.room.oldest_available_sequence \in Nat
      BY <1>1, <2>1
    <2> DEFINE P == ~(c.members \subseteq s.global.active)
    <2>3. s.room.epoch + 1 \in Nat /\ h + 1 \in Nat
      BY <1>1
    <2>6. P \in BOOLEAN
      BY Zenon
    <2> HIDE DEF P
    <2>4. [epoch |-> s.room.epoch + 1, members |-> c.members, revocation_pending |-> P,
           head_sequence |-> h + 1,
           oldest_available_sequence |-> s.room.oldest_available_sequence,
           required_devices |-> c.members \cap s.global.active] \in RoomRecord
      BY <2>1, <2>2, <2>3, <2>6, Zenon DEF RoomRecord
    <2>5. QED BY <2>4, Zenon DEF CommitRoom, P
  <1>3. /\ e \in MlsDeliveryEvent /\ e.sequence = h + 1 /\ e.parent_epoch = s.room.epoch
        /\ e.epoch = s.room.epoch + 1 /\ IsCommit(e) /\ ~IsApplication(e)
        /\ StartEpoch(e) = s.room.epoch
    BY <1>1 DEF CommitEventOf, MlsDeliveryEvent, CommitEvent, IsCommit, IsApplication, StartEpoch
  <1>4. /\ targets \in SUBSET Devices /\ w \in StoredWelcome
        /\ w.delivery_id = n /\ w.sequence = h + 1 /\ w.device_ids = targets
    BY <1>1, <1>3 DEF WelcomeTargets, Commit, StoredWelcome
  <1>5. /\ IsMap(new, Devices, DeviceCursor)
        /\ DOMAIN new = room.required_devices \ s.room.required_devices
        /\ \A x \in DOMAIN new : new[x] = NewCursor(h + 1)
    <2>1. NewCursor(h + 1) \in DeviceCursor
      BY <1>1 DEF NewCursor, DeviceCursor
    <2>2. room.required_devices \subseteq Devices
      BY <1>2 DEF RoomRecord
    <2> HIDE DEF room
    <2>3. QED BY <1>2, <2>1, <2>2 DEF IsMap
  <1>6. /\ g \in GlobalRecord /\ g.next_welcome_delivery_id = n + 1
        /\ g.active = s.global.active
    BY <1>1 DEF GlobalRecord
  <1>7. IF targets = {}
        THEN DeltaIs(d, {s.global}, {room}, {e}, {}, new, old, {}, {}, Empty)
        ELSE DeltaIs(d, {g}, {room}, {e}, {}, new, old, {w}, {}, Empty)
    BY CommitDeltaFields, Zenon
  <1> HIDE DEF d, room, e, targets, new, w, g
  <1>8. /\ InsertedEvent(s, e, m)
        /\ t.events = m.events /\ t.event_ids = m.event_ids /\ t.commit_epochs = m.commit_epochs
        /\ HasFields(t) /\ t.room = room
        /\ t.device_cursors = With(Without(s.device_cursors, old), new)
        /\ t.welcome_cursors = With(s.welcome_cursors, Empty)
        /\ t.global = IF targets = {} THEN s.global ELSE g
        /\ IF targets = {}
           THEN /\ t.welcomes = s.welcomes /\ t.welcome_target_counts = s.welcome_target_counts
                /\ t.device_welcomes = s.device_welcomes
           ELSE /\ t.welcomes = With(s.welcomes, Entry(n, w))
                /\ t.welcome_target_counts =
                     With(s.welcome_target_counts, Entry(n, Cardinality(targets)))
                /\ t.device_welcomes = TargetsWith(s, w)
    <2>1. CASE targets = {}
      <3>1. /\ d.deleted_events = {} /\ d.deleted_welcome_targets = {} /\ d.events = {e}
            /\ d.welcomes = {} /\ d.global = {s.global} /\ d.rooms = {room}
            /\ d.cursors = new /\ d.deleted_cursors = old /\ d.welcome_cursors = Empty
        BY <1>7, <2>1, SMTT(30) DEF DeltaIs
      <3>2. InsertedEvent(s, e, Stored(s, d)) /\ Published(s, d, Stored(s, d), t)
        BY <1>1, <1>3, <3>1, AppendFields, Zenon
      <3>3. Stored(s, d) = m
        BY <1>1, <3>1, RemoveNothing DEF Stored, InsertAll
      <3>4. Latest(s.room, {room}) = room /\ Latest(s.global, {s.global}) = s.global
        BY LatestValue, Zenon
      <3> HIDE DEF m, t, old, n
      <3>5. /\ m.welcomes = s.welcomes /\ m.welcome_target_counts = s.welcome_target_counts
            /\ m.device_welcomes = s.device_welcomes
        BY <3>2, <3>3 DEF InsertedEvent
      <3>6. QED BY <2>1, <3>1, <3>2, <3>3, <3>4, <3>5 DEF Published
    <2>2. CASE targets # {}
      <3>1. /\ d.deleted_events = {} /\ d.deleted_welcome_targets = {} /\ d.events = {e}
            /\ d.welcomes = {w} /\ d.global = {g} /\ d.rooms = {room}
            /\ d.cursors = new /\ d.deleted_cursors = old /\ d.welcome_cursors = Empty
        BY <1>7, <2>2 DEF DeltaIs
      <3>2. InsertedEvent(s, e, m) /\ InsertedWelcome(m, w, Stored(s, d))
              /\ Published(s, d, Stored(s, d), t)
        BY <1>1, <1>3, <1>4, <3>1, AppendWelcomeFields, SMTT(30)
      <3>3. TargetsWith(m, w) = TargetsWith(s, w)
        BY <3>2 DEF TargetsWith, InsertedEvent
      <3>4. Latest(s.room, {room}) = room /\ Latest(s.global, {g}) = g
        BY LatestValue, Zenon
      <3> HIDE DEF m, t, old, n
      <3>5. m.welcomes = s.welcomes /\ m.welcome_target_counts = s.welcome_target_counts
        BY <3>2 DEF InsertedEvent
      <3>6. /\ Stored(s, d).events = m.events /\ Stored(s, d).event_ids = m.event_ids
            /\ Stored(s, d).commit_epochs = m.commit_epochs
            /\ Stored(s, d).welcomes = With(s.welcomes, Entry(n, w))
            /\ Stored(s, d).welcome_target_counts =
                 With(s.welcome_target_counts, Entry(n, Cardinality(targets)))
            /\ Stored(s, d).device_welcomes = TargetsWith(s, w)
        BY <1>4, <3>2, <3>3, <3>5 DEF InsertedWelcome
      <3>7. QED BY <2>2, <3>1, <3>2, <3>4, <3>6 DEF Published
    <2>3. QED BY <2>1, <2>2, SMTT(30)
  <1> HIDE DEF m, t
  <1>9. /\ LogValid(t)
        /\ IsMap(t.events, Nat, MlsDeliveryEvent) /\ IsMap(t.event_ids, EventIds, Nat)
        /\ IsMap(t.commit_epochs, Nat, Nat)
        /\ DOMAIN t.events = DOMAIN s.events \cup {e.sequence}
        /\ \A q \in DOMAIN s.events : t.events[q] = s.events[q]
        /\ t.events[e.sequence] = e
    <2>1. IsCommit(e) => e.epoch = e.parent_epoch + 1
      BY <1>3
    <2>2. IsApplication(e) => e.event_id \notin DOMAIN s.event_ids
      BY <1>3
    <2>3. QED BY <1>1, <1>2, <1>3, <1>8, <2>1, <2>2, AppendKeepsLog, SMTT(30)
  <1>10. /\ t.global \in GlobalRecord /\ t.global.active = s.global.active
         /\ t.global.next_welcome_delivery_id = IF targets = {} THEN n ELSE n + 1
    BY <1>1, <1>6, <1>8
  <1>11. LogStep(s, t)
    <2>1. /\ t.room.epoch >= s.room.epoch /\ t.room.head_sequence >= s.room.head_sequence
          /\ t.room.oldest_available_sequence >= s.room.oldest_available_sequence
          /\ t.global.next_welcome_delivery_id >= s.global.next_welcome_delivery_id
      BY <1>1, <1>2, <1>8, <1>10, SMTT(30)
    <2>2. \A q \in DOMAIN t.events \ DOMAIN s.events : ~IsApplication(t.events[q])
      BY <1>3, <1>9
    <2>3. QED BY <1>9, <2>1, <2>2 DEF LogStep
  <1>12. /\ WelcomesStored(t)
         /\ IsMap(t.welcomes, Nat, StoredWelcome) /\ IsMap(t.welcome_target_counts, Nat, Nat)
         /\ t.device_welcomes \subseteq Devices \X Nat
    <2>1. LogContiguous(t) /\ t.room \in RoomRecord
      BY <1>2, <1>8, <1>9 DEF LogValid
    <2>2. CASE targets = {}
      BY <1>1, <1>8, <1>10, <1>11, <2>1, <2>2, WelcomesKept, SMTT(30) DEF IsMemoryState
    <2>3. CASE targets # {}
      <3>1. /\ w.sequence \in 1..t.room.head_sequence /\ w.sequence \in DOMAIN t.events
            /\ IsCommit(t.events[w.sequence]) /\ w.device_ids # {}
            /\ w.delivery_id = s.global.next_welcome_delivery_id
            /\ t.global.next_welcome_delivery_id = w.delivery_id + 1
        BY <1>1, <1>2, <1>3, <1>4, <1>8, <1>9, <1>10, <2>3, SMTT(30)
      <3>2. /\ t.welcomes = With(s.welcomes, Entry(w.delivery_id, w))
            /\ t.welcome_target_counts =
                 With(s.welcome_target_counts, Entry(w.delivery_id, Cardinality(w.device_ids)))
            /\ t.device_welcomes = TargetsWith(s, w)
        BY <1>4, <1>8, <2>3
      <3>3. QED BY <1>1, <1>4, <1>10, <1>11, <2>1, <3>1, <3>2, WelcomeAdded
    <2>4. QED BY <2>2, <2>3
  <1>13. /\ IsMap(t.device_cursors, Devices, DeviceCursor)
         /\ Updated(s.device_cursors, old, new, t.device_cursors)
    BY <1>1, <1>5, <1>8, UpdateMap, SMTT(30)
  <1>14. IsMap(t.welcome_cursors, Devices, Nat)
    <2>1. With(s.welcome_cursors, Empty) = s.welcome_cursors
      BY <1>1, EmptyMap, Zenon
    <2>2. QED BY <1>1, <1>8, <2>1
  <1>15. IsMemoryState(t)
    BY <1>2, <1>8, <1>9, <1>10, <1>12, <1>13, <1>14, SMTT(30) DEF IsMemoryState
  <1>16. MembersActive(t)
    BY <1>2, <1>8, <1>10, Zenon DEF MembersActive
  <1>17. RequiredHaveCursors(t)
    BY <1>5, <1>8, <1>13, SMTT(30) DEF RequiredHaveCursors, Updated, Sound
  <1>18. d.cursors = new /\ d.welcome_cursors = Empty
    BY <1>7 DEF DeltaIs
  <1>19. CursorsReady(d, t.room.head_sequence,
                      t.room.required_devices \ s.room.required_devices, sn)
    <2>1. NewCursor(h + 1).highest_contiguous_sequence = h + 1 /\ CursorConsistent(NewCursor(h + 1), h + 1)
      BY <1>1 DEF NewCursor, CursorConsistent
    <2>2. QED BY <1>1, <1>2, <1>5, <1>8, <1>18, <2>1, SMTT(30) DEF CursorsReady
  <1>20. DeletionSeen(t, t.room.required_devices
                           \ (t.room.required_devices \ s.room.required_devices), sn, ex)
    BY <1>2, <1>8, SMTT(30) DEF DeletionSeen, Sound
  <1>21. WelcomeCursorsReady(d, s)
    BY <1>18, EmptyMap DEF WelcomeCursorsReady
  <1>22. WorkerReady(s, d, sn, ex)
    BY <1>9, <1>11, <1>12, <1>15, <1>16, <1>17, <1>19, <1>20, <1>21, Zenon DEF WorkerReady, t
  <1>23. IsStateDelta(d)
    <2>1. IsMap(Empty, Devices, Nat)
      BY EmptyMap
    <2>2. old \subseteq Devices
      BY <1>1 DEF RoomRecord
    <2> HIDE DEF old
    <2>3. QED BY <1>1, <1>2, <1>3, <1>4, <1>5, <1>6, <1>7, <2>1, <2>2
              DEF IsStateDelta, DeltaIs, AtMostOne
  <1>24. QED BY <1>22, <1>23 DEF d

\* The worker's plan for an application is ready to be published.
LEMMA ApplicationReady ==
    ASSUME NEW s, NEW sn \in [Devices -> Nat], NEW ex \in Nat, Sound(s, sn, ex),
           NEW id \in EventIds, NEW ct \in Ciphertexts, NEW epoch, epoch = s.room.epoch,
           id \notin DOMAIN s.event_ids, ~s.room.revocation_pending
    PROVE  /\ IsStateDelta(append_application(s, id, epoch, ct))
           /\ WorkerReady(s, append_application(s, id, epoch, ct), sn, ex)
  <1> DEFINE d == append_application(s, id, epoch, ct)
             t == apply_delta(s, d)
             h == s.room.head_sequence
             room == [s.room EXCEPT !.head_sequence = h + 1]
             e == [kind |-> "application", sequence |-> h + 1,
                   epoch |-> epoch, event_id |-> id, ciphertext |-> ct]
             m == Stored(s, d)
  <1>1. /\ s.room \in RoomRecord /\ s.global \in GlobalRecord
        /\ IsMap(s.device_cursors, Devices, DeviceCursor)
        /\ IsMap(s.welcome_cursors, Devices, Nat)
        /\ IsMemoryState(s) /\ LogValid(s) /\ LogContiguous(s) /\ WelcomesStored(s)
        /\ h + 1 \notin DOMAIN s.events
        /\ h \in Nat /\ s.room.epoch \in Nat /\ s.room.oldest_available_sequence \in 1..(h + 1)
    BY SoundTypes
  <1>2. /\ room \in RoomRecord /\ room.head_sequence = h + 1
        /\ room.oldest_available_sequence = s.room.oldest_available_sequence
        /\ room.epoch = s.room.epoch /\ room.members = s.room.members
        /\ room.required_devices = s.room.required_devices
    BY <1>1 DEF RoomRecord
  <1>3. /\ e \in MlsDeliveryEvent /\ e.sequence = h + 1 /\ e.epoch = s.room.epoch
        /\ ~IsCommit(e) /\ IsApplication(e) /\ StartEpoch(e) = s.room.epoch /\ e.event_id = id
    BY <1>1 DEF MlsDeliveryEvent, ApplicationEvent, IsCommit, IsApplication, StartEpoch
  <1>4. DeltaIs(d, {}, {room}, {e}, {}, Empty, {}, {}, {}, Empty)
    BY ApplicationDeltaFields, Zenon
  <1> HIDE DEF d, room, e
  <1>5. /\ d.deleted_events = {} /\ d.deleted_welcome_targets = {} /\ d.events = {e}
        /\ d.welcomes = {} /\ d.global = {} /\ d.rooms = {room}
        /\ d.cursors = Empty /\ d.deleted_cursors = {} /\ d.welcome_cursors = Empty
    BY <1>4 DEF DeltaIs
  <1>6. InsertedEvent(s, e, m) /\ Published(s, d, m, t)
    BY <1>1, <1>3, <1>5, AppendFields, SMTT(30)
  <1> HIDE DEF m, t
  <1>7. /\ With(Without(s.device_cursors, {}), Empty) = s.device_cursors
        /\ With(s.welcome_cursors, Empty) = s.welcome_cursors
    BY <1>1, EmptyMap, Zenon
  <1>8. Latest(s.room, {room}) = room /\ Latest(s.global, {}) = s.global
    BY LatestValue, Zenon
  <1>9. /\ HasFields(t) /\ t.room = room /\ t.global = s.global
        /\ t.device_cursors = s.device_cursors /\ t.welcome_cursors = s.welcome_cursors
        /\ t.events = m.events /\ t.event_ids = m.event_ids /\ t.commit_epochs = m.commit_epochs
        /\ t.welcomes = s.welcomes /\ t.welcome_target_counts = s.welcome_target_counts
        /\ t.device_welcomes = s.device_welcomes
    BY <1>5, <1>6, <1>7, <1>8 DEF Published, InsertedEvent
  <1>10. /\ LogValid(t)
         /\ IsMap(t.events, Nat, MlsDeliveryEvent) /\ IsMap(t.event_ids, EventIds, Nat)
         /\ IsMap(t.commit_epochs, Nat, Nat)
         /\ DOMAIN t.events = DOMAIN s.events \cup {e.sequence}
         /\ \A q \in DOMAIN s.events : t.events[q] = s.events[q]
         /\ t.events[e.sequence] = e
    <2>1. IsCommit(e) => e.epoch = e.parent_epoch + 1
      BY <1>3
    <2>2. IsApplication(e) => e.event_id \notin DOMAIN s.event_ids
      BY <1>3
    <2>3. /\ e.sequence = s.room.head_sequence + 1 /\ StartEpoch(e) = s.room.epoch
          /\ room.head_sequence = s.room.head_sequence + 1 /\ room.epoch = e.epoch
      BY <1>2, <1>3
    <2>4. /\ IsMemoryState(s) /\ LogValid(s) /\ e \in MlsDeliveryEvent /\ room \in RoomRecord
          /\ room.oldest_available_sequence = s.room.oldest_available_sequence
          /\ InsertedEvent(s, e, m)
      BY <1>1, <1>2, <1>3, <1>6, Zenon
    <2>5. /\ t.room = room /\ t.events = m.events /\ t.event_ids = m.event_ids
          /\ t.commit_epochs = m.commit_epochs
      BY <1>9, Zenon
    <2>6. QED BY <2>1, <2>2, <2>3, <2>4, <2>5, AppendKeepsLog, SMTT(30)
  <1>11. LogStep(s, t)
    <2>1. /\ t.room.epoch >= s.room.epoch /\ t.room.head_sequence >= s.room.head_sequence
          /\ t.room.oldest_available_sequence >= s.room.oldest_available_sequence
          /\ t.global.next_welcome_delivery_id >= s.global.next_welcome_delivery_id
      BY <1>1, <1>2, <1>9 DEF GlobalRecord
    <2>2. s.room.members \subseteq s.global.active
      BY DEF Sound, MembersActive
    <2>3. QED BY <1>10, <2>1, <2>2 DEF LogStep
  <1>12. WelcomesStored(t) /\ LogContiguous(t) /\ t.room \in RoomRecord
    <2>1. LogContiguous(t) /\ t.room \in RoomRecord
      BY <1>2, <1>9, <1>10 DEF LogValid
    <2>2. QED BY <1>1, <1>9, <1>11, <2>1, WelcomesKept, SMTT(30)
  <1>13. IsMemoryState(t)
    BY <1>1, <1>9, <1>10, <1>12, SMTT(30) DEF IsMemoryState
  <1>14. MembersActive(t)
    BY <1>2, <1>9, SMTT(30) DEF MembersActive, Sound
  <1>15. RequiredHaveCursors(t)
    BY <1>2, <1>9 DEF RequiredHaveCursors, Sound
  <1>16. CursorsReady(d, t.room.head_sequence,
                      t.room.required_devices \ s.room.required_devices, sn)
           /\ WelcomeCursorsReady(d, s)
    BY <1>5, EmptyMap DEF CursorsReady, WelcomeCursorsReady
  <1>17. DeletionSeen(t, t.room.required_devices
                           \ (t.room.required_devices \ s.room.required_devices), sn, ex)
    BY <1>2, <1>9 DEF DeletionSeen, Sound
  <1>18. WorkerReady(s, d, sn, ex)
    BY <1>10, <1>11, <1>12, <1>13, <1>14, <1>15, <1>16, <1>17, Zenon DEF WorkerReady, t
  <1>19. IsStateDelta(d)
    <2>1. IsMap(Empty, Devices, Nat) /\ IsMap(Empty, Devices, DeviceCursor)
      BY EmptyMap
    <2>2. QED BY <1>2, <1>3, <1>4, <2>1, SMTT(30) DEF IsStateDelta, DeltaIs, AtMostOne
  <1>20. QED BY <1>18, <1>19 DEF d

\* The delta of a roster: the room's record changes only when a member of its
\* group loses its place.
LEMMA RosterDeltaFields ==
    ASSUME NEW s, NEW active, NEW g, NEW room, NEW removed,
           removed = s.global.active \ active,
           g = [s.global EXCEPT !.active = active, !.revision = s.global.revision + 1],
           room = [s.room EXCEPT !.revocation_pending = TRUE,
                                 !.required_devices = s.room.required_devices \ removed],
           NEW new, new = [x \in room.required_devices \ s.room.required_devices |->
                              NewCursor(room.head_sequence)],
           NEW old, old = s.room.required_devices \ room.required_devices
    PROVE  IF removed \cap s.room.members = {}
           THEN DeltaIs(put_roster(s, active), {g}, {}, {}, {}, Empty, {}, {}, {}, Empty)
           ELSE DeltaIs(put_roster(s, active), {g}, {room}, {}, {}, new, old, {}, {}, Empty)
  <1> DEFINE rooms == IF removed \cap s.room.members = {} THEN {} ELSE {room}
             b == [StateDelta EXCEPT !.global = {g}, !.rooms = rooms]
  <1>1. put_roster(s, active) = replace_global_and_rooms(s, g, rooms)
    BY Zenon DEF put_roster
  <1>2. CASE removed \cap s.room.members = {}
    <2>1. rooms = {}
      BY <1>2
    <2>2. put_roster(s, active) = [StateDelta EXCEPT !.global = {g}, !.rooms = {}]
      BY <1>1, <2>1, Zenon DEF replace_global_and_rooms
    <2>3. QED BY <1>2, <2>2, Zenon DEF DeltaIs, StateDelta
  <1>3. CASE removed \cap s.room.members # {}
    <2>1. rooms = {room} /\ rooms # {}
      BY <1>3
    <2>2. Latest(s.room, rooms) = room
      BY <2>1, LatestValue, Zenon
    <2>3. put_roster(s, active) = plan_cursor_reconciliation(s, room, b)
      BY <1>1, <2>1, <2>2, Zenon DEF replace_global_and_rooms
    <2>4. put_roster(s, active) = [[StateDelta EXCEPT !.global = {g}, !.rooms = {room}] EXCEPT
                                      !.deleted_cursors = old, !.cursors = new]
      BY <2>1, <2>3, Zenon DEF plan_cursor_reconciliation
    <2>5. DeltaIs(put_roster(s, active), {g}, {room}, {}, {}, new, old, {}, {}, Empty)
      BY <2>4, ZenonT(60) DEF DeltaIs, StateDelta
    <2>6. QED BY <1>3, <2>5
  <1>4. QED BY <1>2, <1>3

\* A delta that changes only records and cursors, and neither the epoch nor the
\* sequences of the room nor the Welcome counter, is ready when its cursors are.
LEMMA UpdateReady ==
    ASSUME NEW s, NEW sn \in [Devices -> Nat], NEW ex \in Nat, Sound(s, sn, ex),
           NEW d, IsStateDelta(d), NEW t, t = apply_delta(s, d),
           d.deleted_events = {}, d.deleted_welcome_targets = {}, d.events = {}, d.welcomes = {},
           NEW room \in RoomRecord, room = Latest(s.room, d.rooms),
           NEW g \in GlobalRecord, g = Latest(s.global, d.global),
           room.head_sequence = s.room.head_sequence, room.epoch = s.room.epoch,
           room.oldest_available_sequence = s.room.oldest_available_sequence,
           g.next_welcome_delivery_id = s.global.next_welcome_delivery_id,
           ~room.revocation_pending => room.members \subseteq g.active,
           room.required_devices \subseteq s.room.required_devices \ d.deleted_cursors,
           CursorsReady(d, s.room.head_sequence, {}, sn), WelcomeCursorsReady(d, s)
    PROVE  WorkerReady(s, d, sn, ex)
  <1>1. /\ s.room \in RoomRecord /\ s.global \in GlobalRecord
        /\ IsMap(s.device_cursors, Devices, DeviceCursor)
        /\ IsMap(s.welcome_cursors, Devices, Nat)
        /\ IsMemoryState(s) /\ LogValid(s) /\ LogContiguous(s) /\ WelcomesStored(s)
    BY SoundTypes, SMTT(30)
  <1>2. Published(s, d, s, t)
    BY <1>1, UpdateFields, SMTT(30)
  <1>3. /\ HasFields(t) /\ t.room = room /\ t.global = g
        /\ t.device_cursors = With(Without(s.device_cursors, d.deleted_cursors), d.cursors)
        /\ t.welcome_cursors = With(s.welcome_cursors, d.welcome_cursors)
        /\ t.events = s.events /\ t.event_ids = s.event_ids /\ t.commit_epochs = s.commit_epochs
        /\ t.welcomes = s.welcomes /\ t.welcome_target_counts = s.welcome_target_counts
        /\ t.device_welcomes = s.device_welcomes
    BY <1>2, SMTT(30) DEF Published
  <1>4. LogValid(t) /\ LogContiguous(t)
    BY <1>1, <1>3, LogValidSame, Zenon
  <1>5. LogStep(s, t)
    BY <1>1, <1>3, LogStepSame, Zenon
  <1>6. WelcomesStored(t)
    BY <1>1, <1>3, <1>4, <1>5, WelcomesKept, SMTT(30)
  <1>7. /\ IsMap(t.device_cursors, Devices, DeviceCursor)
        /\ Updated(s.device_cursors, d.deleted_cursors, d.cursors, t.device_cursors)
    BY <1>1, <1>3, UpdateMap DEF IsStateDelta
  <1>8. IsMap(t.welcome_cursors, Devices, Nat)
    <2>1. IsMap(d.welcome_cursors, Devices, Nat)
      BY DEF IsStateDelta
    <2>2. IsMap(With(s.welcome_cursors, d.welcome_cursors), Devices, Nat)
      BY <1>1, <2>1, WithMap, Zenon
    <2>3. QED BY <1>3, <2>2, SMTT(30)
  <1>9. IsMemoryState(t)
    BY <1>1, <1>3, <1>7, <1>8, Zenon DEF IsMemoryState
  <1>10. MembersActive(t)
    BY <1>3, SMTT(30) DEF MembersActive
  <1>11. RequiredHaveCursors(t)
    BY <1>3, <1>7, Zenon DEF RequiredHaveCursors, Sound, Updated
  <1>12. CursorsReady(d, t.room.head_sequence,
                      t.room.required_devices \ s.room.required_devices, sn)
    BY <1>3, Zenon DEF CursorsReady
  <1>13. DeletionSeen(t, t.room.required_devices
                           \ (t.room.required_devices \ s.room.required_devices), sn, ex)
    BY <1>3, Zenon DEF DeletionSeen, Sound
  <1>14. QED
    BY <1>4, <1>5, <1>6, <1>9, <1>10, <1>11, <1>12, <1>13, Zenon DEF WorkerReady

\* The worker's plan for a roster is ready to be published.
LEMMA RosterReady ==
    ASSUME NEW s, NEW sn \in [Devices -> Nat], NEW ex \in Nat, Sound(s, sn, ex),
           NEW active \in SUBSET Devices
    PROVE  /\ IsStateDelta(put_roster(s, active))
           /\ WorkerReady(s, put_roster(s, active), sn, ex)
  <1> DEFINE d == put_roster(s, active)
             removed == s.global.active \ active
             g == [s.global EXCEPT !.active = active, !.revision = s.global.revision + 1]
             room == [s.room EXCEPT !.revocation_pending = TRUE,
                                    !.required_devices = s.room.required_devices \ removed]
             new == [x \in room.required_devices \ s.room.required_devices |->
                        NewCursor(room.head_sequence)]
             old == s.room.required_devices \ room.required_devices
  <1>1. s.room \in RoomRecord /\ s.global \in GlobalRecord
    BY SoundTypes
  <1>2. /\ g \in GlobalRecord /\ g.active = active
        /\ g.next_welcome_delivery_id = s.global.next_welcome_delivery_id
    <2> DEFINE r == s.global.revision + 1
    <2>1. r \in Nat
      BY <1>1 DEF GlobalRecord
    <2>2. g = [s.global EXCEPT !.active = active, !.revision = r]
      BY Zenon
    <2> HIDE DEF r, g
    <2>3. QED BY <1>1, <2>1, <2>2, Zenon DEF GlobalRecord
  <1>3. /\ room \in RoomRecord /\ room.revocation_pending
        /\ room.head_sequence = s.room.head_sequence /\ room.epoch = s.room.epoch
        /\ room.oldest_available_sequence = s.room.oldest_available_sequence
        /\ room.required_devices = s.room.required_devices \ removed
    <2> DEFINE P == TRUE
               Q == s.room.required_devices \ removed
    <2>1. P \in BOOLEAN /\ P
      BY Zenon
    <2>2. room = [s.room EXCEPT !.revocation_pending = P, !.required_devices = Q]
      BY Zenon
    <2>3. Q \in SUBSET Devices
      BY <1>1 DEF RoomRecord
    <2> HIDE DEF P, Q, room
    <2>4. /\ room \in RoomRecord /\ room.revocation_pending = P
          /\ room.head_sequence = s.room.head_sequence /\ room.epoch = s.room.epoch
          /\ room.oldest_available_sequence = s.room.oldest_available_sequence
          /\ room.required_devices = Q
      BY <1>1, <2>1, <2>2, <2>3, Zenon DEF RoomRecord
    <2>5. QED BY <2>1, <2>4, Zenon DEF Q
  <1>4. IF removed \cap s.room.members = {}
        THEN DeltaIs(d, {g}, {}, {}, {}, Empty, {}, {}, {}, Empty)
        ELSE DeltaIs(d, {g}, {room}, {}, {}, new, old, {}, {}, Empty)
    BY RosterDeltaFields, Zenon
  <1>5. new = Empty
    <2>1. room.required_devices \ s.room.required_devices = {}
      BY <1>3
    <2> HIDE DEF room
    <2>2. QED BY <2>1 DEF Empty
  <1>6. IsMap(Empty, Devices, Nat) /\ IsMap(Empty, Devices, DeviceCursor) /\ DOMAIN Empty = {}
    BY EmptyMap
  <1>7. old \subseteq Devices
    BY <1>1 DEF RoomRecord
  <1>8. room.required_devices \subseteq s.room.required_devices \ old
    BY <1>3
  <1> HIDE DEF d, g, room, new, old
  <1>9. IsStateDelta(d)
    BY <1>2, <1>3, <1>4, <1>5, <1>6, <1>7 DEF IsStateDelta, DeltaIs, AtMostOne
  <1>10. /\ d.deleted_events = {} /\ d.deleted_welcome_targets = {} /\ d.events = {}
         /\ d.welcomes = {} /\ d.global = {g} /\ d.cursors = Empty /\ d.welcome_cursors = Empty
         /\ IF removed \cap s.room.members = {} THEN d.rooms = {} /\ d.deleted_cursors = {}
                                                ELSE d.rooms = {room} /\ d.deleted_cursors = old
    BY <1>4, <1>5, SMTT(30) DEF DeltaIs
  <1>11. CursorsReady(d, s.room.head_sequence, {}, sn) /\ WelcomeCursorsReady(d, s)
    BY <1>6, <1>10, SMTT(30) DEF CursorsReady, WelcomeCursorsReady
  <1>12. Latest(s.global, d.global) = g
    BY <1>10, LatestValue, ZenonT(60)
  <1>13. CASE removed \cap s.room.members = {}
    <2>1. Latest(s.room, d.rooms) = s.room
      BY <1>10, <1>13, LatestValue, Zenon
    <2>2. ~s.room.revocation_pending => s.room.members \subseteq g.active
      BY <1>1, <1>2, <1>13 DEF Sound, MembersActive, RoomRecord
    <2>3. s.room.required_devices \subseteq s.room.required_devices \ d.deleted_cursors
      BY <1>10, <1>13
    <2>4. WorkerReady(s, d, sn, ex)
      BY <1>1, <1>2, <1>9, <1>10, <1>11, <1>12, <2>1, <2>2, <2>3, UpdateReady, Zenon
    <2>5. QED BY <1>9, <2>4 DEF d
  <1>14. CASE removed \cap s.room.members # {}
    <2>1. Latest(s.room, d.rooms) = room
      BY <1>10, <1>14, LatestValue, Zenon
    <2>2. room.required_devices \subseteq s.room.required_devices \ d.deleted_cursors
      BY <1>8, <1>10, <1>14
    <2>3. WorkerReady(s, d, sn, ex)
      BY <1>2, <1>3, <1>9, <1>10, <1>11, <1>12, <2>1, <2>2, UpdateReady, Zenon
    <2>4. QED BY <1>9, <2>3 DEF d
  <1>15. QED BY <1>13, <1>14
=============================================================================
