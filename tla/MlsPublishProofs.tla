-------------------------- MODULE MlsPublishProofs --------------------------
(***************************************************************************)
(* The deltas of acknowledgements and cleanups are ready to be published   *)
(* when they are planned; a planned delta stays ready whatever the other   *)
(* thread does and leaves a valid state when it is published.              *)
(***************************************************************************)
EXTENDS MlsPlanProofs

\* d changes only this cursor, or only this Welcome cursor.
OneCursor(d, x, c) ==
    /\ IsStateDelta(d) /\ CursorsOnly(d)
    /\ DOMAIN d.cursors = {x} /\ d.cursors[x] = c /\ DOMAIN d.welcome_cursors = {}

OneWelcomeCursor(d, x, i) ==
    /\ IsStateDelta(d) /\ CursorsOnly(d)
    /\ DOMAIN d.welcome_cursors = {x} /\ d.welcome_cursors[x] = i /\ DOMAIN d.cursors = {}

\* A delta that holds one cursor.
LEMMA CursorDeltaFields ==
    ASSUME NEW x \in Devices, NEW c \in DeviceCursor
    PROVE  OneCursor(CursorDelta(x, c), x, c)
  <1> DEFINE d == CursorDelta(x, c)
  <1>1. IsMap(Empty, Devices, Nat) /\ DOMAIN Empty = {}
    BY EmptyMap
  <1>2. IsMap(Entry(x, c), Devices, DeviceCursor) /\ DOMAIN Entry(x, c) = {x} /\ Entry(x, c)[x] = c
    BY EntryMap, Zenon
  <1>3. DeltaIs(d, {}, {}, {}, {}, Entry(x, c), {}, {}, {}, Empty)
    BY DEF DeltaIs, StateDelta, CursorDelta
  <1> HIDE DEF d
  <1>4. d.cursors = Entry(x, c) /\ d.welcome_cursors = Empty /\ CursorsOnly(d)
    BY <1>3 DEF DeltaIs, CursorsOnly
  <1>5. IsStateDelta(d)
    BY <1>1, <1>2, <1>3 DEF IsStateDelta, DeltaIs, AtMostOne
  <1>6. QED BY <1>1, <1>2, <1>4, <1>5 DEF OneCursor, d

\* A delta that holds one Welcome cursor.
LEMMA WelcomeCursorDeltaFields ==
    ASSUME NEW x \in Devices, NEW i \in Nat
    PROVE  OneWelcomeCursor(acknowledge_welcome(x, i), x, i)
  <1> DEFINE d == acknowledge_welcome(x, i)
  <1>1. IsMap(Empty, Devices, DeviceCursor) /\ DOMAIN Empty = {}
    BY EmptyMap
  <1>2. IsMap(Entry(x, i), Devices, Nat) /\ DOMAIN Entry(x, i) = {x} /\ Entry(x, i)[x] = i
    BY EntryMap, Zenon
  <1>3. DeltaIs(d, {}, {}, {}, {}, Empty, {}, {}, {}, Entry(x, i))
    BY DEF DeltaIs, StateDelta, acknowledge_welcome
  <1> HIDE DEF d
  <1>4. d.cursors = Empty /\ d.welcome_cursors = Entry(x, i) /\ CursorsOnly(d)
    BY <1>3 DEF DeltaIs, CursorsOnly
  <1>5. IsStateDelta(d)
    BY <1>1, <1>2, <1>3 DEF IsStateDelta, DeltaIs, AtMostOne
  <1>6. QED BY <1>1, <1>2, <1>4, <1>5 DEF OneWelcomeCursor, d

\* A delta of cursors only is ready when its cursors are.
LEMMA CursorsOnlyReady ==
    ASSUME NEW s, NEW sn \in [Devices -> Nat], NEW ex \in Nat, Sound(s, sn, ex),
           NEW d, IsStateDelta(d), LoopReady(s, d, sn)
    PROVE  WorkerReady(s, d, sn, ex)
  <1>1. CursorsReady(d, s.room.head_sequence, {}, sn) /\ WelcomeCursorsReady(d, s)
    BY DEF LoopReady
  <1>2. /\ d.deleted_events = {} /\ d.deleted_welcome_targets = {} /\ d.events = {}
        /\ d.welcomes = {} /\ d.global = {} /\ d.rooms = {} /\ d.deleted_cursors = {}
    BY DEF LoopReady, CursorsOnly
  <1>3. /\ s.room \in RoomRecord /\ s.global \in GlobalRecord
        /\ (~s.room.revocation_pending => s.room.members \subseteq s.global.active)
    BY SoundTypes DEF Sound, MembersActive
  <1>4. Latest(s.room, d.rooms) = s.room /\ Latest(s.global, d.global) = s.global
    BY <1>2, LatestValue, Zenon
  <1>5. s.room.required_devices \subseteq s.room.required_devices \ d.deleted_cursors
    BY <1>2
  <1>6. QED BY <1>1, <1>2, <1>3, <1>4, <1>5, UpdateReady, Zenon

\* persist_acknowledgement writes back a cursor that is still valid.
LEMMA PersistReady ==
    ASSUME NEW s, NEW sn \in [Devices -> Nat], NEW ex \in Nat, Sound(s, sn, ex),
           NEW x \in DOMAIN s.device_cursors
    PROVE  /\ IsStateDelta(persist_acknowledgement(s, x))
           /\ WorkerReady(s, persist_acknowledgement(s, x), sn, ex)
  <1> DEFINE d == persist_acknowledgement(s, x)
             c == s.device_cursors[x]
  <1>1. x \in Devices /\ c \in DeviceCursor
    BY SoundTypes, Zenon DEF IsMap
  <1>2. d = CursorDelta(x, c)
    BY Zenon DEF persist_acknowledgement
  <1>3. CursorConsistent(c, s.room.head_sequence) /\ c.highest_contiguous_sequence <= sn[x]
    BY DEF Sound, CursorsConsistent, CursorsSeen
  <1> HIDE DEF d, c
  <1>4. OneCursor(d, x, c)
    BY <1>1, <1>2, CursorDeltaFields
  <1>5. LoopReady(s, d, sn)
    BY <1>3, <1>4 DEF OneCursor, LoopReady, CursorsReady, WelcomeCursorsReady
  <1>6. IsStateDelta(d) /\ WorkerReady(s, d, sn, ex)
    BY <1>4, <1>5, CursorsOnlyReady DEF OneCursor
  <1>7. QED BY <1>6 DEF d

\* A Welcome acknowledgement of an issued id is ready, on either thread.
LEMMA WelcomeAckReady ==
    ASSUME NEW s, NEW sn \in [Devices -> Nat], NEW ex \in Nat, Sound(s, sn, ex),
           NEW x \in Devices, NEW i, WelcomeIdValid(i, s)
    PROVE  /\ IsStateDelta(acknowledge_welcome(x, i))
           /\ LoopReady(s, acknowledge_welcome(x, i), sn)
           /\ WorkerReady(s, acknowledge_welcome(x, i), sn, ex)
  <1> DEFINE d == acknowledge_welcome(x, i)
  <1>1. i \in Nat
    BY SoundTypes DEF WelcomeIdValid
  <1>2. OneWelcomeCursor(d, x, i)
    BY <1>1, WelcomeCursorDeltaFields
  <1> HIDE DEF d
  <1>3. LoopReady(s, d, sn)
    BY <1>2 DEF OneWelcomeCursor, LoopReady, CursorsReady, WelcomeCursorsReady
  <1>4. IsStateDelta(d) /\ WorkerReady(s, d, sn, ex)
    BY <1>2, <1>3, CursorsOnlyReady DEF OneWelcomeCursor
  <1>5. QED BY <1>3, <1>4 DEF d

\* An acknowledgement planned by the network loop is ready: the device has seen
\* what it reports.
LEMMA AcknowledgeReady ==
    ASSUME NEW s, NEW sn \in [Devices -> Nat], NEW ex \in Nat, Sound(s, sn, ex),
           NEW x \in Devices, NEW q \in Nat, AckAdvances(s, x, q), NEW sn2,
           sn2 = [sn EXCEPT ![x] = Larger(sn[x], q)]
    PROVE  IsStateDelta(acknowledge(s, x, q)) /\ LoopReady(s, acknowledge(s, x, q), sn2)
  <1> DEFINE d == acknowledge(s, x, q)
             old == s.device_cursors[x]
             mark == IF q > old.rejoin_required_through THEN 0 ELSE old.rejoin_required_through
             c == [old EXCEPT !.highest_contiguous_sequence = q,
                              !.rejoin_required_through = mark]
  <1>1. /\ old \in DeviceCursor /\ CursorConsistent(old, s.room.head_sequence)
        /\ s.room.head_sequence \in Nat /\ q <= s.room.head_sequence /\ q >= old.starting_sequence
    BY SoundTypes, Zenon DEF AckAdvances, IsMap, Sound, CursorsConsistent
  <1>2. d = CursorDelta(x, c)
    BY Zenon DEF acknowledge
  <1>5. old.starting_sequence \in Nat /\ old.rejoin_required_through \in Nat
    BY <1>1 DEF DeviceCursor
  <1>3. mark \in Nat /\ (mark = 0 \/ (mark = old.rejoin_required_through /\ q <= mark))
    BY <1>5
  <1> HIDE DEF mark
  <1>4. /\ c \in DeviceCursor /\ c.highest_contiguous_sequence = q
        /\ c.starting_sequence = old.starting_sequence /\ c.rejoin_required_through = mark
    BY <1>1, <1>3, Zenon DEF DeviceCursor
  <1> HIDE DEF d, c, old
  <1>6. CursorConsistent(c, s.room.head_sequence)
    BY <1>1, <1>3, <1>4, <1>5 DEF CursorConsistent
  <1>7. q <= sn2[x]
    BY DEF Larger
  <1>8. OneCursor(d, x, c)
    BY <1>2, <1>4, CursorDeltaFields
  <1>9. IsStateDelta(d) /\ LoopReady(s, d, sn2)
    BY <1>4, <1>6, <1>7, <1>8 DEF OneCursor, LoopReady, CursorsReady, WelcomeCursorsReady
  <1>10. QED BY <1>9 DEF d

\* A delta that deletes the oldest events, some Welcome targets, and marks
\* cursors is ready when the cursors are and nothing unseen is deleted.
LEMMA DeletionReady ==
    ASSUME NEW s, NEW sn \in [Devices -> Nat], NEW ex \in Nat, Sound(s, sn, ex),
           NEW d, IsStateDelta(d), NEW t, t = apply_delta(s, d),
           d.events = {}, d.welcomes = {}, d.global = {}, d.deleted_cursors = {},
           NEW end \in Nat,
           s.room.oldest_available_sequence <= end + 1, end <= s.room.head_sequence,
           d.deleted_events = s.room.oldest_available_sequence..end,
           NEW room \in RoomRecord, room = Latest(s.room, d.rooms),
           room.head_sequence = s.room.head_sequence, room.epoch = s.room.epoch,
           room.oldest_available_sequence = end + 1,
           room.members = s.room.members, room.required_devices = s.room.required_devices,
           room.revocation_pending = s.room.revocation_pending,
           \A x \in s.room.required_devices : end <= sn[x] \/ end <= ex,
           CursorsReady(d, s.room.head_sequence, {}, sn), WelcomeCursorsReady(d, s)
    PROVE  WorkerReady(s, d, sn, ex)
  <1> DEFINE m == remove_events_memory(s, d.deleted_events)
             r == Stored(s, d)
             dt == d.deleted_welcome_targets
  <1>1. /\ s.room \in RoomRecord /\ s.global \in GlobalRecord
        /\ IsMap(s.device_cursors, Devices, DeviceCursor)
        /\ IsMap(s.welcome_cursors, Devices, Nat)
        /\ IsMemoryState(s) /\ LogValid(s) /\ LogContiguous(s) /\ WelcomesStored(s)
    BY SoundTypes
  <1>2. RemovedEvents(s, d.deleted_events, m) /\ RemovedTargets(m, dt, r) /\ Published(s, d, r, t)
    BY <1>1, CleanupFields
  <1> HIDE DEF m, r, dt
  <1>3. TargetsLeft(m, dt) = TargetsLeft(s, dt) /\ TargetsGone(m, dt) = TargetsGone(s, dt)
    BY <1>2 DEF RemovedEvents, TargetsLeft, TargetsGone
  <1>4. Latest(s.global, d.global) = s.global
    BY LatestValue, Zenon
  <1>5. /\ HasFields(t) /\ t.room = room /\ t.global = s.global
        /\ t.device_cursors = With(Without(s.device_cursors, d.deleted_cursors), d.cursors)
        /\ t.welcome_cursors = With(s.welcome_cursors, d.welcome_cursors)
        /\ t.events = m.events /\ t.event_ids = m.event_ids /\ t.commit_epochs = m.commit_epochs
    BY <1>2, <1>4 DEF Published, RemovedTargets
  <1>6. /\ t.welcomes = Without(s.welcomes, TargetsGone(s, dt))
        /\ t.welcome_target_counts = Without(TargetsLeft(s, dt), TargetsGone(s, dt))
        /\ t.device_welcomes = s.device_welcomes \ dt
    BY <1>2, <1>3 DEF Published, RemovedTargets, RemovedEvents
  <1>7. RemovedEvents(s, s.room.oldest_available_sequence..end, m)
    BY <1>2
  <1>8. /\ LogValid(t)
        /\ IsMap(t.events, Nat, MlsDeliveryEvent) /\ IsMap(t.event_ids, EventIds, Nat)
        /\ IsMap(t.commit_epochs, Nat, Nat)
        /\ DOMAIN t.events \subseteq DOMAIN s.events
        /\ \A q \in DOMAIN t.events : t.events[q] = s.events[q]
    BY <1>1, <1>5, <1>7, PruneKeepsLog, SMTT(30)
  <1>9. LogContiguous(t)
    BY <1>8 DEF LogValid
  <1>10. LogStep(s, t)
    BY <1>1, <1>5, <1>8, SMTT(30) DEF LogStep, RoomRecord, GlobalRecord
  <1>11. /\ WelcomesStored(t)
         /\ IsMap(t.welcomes, Nat, StoredWelcome) /\ IsMap(t.welcome_target_counts, Nat, Nat)
         /\ t.device_welcomes \subseteq Devices \X Nat
    BY <1>1, <1>5, <1>6, <1>9, <1>10, WelcomesRemoved, SMTT(30)
  <1>12. /\ IsMap(t.device_cursors, Devices, DeviceCursor)
         /\ Updated(s.device_cursors, d.deleted_cursors, d.cursors, t.device_cursors)
    BY <1>1, <1>5, UpdateMap DEF IsStateDelta
  <1>13. IsMap(t.welcome_cursors, Devices, Nat)
    <2>1. IsMap(d.welcome_cursors, Devices, Nat)
      BY DEF IsStateDelta
    <2>2. IsMap(With(s.welcome_cursors, d.welcome_cursors), Devices, Nat)
      BY <1>1, <2>1, WithMap, Zenon
    <2>3. QED BY <1>5, <2>2
  <1>14. IsMemoryState(t)
    BY <1>1, <1>5, <1>8, <1>11, <1>12, <1>13, SMTT(30) DEF IsMemoryState
  <1>15. MembersActive(t)
    BY <1>5, SMTT(30) DEF MembersActive, Sound
  <1>16. RequiredHaveCursors(t)
    BY <1>5, <1>12 DEF RequiredHaveCursors, Sound, Updated
  <1>17. CursorsReady(d, t.room.head_sequence,
                      t.room.required_devices \ s.room.required_devices, sn)
    BY <1>5 DEF CursorsReady
  <1>18. DeletionSeen(t, t.room.required_devices
                           \ (t.room.required_devices \ s.room.required_devices), sn, ex)
    BY <1>5, SMTT(30) DEF DeletionSeen
  <1>19. QED
    BY <1>8, <1>10, <1>11, <1>14, <1>15, <1>16, <1>17, <1>18, Zenon DEF WorkerReady

\* The delta of a cleanup.
LEMMA CleanupDeltaFields ==
    ASSUME NEW s, NEW cutoff, NEW targets, NEW end, end = PruneEnd(s, cutoff, BatchLimit),
           NEW room, room = [s.room EXCEPT !.oldest_available_sequence = end + 1],
           NEW marks, marks = RejoinMarks(s, Expiry(s, cutoff)),
           NEW gone, gone = s.room.oldest_available_sequence..end
    PROVE  IF PruneDue(s, cutoff)
           THEN DeltaIs(CleanupDelta(s, cutoff, targets), {}, {room}, {}, gone, marks, {}, {},
                        targets, Empty)
           ELSE DeltaIs(CleanupDelta(s, cutoff, targets), {}, {}, {}, {}, Empty, {}, {},
                        targets, Empty)
  <1> DEFINE p == plan_prune_room(s, cutoff, BatchLimit)
  <1>1. DeltaIs(p, {}, {room}, {}, gone, marks, {}, {}, {}, Empty)
    <2>1. p = [StateDelta EXCEPT !.rooms = {room}, !.deleted_events = gone, !.cursors = marks]
      BY Zenon DEF plan_prune_room
    <2>2. QED BY <2>1, Zenon DEF DeltaIs, StateDelta
  <1>2. CleanupDelta(s, cutoff, targets) =
          IF PruneDue(s, cutoff) THEN [p EXCEPT !.deleted_welcome_targets = targets]
                                 ELSE [StateDelta EXCEPT !.deleted_welcome_targets = targets]
    BY Zenon DEF CleanupDelta
  <1> HIDE DEF p
  <1>3. QED BY <1>1, <1>2, Zenon DEF DeltaIs, StateDelta

\* A batch of a cleanup ends in the log, at an event that every required device
\* acknowledged or that retention expired.
LEMMA PruneBounds ==
    ASSUME NEW s, NEW sn \in [Devices -> Nat], NEW ex \in Nat, Sound(s, sn, ex),
           NEW cutoff \in 0..s.room.head_sequence, PruneDue(s, cutoff),
           NEW end, end = PruneEnd(s, cutoff, BatchLimit), NEW e, e = Expiry(s, cutoff),
           NEW ex2, ex2 = Larger(ex, ExpiredNow(s, cutoff))
    PROVE  /\ e \in 0..s.room.head_sequence /\ ex2 \in Nat
           /\ end \in s.room.oldest_available_sequence..s.room.head_sequence
           /\ \A x \in s.room.required_devices : end <= sn[x] \/ end <= ex2
  <1> DEFINE h == s.room.head_sequence
             o == s.room.oldest_available_sequence
             safe == SafeSequence(s)
  <1>1. h \in Nat /\ o \in 1..(h + 1)
    BY SoundTypes
  <1>2. /\ safe \in 0..h
        /\ \A x \in s.room.required_devices :
             safe <= s.device_cursors[x].highest_contiguous_sequence
    BY SafeSequenceBound DEF Sound
  <1>3. \A x \in s.room.required_devices :
          /\ s.device_cursors[x].highest_contiguous_sequence \in Nat
          /\ s.device_cursors[x].highest_contiguous_sequence <= sn[x]
          /\ sn[x] \in Nat
    <2>1. \A x \in DOMAIN s.device_cursors : x \in Devices /\ s.device_cursors[x] \in DeviceCursor
      BY SoundTypes, Zenon DEF IsMap
    <2>2. QED BY <2>1 DEF Sound, RequiredHaveCursors, CursorsSeen, DeviceCursor
  <1> HIDE DEF safe
  <1>4. e = IF cutoff < o THEN o - 1 ELSE cutoff
    BY Zenon DEF Expiry
  <1>5. end = IF (IF safe > e THEN safe ELSE e) < o + BatchLimit
              THEN (IF safe > e THEN safe ELSE e) ELSE o + BatchLimit - 1
    BY Zenon DEF PruneEnd, PruneThrough, safe
  <1>6. o <= h /\ (IF safe > e THEN safe ELSE e) >= o
    BY DEF PruneDue, PruneThrough, safe
  <1>7. ex2 = Larger(ex, IF e > safe THEN e ELSE 0)
    BY Zenon DEF ExpiredNow, safe
  <1> HIDE DEF h, o
  <1>8. e \in 0..h
    BY <1>1, <1>4 DEF h
  <1>9. ex2 \in Nat /\ (e > safe => e <= ex2)
    BY <1>2, <1>7, <1>8 DEF Larger, h
  <1>10. end \in o..h /\ (end <= safe \/ (e > safe /\ end <= e))
    BY <1>1, <1>2, <1>5, <1>6, <1>8, BatchLimitAssumption DEF h
  <1>11. ASSUME NEW x \in s.room.required_devices PROVE end <= sn[x] \/ end <= ex2
    BY <1>1, <1>2, <1>3, <1>8, <1>9, <1>10
  <1>12. QED BY <1>8, <1>9, <1>10, <1>11 DEF h, o

\* The cursors a cleanup marks are valid.
LEMMA MarksReady ==
    ASSUME NEW s, NEW sn \in [Devices -> Nat], NEW ex \in Nat, Sound(s, sn, ex),
           NEW e \in 0..s.room.head_sequence, NEW marks, marks = RejoinMarks(s, e)
    PROVE  /\ IsMap(marks, Devices, DeviceCursor)
           /\ \A x \in DOMAIN marks :
                /\ CursorConsistent(marks[x], s.room.head_sequence)
                /\ marks[x].highest_contiguous_sequence <= sn[x]
  <1> DEFINE lag == {x \in s.room.required_devices :
                       s.device_cursors[x].highest_contiguous_sequence < e}
             mark(x) == [s.device_cursors[x] EXCEPT !.rejoin_required_through = e]
  <1>1. marks = [x \in lag |-> mark(x)]
    BY Zenon DEF RejoinMarks
  <1>2. ASSUME NEW x \in lag
        PROVE  /\ x \in Devices /\ mark(x) \in DeviceCursor
               /\ CursorConsistent(mark(x), s.room.head_sequence)
               /\ mark(x).highest_contiguous_sequence <= sn[x]
    <2> DEFINE c == s.device_cursors[x]
               k == mark(x)
    <2>1. /\ x \in Devices /\ c \in DeviceCursor /\ CursorConsistent(c, s.room.head_sequence)
          /\ c.highest_contiguous_sequence <= sn[x] /\ c.highest_contiguous_sequence < e
          /\ s.room.head_sequence \in Nat
      BY SoundTypes, Zenon DEF IsMap, Sound, RequiredHaveCursors, CursorsConsistent, CursorsSeen
    <2>2. k = [c EXCEPT !.rejoin_required_through = e]
      BY Zenon
    <2> HIDE DEF k, c, lag
    <2>3. /\ k \in DeviceCursor /\ k.highest_contiguous_sequence = c.highest_contiguous_sequence
          /\ k.starting_sequence = c.starting_sequence /\ k.rejoin_required_through = e
      BY <2>1, <2>2 DEF DeviceCursor
    <2>4. CursorConsistent(k, s.room.head_sequence)
      BY <2>1, <2>3 DEF CursorConsistent, DeviceCursor
    <2>5. x \in Devices /\ k \in DeviceCursor /\ CursorConsistent(k, s.room.head_sequence)
            /\ k.highest_contiguous_sequence <= sn[x]
      BY <2>1, <2>3, <2>4
    <2>6. QED BY <2>5 DEF k
  <1> HIDE DEF lag, mark
  <1>3. DOMAIN marks = lag /\ \A x \in lag : marks[x] = mark(x)
    BY <1>1
  <1>4. QED BY <1>1, <1>2, <1>3 DEF IsMap

\* The worker's plan for a cleanup is ready to be published, with the events it
\* finds expired counted as expired.
LEMMA CleanupReady ==
    ASSUME NEW s, NEW sn \in [Devices -> Nat], NEW ex \in Nat, Sound(s, sn, ex),
           NEW cutoff \in 0..s.room.head_sequence, NEW targets \in SUBSET s.device_welcomes,
           NEW ex2, ex2 = Larger(ex, ExpiredNow(s, cutoff)), Sound(s, sn, ex2), ex2 \in Nat
    PROVE  /\ IsStateDelta(CleanupDelta(s, cutoff, targets))
           /\ WorkerReady(s, CleanupDelta(s, cutoff, targets), sn, ex2)
  <1> DEFINE d == CleanupDelta(s, cutoff, targets)
             end == PruneEnd(s, cutoff, BatchLimit)
             room == [s.room EXCEPT !.oldest_available_sequence = end + 1]
             e == Expiry(s, cutoff)
             marks == RejoinMarks(s, e)
             gone == s.room.oldest_available_sequence..end
  <1>1. IF PruneDue(s, cutoff)
        THEN DeltaIs(d, {}, {room}, {}, gone, marks, {}, {}, targets, Empty)
        ELSE DeltaIs(d, {}, {}, {}, {}, Empty, {}, {}, targets, Empty)
    BY CleanupDeltaFields, Zenon
  <1>2. /\ s.room \in RoomRecord /\ s.room.head_sequence \in Nat
        /\ s.room.oldest_available_sequence \in 1..(s.room.head_sequence + 1)
        /\ targets \subseteq Devices \X Nat
    BY SoundTypes DEF IsMemoryState
  <1>3. /\ IsMap(Empty, Devices, Nat) /\ IsMap(Empty, Devices, DeviceCursor)
        /\ DOMAIN Empty = {}
    BY EmptyMap
  <1> HIDE DEF d, end, room, e, marks, gone
  <1>4. CASE PruneDue(s, cutoff)
    <2>1. /\ e \in 0..s.room.head_sequence
          /\ end \in s.room.oldest_available_sequence..s.room.head_sequence
          /\ \A x \in s.room.required_devices : end <= sn[x] \/ end <= ex2
      BY <1>4, PruneBounds DEF end, e
    <2>2. /\ IsMap(marks, Devices, DeviceCursor)
          /\ \A x \in DOMAIN marks :
               /\ CursorConsistent(marks[x], s.room.head_sequence)
               /\ marks[x].highest_contiguous_sequence <= sn[x]
      BY <2>1, MarksReady DEF marks
    <2>3. end \in Nat /\ end + 1 \in Nat /\ gone \subseteq Nat
            /\ s.room.oldest_available_sequence <= end + 1 /\ end <= s.room.head_sequence
      BY <1>2, <2>1 DEF gone
    <2>4. /\ room \in RoomRecord /\ room.oldest_available_sequence = end + 1
          /\ room.head_sequence = s.room.head_sequence /\ room.epoch = s.room.epoch
          /\ room.members = s.room.members /\ room.required_devices = s.room.required_devices
          /\ room.revocation_pending = s.room.revocation_pending
      <3>1. room = [s.room EXCEPT !.oldest_available_sequence = end + 1]
        BY DEF room
      <3>2. QED BY <1>2, <2>3, <3>1 DEF RoomRecord
    <2>5. DeltaIs(d, {}, {room}, {}, gone, marks, {}, {}, targets, Empty)
      BY <1>1, <1>4
    <2>6. IsStateDelta(d)
      BY <1>2, <1>3, <2>2, <2>3, <2>4, <2>5, SMTT(30) DEF IsStateDelta, DeltaIs, AtMostOne
    <2>7. /\ d.events = {} /\ d.welcomes = {} /\ d.global = {} /\ d.deleted_cursors = {}
          /\ d.deleted_events = s.room.oldest_available_sequence..end
          /\ d.rooms = {room} /\ d.cursors = marks /\ d.welcome_cursors = Empty
      BY <2>5, SMTT(30) DEF DeltaIs, gone
    <2>8. Latest(s.room, d.rooms) = room
      BY <2>7, LatestValue, Zenon
    <2>9. CursorsReady(d, s.room.head_sequence, {}, sn) /\ WelcomeCursorsReady(d, s)
      BY <1>3, <2>2, <2>7 DEF CursorsReady, WelcomeCursorsReady
    <2>10. WorkerReady(s, d, sn, ex2)
      BY <2>1, <2>3, <2>4, <2>6, <2>7, <2>8, <2>9, DeletionReady, Zenon
    <2>11. QED BY <2>6, <2>10 DEF d
  <1>5. CASE ~PruneDue(s, cutoff)
    <2> DEFINE last == s.room.oldest_available_sequence - 1
    <2>1. /\ last \in Nat /\ s.room.oldest_available_sequence = last + 1
          /\ last <= s.room.head_sequence /\ s.room.oldest_available_sequence..last = {}
      BY <1>2
    <2>2. \A x \in s.room.required_devices : last <= sn[x] \/ last <= ex2
      BY DEF Sound, DeletionSeen
    <2> HIDE DEF last
    <2>3. DeltaIs(d, {}, {}, {}, {}, Empty, {}, {}, targets, Empty)
      BY <1>1, <1>5
    <2>4. IsStateDelta(d)
      BY <1>2, <1>3, <2>3 DEF IsStateDelta, DeltaIs, AtMostOne
    <2>5. /\ d.events = {} /\ d.welcomes = {} /\ d.global = {} /\ d.deleted_cursors = {}
          /\ d.deleted_events = s.room.oldest_available_sequence..last
          /\ d.rooms = {} /\ d.cursors = Empty /\ d.welcome_cursors = Empty
      BY <2>1, <2>3 DEF DeltaIs
    <2>6. Latest(s.room, d.rooms) = s.room
      BY <2>5, LatestValue, Zenon
    <2>7. CursorsReady(d, s.room.head_sequence, {}, sn) /\ WelcomeCursorsReady(d, s)
      BY <1>3, <2>5 DEF CursorsReady, WelcomeCursorsReady
    <2>8. s.room.oldest_available_sequence <= last + 1
      BY <1>2, <2>1
    <2>9. WorkerReady(s, d, sn, ex2)
      BY <1>2, <2>1, <2>2, <2>4, <2>5, <2>6, <2>7, <2>8, DeletionReady, Zenon
    <2>10. QED BY <2>4, <2>9 DEF d
  <1>6. QED BY <1>4, <1>5

(***************************************************************************)
(* Histories that grow, and the two publications.                          *)
(***************************************************************************)
\* sn2 records at least as much as sn.
SeenMore(sn, sn2) == \A x \in Devices : sn[x] <= sn2[x]

\* A valid state stays valid when a device reports more or more events expire.
LEMMA SoundGrows ==
    ASSUME NEW s, NEW sn \in [Devices -> Nat], NEW ex \in Nat, Sound(s, sn, ex),
           NEW sn2 \in [Devices -> Nat], SeenMore(sn, sn2), NEW ex2 \in Nat, ex <= ex2
    PROVE  Sound(s, sn2, ex2)
  <1>1. /\ \A x \in DOMAIN s.device_cursors :
             x \in Devices /\ s.device_cursors[x].highest_contiguous_sequence \in Nat
        /\ s.room.oldest_available_sequence \in Nat /\ s.room.required_devices \subseteq Devices
    BY SoundTypes, Zenon DEF IsMap, DeviceCursor, RoomRecord
  <1>2. CursorsSeen(s, sn2)
    <2>1. CursorsSeen(s, sn)
      BY DEF Sound
    <2>2. QED BY <1>1, <2>1 DEF CursorsSeen, SeenMore
  <1>3. DeletionSeen(s, s.room.required_devices, sn2, ex2)
    <2>1. DeletionSeen(s, s.room.required_devices, sn, ex)
      BY DEF Sound
    <2>2. QED BY <1>1, <2>1 DEF DeletionSeen, SeenMore
  <1>4. QED BY <1>2, <1>3 DEF Sound

\* So do the plans of both threads.
LEMMA WorkerReadyGrows ==
    ASSUME NEW s, NEW sn \in [Devices -> Nat], NEW ex \in Nat, NEW d, IsStateDelta(d),
           WorkerReady(s, d, sn, ex),
           NEW sn2 \in [Devices -> Nat], SeenMore(sn, sn2), NEW ex2 \in Nat, ex <= ex2
    PROVE  WorkerReady(s, d, sn2, ex2)
  <1> DEFINE t == apply_delta(s, d)
             joining == t.room.required_devices \ s.room.required_devices
  <1>1. /\ IsMemoryState(t) /\ LogValid(t) /\ MembersActive(t) /\ WelcomesStored(t)
        /\ LogStep(s, t) /\ RequiredHaveCursors(t)
        /\ CursorsReady(d, t.room.head_sequence, joining, sn)
        /\ DeletionSeen(t, t.room.required_devices \ joining, sn, ex)
        /\ WelcomeCursorsReady(d, s)
    BY Zenon DEF WorkerReady
  <1> HIDE DEF t, joining
  <1>2. /\ t.room.head_sequence \in Nat /\ t.room.oldest_available_sequence \in Nat
        /\ t.room.required_devices \subseteq Devices
    BY <1>1 DEF IsMemoryState, RoomRecord
  <1>3. \A x \in DOMAIN d.cursors :
          x \in Devices /\ d.cursors[x].highest_contiguous_sequence \in Nat
    BY DEF IsStateDelta, IsMap, DeviceCursor
  <1>4. CursorsReady(d, t.room.head_sequence, joining, sn2)
    BY <1>1, <1>2, <1>3 DEF CursorsReady, SeenMore
  <1>5. DeletionSeen(t, t.room.required_devices \ joining, sn2, ex2)
    BY <1>1, <1>2, SMTT(30) DEF DeletionSeen, SeenMore
  <1>6. QED BY <1>1, <1>4, <1>5, Zenon DEF WorkerReady, t, joining

\* The loop's plan also survives what the worker publishes in between.
LEMMA LoopReadyGrows ==
    ASSUME NEW s, NEW sn \in [Devices -> Nat], NEW d, IsStateDelta(d), LoopReady(s, d, sn),
           NEW sn2 \in [Devices -> Nat], SeenMore(sn, sn2), NEW t,
           s.room \in RoomRecord, t.room \in RoomRecord, s.global \in GlobalRecord,
           t.global \in GlobalRecord, t.room.head_sequence >= s.room.head_sequence,
           t.global.next_welcome_delivery_id >= s.global.next_welcome_delivery_id
    PROVE  LoopReady(t, d, sn2)
  <1>1. /\ s.room.head_sequence \in Nat /\ t.room.head_sequence \in Nat
        /\ s.global.next_welcome_delivery_id \in Nat /\ t.global.next_welcome_delivery_id \in Nat
    BY DEF RoomRecord, GlobalRecord
  <1>2. \A x \in DOMAIN d.cursors : x \in Devices /\ d.cursors[x] \in DeviceCursor
    BY DEF IsStateDelta, IsMap
  <1>3. \A c \in DeviceCursor : CursorConsistent(c, s.room.head_sequence)
                                  => CursorConsistent(c, t.room.head_sequence)
    BY <1>1 DEF CursorConsistent, DeviceCursor
  <1>4. CursorsReady(d, t.room.head_sequence, {}, sn2)
    <2>1. \A x \in DOMAIN d.cursors :
            /\ CursorConsistent(d.cursors[x], s.room.head_sequence)
            /\ d.cursors[x].highest_contiguous_sequence <= sn[x]
      BY DEF LoopReady, CursorsReady
    <2>2. \A x \in DOMAIN d.cursors : d.cursors[x].highest_contiguous_sequence \in Nat
      BY <1>2 DEF DeviceCursor
    <2>3. \A x \in DOMAIN d.cursors : d.cursors[x].highest_contiguous_sequence <= sn2[x]
      BY <1>2, <2>1, <2>2 DEF SeenMore
    <2>4. QED BY <1>2, <1>3, <2>1, <2>3 DEF CursorsReady
  <1>5. WelcomeCursorsReady(d, t)
    BY <1>1 DEF LoopReady, WelcomeCursorsReady, WelcomeIdValid
  <1>6. QED BY <1>4, <1>5 DEF LoopReady

\* Publishing a ready delta of the worker gives a valid state, in which a
\* device that becomes required has seen everything up to the head.
LEMMA PublishSound ==
    ASSUME NEW s, NEW sn \in [Devices -> Nat], NEW ex \in Nat, Sound(s, sn, ex),
           NEW d, IsStateDelta(d), WorkerReady(s, d, sn, ex), NEW t, t = apply_delta(s, d),
           NEW sn2, sn2 = [x \in Devices |->
                             IF x \in t.room.required_devices \ s.room.required_devices
                             THEN Larger(sn[x], t.room.head_sequence) ELSE sn[x]]
    PROVE  /\ Sound(t, sn2, ex) /\ sn2 \in [Devices -> Nat] /\ SeenMore(sn, sn2)
           /\ LogStep(s, t) /\ DOMAIN s.welcome_cursors \subseteq DOMAIN t.welcome_cursors
  <1> DEFINE joining == t.room.required_devices \ s.room.required_devices
  <1>1. /\ IsMemoryState(t) /\ LogValid(t) /\ MembersActive(t) /\ WelcomesStored(t)
        /\ LogStep(s, t) /\ RequiredHaveCursors(t)
        /\ CursorsReady(d, t.room.head_sequence, joining, sn)
        /\ DeletionSeen(t, t.room.required_devices \ joining, sn, ex)
        /\ WelcomeCursorsReady(d, s)
    BY Zenon DEF WorkerReady
  <1>2. /\ s.room \in RoomRecord /\ s.global \in GlobalRecord
        /\ IsMap(s.device_cursors, Devices, DeviceCursor)
        /\ IsMap(s.welcome_cursors, Devices, Nat) /\ HasFields(s)
    BY SoundTypes, SMTT(30) DEF IsMemoryState
  <1>3. /\ t.room.head_sequence \in Nat /\ t.room.oldest_available_sequence \in Nat
        /\ t.room.oldest_available_sequence <= t.room.head_sequence + 1
        /\ t.room.required_devices \subseteq Devices
        /\ t.global.next_welcome_delivery_id \in Nat
        /\ s.room.head_sequence \in Nat /\ s.global.next_welcome_delivery_id \in Nat
    <2>1. t.room \in RoomRecord /\ t.global \in GlobalRecord
      BY <1>1, Zenon DEF IsMemoryState
    <2>2. LogContiguous(t)
      BY <1>1, Zenon DEF LogValid
    <2>3. /\ t.room.head_sequence \in Nat /\ t.room.oldest_available_sequence \in Nat
          /\ t.room.required_devices \subseteq Devices
      BY <2>1 DEF RoomRecord
    <2>4. t.room.oldest_available_sequence <= t.room.head_sequence + 1
      BY <2>2 DEF LogContiguous
    <2>5. /\ t.global.next_welcome_delivery_id \in Nat
          /\ s.room.head_sequence \in Nat /\ s.global.next_welcome_delivery_id \in Nat
      BY <1>2, <2>1 DEF RoomRecord, GlobalRecord
    <2>6. QED BY <2>3, <2>4, <2>5
  <1>4. sn2 \in [Devices -> Nat] /\ SeenMore(sn, sn2)
          /\ \A x \in joining : t.room.head_sequence <= sn2[x]
    BY <1>3 DEF Larger, SeenMore
  <1>5. Published(s, d, Stored(s, d), t)
    <2>1. SameStored(s, s)
      BY DEF SameStored
    <2>2. QED BY <1>2, <2>1, ApplySame
  <1>6. /\ t.device_cursors = With(Without(s.device_cursors, d.deleted_cursors), d.cursors)
        /\ t.welcome_cursors = With(s.welcome_cursors, d.welcome_cursors)
    BY <1>5 DEF Published
  <1>7. Updated(s.device_cursors, d.deleted_cursors, d.cursors, t.device_cursors)
    BY <1>2, <1>6, UpdateMap DEF IsStateDelta
  <1>8. /\ DOMAIN t.welcome_cursors = DOMAIN s.welcome_cursors \cup DOMAIN d.welcome_cursors
        /\ \A x \in DOMAIN t.welcome_cursors :
             t.welcome_cursors[x] = IF x \in DOMAIN d.welcome_cursors
                                    THEN d.welcome_cursors[x] ELSE s.welcome_cursors[x]
    BY <1>6 DEF With
  <1> HIDE DEF joining
  <1>9. /\ \A x \in DOMAIN s.device_cursors :
             /\ x \in Devices /\ s.device_cursors[x] \in DeviceCursor
             /\ CursorConsistent(s.device_cursors[x], s.room.head_sequence)
             /\ s.device_cursors[x].highest_contiguous_sequence <= sn[x]
        /\ \A x \in DOMAIN d.cursors : x \in Devices /\ d.cursors[x] \in DeviceCursor
    <2>1. CursorsConsistent(s) /\ CursorsSeen(s, sn)
      BY Zenon DEF Sound
    <2>2. /\ DOMAIN s.device_cursors \subseteq Devices
          /\ \A x \in DOMAIN s.device_cursors : s.device_cursors[x] \in DeviceCursor
      BY <1>2, Zenon DEF IsMap
    <2>3. IsMap(d.cursors, Devices, DeviceCursor)
      BY Zenon DEF IsStateDelta
    <2>4. \A x \in DOMAIN d.cursors : x \in Devices /\ d.cursors[x] \in DeviceCursor
      BY <2>3 DEF IsMap
    <2>5. \A x \in DOMAIN s.device_cursors :
             /\ CursorConsistent(s.device_cursors[x], s.room.head_sequence)
             /\ s.device_cursors[x].highest_contiguous_sequence <= sn[x]
      BY <2>1, Zenon DEF CursorsConsistent, CursorsSeen
    <2>6. QED BY <2>2, <2>4, <2>5, Zenon
  <1>10. \A c \in DeviceCursor : c.highest_contiguous_sequence \in Nat
           /\ (CursorConsistent(c, s.room.head_sequence)
                 => CursorConsistent(c, t.room.head_sequence))
    BY <1>1, <1>3, SMTT(30) DEF CursorConsistent, DeviceCursor, LogStep
  <1>11. CursorsConsistent(t)
    BY <1>1, <1>7, <1>9, <1>10, SMTT(30) DEF CursorsConsistent, CursorsReady, Updated
  <1>12. CursorsSeen(t, sn2)
    <2>1. ASSUME NEW x \in DOMAIN t.device_cursors
          PROVE  t.device_cursors[x].highest_contiguous_sequence <= sn2[x]
      <3>1. CASE x \in DOMAIN d.cursors
        <4>1. /\ t.device_cursors[x] = d.cursors[x] /\ x \in Devices
              /\ d.cursors[x].highest_contiguous_sequence \in Nat
              /\ d.cursors[x].highest_contiguous_sequence
                   <= IF x \in joining THEN t.room.head_sequence ELSE sn[x]
          BY <1>1, <1>7, <1>9, <1>10, <3>1, SMTT(30) DEF Updated, CursorsReady
        <4>2. QED BY <1>3, <1>4, <4>1, SMTT(30) DEF SeenMore
      <3>2. CASE x \notin DOMAIN d.cursors
        <4>1. /\ t.device_cursors[x] = s.device_cursors[x] /\ x \in Devices
              /\ s.device_cursors[x].highest_contiguous_sequence \in Nat
              /\ s.device_cursors[x].highest_contiguous_sequence <= sn[x]
          BY <1>7, <1>9, <1>10, <3>2, SMTT(30) DEF Updated
        <4>2. QED BY <1>4, <4>1, SMTT(30) DEF SeenMore
      <3>3. QED BY <3>1, <3>2
    <2>2. QED BY <2>1, SMTT(30) DEF CursorsSeen
  <1>13. DeletionSeen(t, t.room.required_devices, sn2, ex)
    <2>1. ASSUME NEW x \in t.room.required_devices
          PROVE  \/ t.room.oldest_available_sequence - 1 <= sn2[x]
                 \/ t.room.oldest_available_sequence - 1 <= ex
      <3>1. x \in Devices
        BY <1>3, SMTT(30)
      <3>2. CASE x \in joining
        BY <1>3, <1>4, <3>1, <3>2, SMTT(30)
      <3>3. CASE x \notin joining
        BY <1>1, <1>3, <1>4, <3>1, <3>3, SMTT(30) DEF DeletionSeen, SeenMore
      <3>4. QED BY <3>2, <3>3, SMTT(30)
    <2>2. QED BY <2>1, SMTT(30) DEF DeletionSeen
  <1>14. WelcomesConsistent(t)
    <2>1. \A i : WelcomeIdValid(i, s) => WelcomeIdValid(i, t)
      BY <1>1, <1>3, SMTT(30) DEF WelcomeIdValid, LogStep
    <2>2. \A x \in DOMAIN s.welcome_cursors : WelcomeIdValid(s.welcome_cursors[x], s)
      BY SMTT(30) DEF Sound, WelcomesConsistent
    <2>3. QED BY <1>1, <1>8, <2>1, <2>2, SMTT(30) DEF WelcomesConsistent, WelcomeCursorsReady
  <1>15. Sound(t, sn2, ex)
    BY <1>1, <1>11, <1>12, <1>13, <1>14, SMTT(30) DEF Sound
  <1>16. QED BY <1>1, <1>4, <1>8, <1>15, SMTT(30)

\* Publishing a ready delta of the network loop gives a valid state that
\* differs in its cursors only.
LEMMA LoopPublishSound ==
    ASSUME NEW s, NEW sn \in [Devices -> Nat], NEW ex \in Nat, Sound(s, sn, ex),
           NEW d, IsStateDelta(d), LoopReady(s, d, sn), NEW t, t = apply_delta(s, d)
    PROVE  /\ Sound(t, sn, ex) /\ LogStep(s, t) /\ SameStored(s, t)
           /\ DOMAIN s.device_cursors \subseteq DOMAIN t.device_cursors
           /\ DOMAIN t.welcome_cursors = DOMAIN s.welcome_cursors \cup DOMAIN d.welcome_cursors
  <1>1. WorkerReady(s, d, sn, ex)
    BY CursorsOnlyReady
  <1>2. Published(s, d, s, t)
    BY SoundTypes, UpdateFields, SMTT(30) DEF LoopReady, CursorsOnly
  <1>3. Latest(s.room, d.rooms) = s.room /\ Latest(s.global, d.global) = s.global
    BY LatestValue, Zenon DEF LoopReady, CursorsOnly
  <1>4. SameStored(s, t)
    BY <1>2, <1>3 DEF Published, SameStored
  <1>5. /\ DOMAIN s.device_cursors \subseteq DOMAIN t.device_cursors
        /\ DOMAIN t.welcome_cursors = DOMAIN s.welcome_cursors \cup DOMAIN d.welcome_cursors
    BY <1>2, SMTT(30) DEF Published, LoopReady, CursorsOnly, With, Without
  <1> DEFINE sn2 == [x \in Devices |->
                       IF x \in t.room.required_devices \ s.room.required_devices
                       THEN Larger(sn[x], t.room.head_sequence) ELSE sn[x]]
  <1>6. sn2 = sn
    BY <1>4 DEF SameStored
  <1>7. Sound(t, sn2, ex) /\ LogStep(s, t)
    BY <1>1, PublishSound, SMTT(30)
  <1>8. QED BY <1>4, <1>5, <1>6, <1>7, SMTT(30)

\* What the network loop publishes does not disturb the worker's plan.
LEMMA WorkerReadySame ==
    ASSUME NEW s, NEW sn \in [Devices -> Nat], NEW ex \in Nat, NEW t,
           IsMemoryState(s), IsMemoryState(t), SameStored(s, t),
           DOMAIN s.device_cursors \subseteq DOMAIN t.device_cursors,
           NEW d, IsStateDelta(d), WorkerReady(s, d, sn, ex)
    PROVE  WorkerReady(t, d, sn, ex)
  <1> DEFINE p == apply_delta(s, d)
             r == apply_delta(t, d)
             joining == p.room.required_devices \ s.room.required_devices
  <1>1. /\ IsMemoryState(p) /\ LogValid(p) /\ MembersActive(p) /\ WelcomesStored(p)
        /\ LogStep(s, p) /\ RequiredHaveCursors(p)
        /\ CursorsReady(d, p.room.head_sequence, joining, sn)
        /\ DeletionSeen(p, p.room.required_devices \ joining, sn, ex)
        /\ WelcomeCursorsReady(d, s)
    BY Zenon DEF WorkerReady
  <1>2. /\ SameStored(p, r) /\ Published(s, d, Stored(s, d), p)
        /\ Published(t, d, Stored(t, d), r)
    BY ApplySame, SMTT(30) DEF IsMemoryState
  <1> HIDE DEF p, r
  <1>3. /\ r.global = p.global /\ r.room = p.room
        /\ r.events = p.events /\ r.event_ids = p.event_ids /\ r.commit_epochs = p.commit_epochs
        /\ r.welcomes = p.welcomes /\ r.welcome_target_counts = p.welcome_target_counts
        /\ r.device_welcomes = p.device_welcomes /\ HasFields(r)
    BY <1>2, Zenon DEF SameStored, Published
  <1>4. /\ t.room = s.room /\ t.global = s.global /\ t.events = s.events
    BY DEF SameStored
  <1>5. /\ IsMap(r.device_cursors, Devices, DeviceCursor)
        /\ Updated(t.device_cursors, d.deleted_cursors, d.cursors, r.device_cursors)
        /\ Updated(s.device_cursors, d.deleted_cursors, d.cursors, p.device_cursors)
    BY <1>2, UpdateMap, SMTT(30) DEF IsStateDelta, IsMemoryState, Published
  <1>6. IsMap(r.welcome_cursors, Devices, Nat)
    <2>1. IsMap(d.welcome_cursors, Devices, Nat) /\ IsMap(t.welcome_cursors, Devices, Nat)
      BY DEF IsStateDelta, IsMemoryState
    <2>2. IsMap(With(t.welcome_cursors, d.welcome_cursors), Devices, Nat)
      BY <2>1, WithMap, Zenon
    <2>3. QED BY <1>2, <2>2, SMTT(30) DEF Published
  <1>7. IsMemoryState(r)
    BY <1>1, <1>3, <1>5, <1>6, Zenon DEF IsMemoryState
  <1>8. LogValid(r)
    BY <1>1, <1>3, LogValidSame, Zenon
  <1>9. MembersActive(r) /\ LogStep(t, r)
    <2>1. MembersActive(r)
      BY <1>1, <1>3, Zenon DEF MembersActive
    <2>2. QED BY <1>1, <1>3, <1>4, <2>1, LogStepLike, Zenon
  <1>10. WelcomesStored(r)
    BY <1>1, <1>3, Zenon DEF WelcomesStored
  <1>11. RequiredHaveCursors(r)
    BY <1>1, <1>3, <1>5, Zenon DEF RequiredHaveCursors, Updated
  <1>12. joining = r.room.required_devices \ t.room.required_devices
    BY <1>3, <1>4, Zenon
  <1> HIDE DEF joining
  <1>13. /\ CursorsReady(d, r.room.head_sequence, joining, sn)
         /\ DeletionSeen(r, r.room.required_devices \ joining, sn, ex)
         /\ WelcomeCursorsReady(d, t)
    <2>1. CursorsReady(d, r.room.head_sequence, joining, sn)
      BY <1>1, <1>3, Zenon
    <2>2. DeletionSeen(r, r.room.required_devices \ joining, sn, ex)
      BY <1>1, <1>3, Zenon DEF DeletionSeen
    <2>3. WelcomeCursorsReady(d, t)
      BY <1>1, <1>4, Zenon DEF WelcomeCursorsReady, WelcomeIdValid
    <2>4. QED BY <2>1, <2>2, <2>3, Zenon
  <1>14. QED
    BY <1>7, <1>8, <1>9, <1>10, <1>11, <1>12, <1>13, Zenon DEF WorkerReady, r
=============================================================================
