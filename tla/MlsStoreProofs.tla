--------------------------- MODULE MlsStoreProofs ---------------------------
(***************************************************************************)
(* Facts about the operators of MlsStore: what apply_delta does to each    *)
(* field of the state.                                                     *)
(***************************************************************************)
EXTENDS MlsStore, FiniteSetTheorems, TLAPS

(***************************************************************************)
(* Maps.                                                                   *)
(***************************************************************************)

\* Removing keys from a map leaves a map of the same type.
LEMMA WithoutMap ==
    ASSUME NEW f, NEW K, NEW V, IsMap(f, K, V), NEW X
    PROVE  /\ IsMap(Without(f, X), K, V)
           /\ DOMAIN Without(f, X) = DOMAIN f \ X
           /\ \A x \in DOMAIN f \ X : Without(f, X)[x] = f[x]
  BY DEF IsMap, Without

\* g is the map f without the keys X.
Removed(f, X, g) == DOMAIN g = DOMAIN f \ X /\ \A x \in DOMAIN g : g[x] = f[x]

\* The same, in the form in which it is used.
LEMMA RemoveKeys ==
    ASSUME NEW f, NEW K, NEW V, IsMap(f, K, V), NEW X
    PROVE  IsMap(Without(f, X), K, V) /\ Removed(f, X, Without(f, X))
  BY WithoutMap DEF Removed

\* Overriding a map with a map leaves a map of the same type.
LEMMA WithMap ==
    ASSUME NEW f, NEW g, NEW K, NEW V, IsMap(f, K, V), IsMap(g, K, V)
    PROVE  /\ IsMap(With(f, g), K, V)
           /\ DOMAIN With(f, g) = DOMAIN f \cup DOMAIN g
           /\ \A x \in DOMAIN g : With(f, g)[x] = g[x]
           /\ \A x \in DOMAIN f \ DOMAIN g : With(f, g)[x] = f[x]
  BY DEF IsMap, With

\* r is the map f without the keys X and with the entries of g.
Updated(f, X, g, r) ==
    /\ DOMAIN r = (DOMAIN f \ X) \cup DOMAIN g
    /\ \A x \in DOMAIN r : r[x] = IF x \in DOMAIN g THEN g[x] ELSE f[x]

\* Removing keys from a map and then adding entries to it.
LEMMA UpdateMap ==
    ASSUME NEW f, NEW g, NEW K, NEW V, IsMap(f, K, V), IsMap(g, K, V), NEW X
    PROVE  /\ IsMap(With(Without(f, X), g), K, V)
           /\ Updated(f, X, g, With(Without(f, X), g))
  BY DEF IsMap, With, Without, Updated

\* A single entry is a map.
LEMMA EntryMap ==
    ASSUME NEW K, NEW V, NEW k \in K, NEW v \in V
    PROVE  /\ IsMap(Entry(k, v), K, V)
           /\ DOMAIN Entry(k, v) = {k}
           /\ Entry(k, v)[k] = v
  BY DEF IsMap, Entry

\* g is the map f with one more entry.
Added(f, k, v, g) ==
    DOMAIN g = DOMAIN f \cup {k} /\ g[k] = v /\ \A x \in DOMAIN f : g[x] = f[x]

\* Adding a new entry to a map.
LEMMA AddEntry ==
    ASSUME NEW f, NEW K, NEW V, IsMap(f, K, V), NEW k \in K, NEW v \in V, k \notin DOMAIN f
    PROVE  IsMap(With(f, Entry(k, v)), K, V) /\ Added(f, k, v, With(f, Entry(k, v)))
  BY DEF IsMap, With, Entry, Added

\* The empty map changes nothing.
LEMMA EmptyMap ==
    ASSUME NEW K, NEW V
    PROVE  /\ IsMap(Empty, K, V)
           /\ DOMAIN Empty = {}
           /\ \A f : IsMap(f, K, V) => With(f, Empty) = f
           /\ \A f : IsMap(f, K, V) => Without(f, {}) = f
  <1>1. IsMap(Empty, K, V) /\ DOMAIN Empty = {}
    BY DEF IsMap, Empty
  <1>2. ASSUME NEW f, IsMap(f, K, V) PROVE With(f, Empty) = f
    BY <1>1, <1>2 DEF IsMap, With
  <1>3. ASSUME NEW f, IsMap(f, K, V) PROVE Without(f, {}) = f
    BY <1>3 DEF IsMap, Without
  <1>4. QED BY <1>1, <1>2, <1>3

\* The empty delta has the type of a delta.
LEMMA EmptyDelta == IsStateDelta(StateDelta)
  <1>1. IsMap(Empty, Devices, DeviceCursor) /\ IsMap(Empty, Devices, Nat)
    BY EmptyMap
  <1>2. QED BY <1>1, SMTT(30) DEF IsStateDelta, StateDelta, AtMostOne

\* A delta's record, if it holds one, is what replaces the old one.
LEMMA LatestValue ==
    ASSUME NEW old, NEW x
    PROVE  Latest(old, {}) = old /\ Latest(old, {x}) = x
  BY DEF Latest

(***************************************************************************)
(* apply_delta, field by field.                                            *)
(***************************************************************************)
SetLog(s, A, B, C) == [s EXCEPT !.events = A, !.event_ids = B, !.commit_epochs = C]

SetWelcomes(s, A, B, C) ==
    [s EXCEPT !.device_welcomes = A, !.welcome_target_counts = B, !.welcomes = C]

\* Replacing the log and its indexes leaves the other fields alone.
LEMMA LogUpdate ==
    ASSUME NEW s, HasFields(s), NEW A, NEW B, NEW C, NEW r, r = SetLog(s, A, B, C)
    PROVE  /\ HasFields(r)
           /\ r.global = s.global /\ r.room = s.room
           /\ r.device_cursors = s.device_cursors /\ r.welcomes = s.welcomes
           /\ r.welcome_target_counts = s.welcome_target_counts
           /\ r.device_welcomes = s.device_welcomes
           /\ r.welcome_cursors = s.welcome_cursors
           /\ r.events = A /\ r.event_ids = B /\ r.commit_epochs = C
  BY Zenon DEF HasFields, SetLog

\* Replacing the Welcomes, their targets and counts leaves the other fields alone.
LEMMA WelcomeUpdate ==
    ASSUME NEW s, HasFields(s), NEW A, NEW B, NEW C, NEW r, r = SetWelcomes(s, A, B, C)
    PROVE  /\ HasFields(r)
           /\ r.global = s.global /\ r.room = s.room
           /\ r.events = s.events /\ r.event_ids = s.event_ids
           /\ r.commit_epochs = s.commit_epochs
           /\ r.device_cursors = s.device_cursors /\ r.welcome_cursors = s.welcome_cursors
           /\ r.device_welcomes = A /\ r.welcome_target_counts = B /\ r.welcomes = C
  BY Zenon DEF HasFields, SetWelcomes

\* r is s without these events.
RemovedEvents(s, seqs, r) ==
    /\ HasFields(r)
    /\ r.global = s.global /\ r.room = s.room
    /\ r.device_cursors = s.device_cursors /\ r.welcomes = s.welcomes
    /\ r.welcome_target_counts = s.welcome_target_counts
    /\ r.device_welcomes = s.device_welcomes
    /\ r.welcome_cursors = s.welcome_cursors
    /\ r.events = Without(s.events, seqs)
    /\ r.event_ids = Without(s.event_ids, IdsOf(s, seqs))
    /\ r.commit_epochs = Without(s.commit_epochs, EpochsOf(s, seqs))

\* remove_event_memory drops the events and their index entries.
LEMMA RemoveEventsFields ==
    ASSUME NEW s, HasFields(s), NEW seqs
    PROVE  RemovedEvents(s, seqs, remove_events_memory(s, seqs))
  <1>1. remove_events_memory(s, seqs) =
          SetLog(s, Without(s.events, seqs), Without(s.event_ids, IdsOf(s, seqs)),
                 Without(s.commit_epochs, EpochsOf(s, seqs)))
    BY Zenon DEF remove_events_memory, SetLog
  <1>2. QED BY <1>1, LogUpdate DEF RemovedEvents

\* The counts after deleting Welcome targets, and the Welcomes left without any.
TargetsLeft(s, targets) ==
    [i \in DOMAIN s.welcome_target_counts |->
        s.welcome_target_counts[i] - Cardinality({t \in targets \cap s.device_welcomes : t[2] = i})]

TargetsGone(s, targets) ==
    {i \in DOMAIN TargetsLeft(s, targets) : TargetsLeft(s, targets)[i] = 0}

\* r is s without these Welcome targets.
RemovedTargets(s, targets, r) ==
    /\ HasFields(r)
    /\ r.global = s.global /\ r.room = s.room
    /\ r.events = s.events /\ r.event_ids = s.event_ids
    /\ r.commit_epochs = s.commit_epochs
    /\ r.device_cursors = s.device_cursors /\ r.welcome_cursors = s.welcome_cursors
    /\ r.device_welcomes = s.device_welcomes \ targets
    /\ r.welcome_target_counts = Without(TargetsLeft(s, targets), TargetsGone(s, targets))
    /\ r.welcomes = Without(s.welcomes, TargetsGone(s, targets))

\* remove_welcome_target lowers the counts and drops the Welcomes without targets.
LEMMA RemoveTargetsFields ==
    ASSUME NEW s, HasFields(s), NEW targets
    PROVE  RemovedTargets(s, targets, remove_welcome_targets(s, targets))
  <1> DEFINE A == s.device_welcomes \ (targets \cap s.device_welcomes)
  <1>1. remove_welcome_targets(s, targets) =
          SetWelcomes(s, A, Without(TargetsLeft(s, targets), TargetsGone(s, targets)),
                      Without(s.welcomes, TargetsGone(s, targets)))
    BY Zenon DEF remove_welcome_targets, TargetsLeft, TargetsGone, SetWelcomes
  <1>2. A = s.device_welcomes \ targets
    OBVIOUS
  <1> HIDE DEF A
  <1>3. QED BY <1>1, <1>2, WelcomeUpdate DEF RemovedTargets

\* r is s with the event e.
InsertedEvent(s, e, r) ==
    /\ HasFields(r)
    /\ r.global = s.global /\ r.room = s.room
    /\ r.device_cursors = s.device_cursors /\ r.welcomes = s.welcomes
    /\ r.welcome_target_counts = s.welcome_target_counts
    /\ r.device_welcomes = s.device_welcomes
    /\ r.welcome_cursors = s.welcome_cursors
    /\ r.events = With(s.events, Entry(e.sequence, e))
    /\ r.event_ids = IF IsApplication(e)
                     THEN With(s.event_ids, Entry(e.event_id, e.sequence))
                     ELSE s.event_ids
    /\ r.commit_epochs = IF IsCommit(e)
                         THEN With(s.commit_epochs, Entry(e.parent_epoch, e.sequence))
                         ELSE s.commit_epochs

\* Removing events that are not stored changes nothing.
LEMMA RemoveAbsent ==
    ASSUME NEW s, HasFields(s), NEW seqs, seqs \cap DOMAIN s.events = {},
           IsMap(s.events, Nat, MlsDeliveryEvent), IsMap(s.event_ids, EventIds, Nat),
           IsMap(s.commit_epochs, Nat, Nat)
    PROVE  remove_events_memory(s, seqs) = s
  <1> DEFINE m == remove_events_memory(s, seqs)
  <1>1. RemovedEvents(s, seqs, m)
    BY RemoveEventsFields
  <1>2. IdsOf(s, seqs) = {} /\ EpochsOf(s, seqs) = {}
    BY DEF IdsOf, EpochsOf
  <1>3. Without(s.events, seqs) = s.events
    <2>1. DOMAIN s.events \ seqs = DOMAIN s.events
      OBVIOUS
    <2>2. QED BY <2>1 DEF Without, IsMap
  <1>4. Without(s.event_ids, {}) = s.event_ids /\ Without(s.commit_epochs, {}) = s.commit_epochs
    BY EmptyMap, Zenon
  <1> HIDE DEF m
  <1>5. m = s
    BY <1>1, <1>2, <1>3, <1>4 DEF RemovedEvents, HasFields
  <1>6. QED BY <1>5 DEF m

\* insert_event_memory adds the event and its index entry.
LEMMA InsertEventFields ==
    ASSUME NEW s, HasFields(s), NEW e, e.sequence \notin DOMAIN s.events,
           IsMap(s.events, Nat, MlsDeliveryEvent), IsMap(s.event_ids, EventIds, Nat),
           IsMap(s.commit_epochs, Nat, Nat)
    PROVE  InsertedEvent(s, e, insert_event_memory(s, e))
  <1>1. remove_events_memory(s, {e.sequence}) = s
    BY RemoveAbsent
  <1>2. insert_event_memory(s, e) =
          SetLog(s, With(s.events, Entry(e.sequence, e)),
                 IF IsApplication(e) THEN With(s.event_ids, Entry(e.event_id, e.sequence))
                                     ELSE s.event_ids,
                 IF IsCommit(e) THEN With(s.commit_epochs, Entry(e.parent_epoch, e.sequence))
                                ELSE s.commit_epochs)
    BY <1>1, Zenon DEF insert_event_memory, SetLog
  <1>3. QED BY <1>2, LogUpdate DEF InsertedEvent

\* The targets once the Welcome w is stored.
TargetsWith(s, w) == {t \in s.device_welcomes : t[2] # w.delivery_id}
                       \cup {<<x, w.delivery_id>> : x \in w.device_ids}

\* r is s with the Welcome w.
InsertedWelcome(s, w, r) ==
    /\ HasFields(r)
    /\ r.global = s.global /\ r.room = s.room
    /\ r.events = s.events /\ r.event_ids = s.event_ids
    /\ r.commit_epochs = s.commit_epochs
    /\ r.device_cursors = s.device_cursors /\ r.welcome_cursors = s.welcome_cursors
    /\ r.device_welcomes = TargetsWith(s, w)
    /\ r.welcome_target_counts =
         With(s.welcome_target_counts, Entry(w.delivery_id, Cardinality(w.device_ids)))
    /\ r.welcomes = With(s.welcomes, Entry(w.delivery_id, w))

\* insert_welcome_memory adds the Welcome, its targets and their count.
LEMMA InsertWelcomeFields ==
    ASSUME NEW s, HasFields(s), NEW w, w.delivery_id \notin DOMAIN s.welcomes
    PROVE  InsertedWelcome(s, w, insert_welcome_memory(s, w))
  <1>1. insert_welcome_memory(s, w) =
          SetWelcomes(s, TargetsWith(s, w),
                      With(s.welcome_target_counts,
                           Entry(w.delivery_id, Cardinality(w.device_ids))),
                      With(s.welcomes, Entry(w.delivery_id, w)))
    BY Zenon DEF insert_welcome_memory, SetWelcomes, TargetsWith
  <1>2. QED BY <1>1, WelcomeUpdate DEF InsertedWelcome

\* t is `stored` with the records and cursors of d.
Published(s, d, stored, t) ==
    /\ HasFields(t)
    /\ t.global = Latest(s.global, d.global)
    /\ t.room = Latest(s.room, d.rooms)
    /\ t.device_cursors = With(Without(s.device_cursors, d.deleted_cursors), d.cursors)
    /\ t.welcome_cursors = With(s.welcome_cursors, d.welcome_cursors)
    /\ t.events = stored.events
    /\ t.event_ids = stored.event_ids
    /\ t.commit_epochs = stored.commit_epochs
    /\ t.welcomes = stored.welcomes
    /\ t.welcome_target_counts = stored.welcome_target_counts
    /\ t.device_welcomes = stored.device_welcomes

\* What the deletions and insertions of a delta leave.
AfterDeletions(s, d) ==
    remove_welcome_targets(remove_events_memory(s, d.deleted_events), d.deleted_welcome_targets)

Stored(s, d) == InsertAll(AfterDeletions(s, d), d.events, d.welcomes)

\* apply_delta replaces the records and cursors after the deletions and insertions.
LEMMA ApplyFields ==
    ASSUME NEW s, HasFields(s), NEW d, NEW stored, stored = Stored(s, d),
           HasFields(stored), stored.room = s.room, stored.global = s.global,
           stored.welcome_cursors = s.welcome_cursors
    PROVE  Published(s, d, stored, apply_delta(s, d))
  <1> DEFINE t == apply_delta(s, d)
             A == Latest(s.room, d.rooms)
             B == With(Without(s.device_cursors, d.deleted_cursors), d.cursors)
             C == With(s.welcome_cursors, d.welcome_cursors)
             D == Latest(s.global, d.global)
  <1>1. t = [stored EXCEPT
               !.room = Latest(stored.room, d.rooms), !.device_cursors = B,
               !.welcome_cursors = With(stored.welcome_cursors, d.welcome_cursors),
               !.global = Latest(stored.global, d.global)]
    BY Zenon DEF apply_delta, Stored, AfterDeletions
  <1>2. t = [stored EXCEPT !.room = A, !.device_cursors = B, !.welcome_cursors = C, !.global = D]
    BY <1>1
  <1> HIDE DEF t, A, B, C, D
  <1>3. /\ HasFields(t) /\ t.room = A /\ t.device_cursors = B /\ t.welcome_cursors = C
        /\ t.global = D
        /\ t.events = stored.events /\ t.event_ids = stored.event_ids
        /\ t.commit_epochs = stored.commit_epochs /\ t.welcomes = stored.welcomes
        /\ t.welcome_target_counts = stored.welcome_target_counts
        /\ t.device_welcomes = stored.device_welcomes
    BY <1>2, Zenon DEF HasFields
  <1>4. QED BY <1>3, Zenon DEF A, B, C, D, t, Published

(***************************************************************************)
(* The deltas of the planners.                                             *)
(***************************************************************************)
\* A delta that deletes nothing leaves the state as it is before its insertions.
LEMMA RemoveNothing ==
    ASSUME NEW s, IsMemoryState(s), WelcomesStored(s), NEW d,
           d.deleted_events = {}, d.deleted_welcome_targets = {}
    PROVE  AfterDeletions(s, d) = s
  <1> DEFINE r == remove_welcome_targets(s, {})
  <1>1. HasFields(s) /\ IsMap(s.events, Nat, MlsDeliveryEvent) /\ IsMap(s.event_ids, EventIds, Nat)
          /\ IsMap(s.commit_epochs, Nat, Nat) /\ IsMap(s.welcome_target_counts, Nat, Nat)
          /\ IsMap(s.welcomes, Nat, StoredWelcome)
    BY DEF IsMemoryState
  <1>2. remove_events_memory(s, {}) = s
    BY <1>1, RemoveAbsent
  <1>3. RemovedTargets(s, {}, r)
    BY <1>1, RemoveTargetsFields
  <1>4. TargetsLeft(s, {}) = s.welcome_target_counts
    <2>1. \A i : {x \in {} \cap s.device_welcomes : x[2] = i} = {}
      OBVIOUS
    <2>2. Cardinality({}) = 0
      BY FS_EmptySet
    <2>3. TargetsLeft(s, {}) = [i \in DOMAIN s.welcome_target_counts |->
                                    s.welcome_target_counts[i] - 0]
      BY <2>1, <2>2 DEF TargetsLeft
    <2>4. QED BY <2>3, <1>1 DEF IsMap
  <1>5. TargetsGone(s, {}) = {}
    <2>1. \A i \in DOMAIN s.welcome_target_counts : s.welcome_target_counts[i] > 0
      BY Zenon DEF WelcomesStored
    <2>2. QED BY <2>1, <1>4, <1>1 DEF TargetsGone, IsMap
  <1>6. Without(s.welcome_target_counts, {}) = s.welcome_target_counts
          /\ Without(s.welcomes, {}) = s.welcomes
    BY <1>1, EmptyMap, Zenon
  <1> HIDE DEF r
  <1>7. r = s
    BY <1>1, <1>3, <1>4, <1>5, <1>6 DEF RemovedTargets, HasFields
  <1>8. QED BY <1>2, <1>7 DEF r, AfterDeletions

\* A delta without events, Welcomes and deletions leaves the log and the
\* Welcomes alone.
LEMMA UpdateFields ==
    ASSUME NEW s, IsMemoryState(s), WelcomesStored(s), NEW d,
           d.deleted_events = {}, d.deleted_welcome_targets = {},
           d.events = {}, d.welcomes = {}
    PROVE  Published(s, d, s, apply_delta(s, d))
  <1>1. Stored(s, d) = s
    BY RemoveNothing DEF InsertAll, Stored
  <1>2. QED BY <1>1, ApplyFields DEF IsMemoryState

\* A delta that stores one event leaves the Welcomes alone.
LEMMA AppendFields ==
    ASSUME NEW s, IsMemoryState(s), WelcomesStored(s), NEW d, NEW e,
           d.deleted_events = {}, d.deleted_welcome_targets = {},
           d.events = {e}, d.welcomes = {}, e.sequence \notin DOMAIN s.events
    PROVE  /\ InsertedEvent(s, e, Stored(s, d))
           /\ Published(s, d, Stored(s, d), apply_delta(s, d))
  <1>1. Stored(s, d) = insert_event_memory(s, e)
    BY RemoveNothing DEF InsertAll, Stored
  <1>2. InsertedEvent(s, e, Stored(s, d))
    BY <1>1, InsertEventFields DEF IsMemoryState
  <1>3. QED BY <1>2, ApplyFields DEF IsMemoryState, InsertedEvent

\* A commit that adds devices stores an event and a Welcome.
LEMMA AppendWelcomeFields ==
    ASSUME NEW s, IsMemoryState(s), WelcomesStored(s), NEW d, NEW e, NEW w,
           d.deleted_events = {}, d.deleted_welcome_targets = {},
           d.events = {e}, d.welcomes = {w}, e.sequence \notin DOMAIN s.events,
           w.delivery_id \notin DOMAIN s.welcomes
    PROVE  /\ InsertedEvent(s, e, insert_event_memory(s, e))
           /\ InsertedWelcome(insert_event_memory(s, e), w, Stored(s, d))
           /\ Published(s, d, Stored(s, d), apply_delta(s, d))
  <1> DEFINE m == insert_event_memory(s, e)
  <1>1. Stored(s, d) = insert_welcome_memory(m, w)
    BY RemoveNothing DEF InsertAll, Stored
  <1>2. InsertedEvent(s, e, m)
    BY InsertEventFields DEF IsMemoryState
  <1> HIDE DEF m
  <1>3. InsertedWelcome(m, w, Stored(s, d))
    BY <1>1, <1>2, InsertWelcomeFields DEF InsertedEvent
  <1>4. Published(s, d, Stored(s, d), apply_delta(s, d))
    BY <1>2, <1>3, ApplyFields DEF IsMemoryState, InsertedEvent, InsertedWelcome
  <1>5. QED BY <1>2, <1>3, <1>4 DEF m

\* A cleanup removes events and Welcome targets.
LEMMA CleanupFields ==
    ASSUME NEW s, IsMemoryState(s), NEW d, d.events = {}, d.welcomes = {}
    PROVE  /\ RemovedEvents(s, d.deleted_events, remove_events_memory(s, d.deleted_events))
           /\ RemovedTargets(remove_events_memory(s, d.deleted_events),
                             d.deleted_welcome_targets, Stored(s, d))
           /\ Published(s, d, Stored(s, d), apply_delta(s, d))
  <1> DEFINE m == remove_events_memory(s, d.deleted_events)
  <1>1. Stored(s, d) = remove_welcome_targets(m, d.deleted_welcome_targets)
    BY DEF InsertAll, Stored, AfterDeletions
  <1>2. RemovedEvents(s, d.deleted_events, m)
    BY RemoveEventsFields DEF IsMemoryState
  <1> HIDE DEF m
  <1>3. RemovedTargets(m, d.deleted_welcome_targets, Stored(s, d))
    BY <1>1, <1>2, RemoveTargetsFields DEF RemovedEvents
  <1>4. Published(s, d, Stored(s, d), apply_delta(s, d))
    BY <1>2, <1>3, ApplyFields DEF IsMemoryState, RemovedEvents, RemovedTargets
  <1>5. QED BY <1>2, <1>3, <1>4 DEF m

(***************************************************************************)
(* A delta does the same to the log and the Welcomes of two states that    *)
(* differ in their cursors only.                                           *)
(***************************************************************************)
SameStored(s, t) ==
    /\ t.global = s.global /\ t.room = s.room
    /\ t.events = s.events /\ t.event_ids = s.event_ids /\ t.commit_epochs = s.commit_epochs
    /\ t.welcomes = s.welcomes /\ t.welcome_target_counts = s.welcome_target_counts
    /\ t.device_welcomes = s.device_welcomes

\* The records and cursors of s.
KeepsRecords(s, r) ==
    /\ HasFields(r) /\ r.global = s.global /\ r.room = s.room
    /\ r.device_cursors = s.device_cursors /\ r.welcome_cursors = s.welcome_cursors

\* remove_event_memory looks only at the log.
LEMMA RemoveEventsSame ==
    ASSUME NEW s, NEW t, HasFields(s), HasFields(t), SameStored(s, t), NEW seqs
    PROVE  /\ SameStored(remove_events_memory(s, seqs), remove_events_memory(t, seqs))
           /\ KeepsRecords(s, remove_events_memory(s, seqs))
           /\ KeepsRecords(t, remove_events_memory(t, seqs))
  <1> DEFINE m == remove_events_memory(s, seqs)
             n == remove_events_memory(t, seqs)
  <1>1. RemovedEvents(s, seqs, m) /\ RemovedEvents(t, seqs, n)
    BY RemoveEventsFields
  <1>2. IdsOf(s, seqs) = IdsOf(t, seqs) /\ EpochsOf(s, seqs) = EpochsOf(t, seqs)
    BY DEF IdsOf, EpochsOf, SameStored
  <1> HIDE DEF m, n
  <1>3. SameStored(m, n) /\ KeepsRecords(s, m) /\ KeepsRecords(t, n)
    BY <1>1, <1>2 DEF RemovedEvents, SameStored, KeepsRecords
  <1>4. QED BY <1>3 DEF m, n

\* remove_welcome_target looks only at the Welcomes.
LEMMA RemoveTargetsSame ==
    ASSUME NEW s, NEW t, HasFields(s), HasFields(t), SameStored(s, t), NEW targets
    PROVE  /\ SameStored(remove_welcome_targets(s, targets), remove_welcome_targets(t, targets))
           /\ KeepsRecords(s, remove_welcome_targets(s, targets))
           /\ KeepsRecords(t, remove_welcome_targets(t, targets))
  <1> DEFINE m == remove_welcome_targets(s, targets)
             n == remove_welcome_targets(t, targets)
  <1>1. RemovedTargets(s, targets, m) /\ RemovedTargets(t, targets, n)
    BY RemoveTargetsFields
  <1>2. TargetsLeft(s, targets) = TargetsLeft(t, targets)
    BY DEF TargetsLeft, SameStored
  <1>3. TargetsGone(s, targets) = TargetsGone(t, targets)
    BY <1>2 DEF TargetsGone
  <1> HIDE DEF m, n
  <1>4. SameStored(m, n) /\ KeepsRecords(s, m) /\ KeepsRecords(t, n)
    BY <1>1, <1>2, <1>3 DEF RemovedTargets, SameStored, KeepsRecords
  <1>5. QED BY <1>4 DEF m, n

\* insert_event_memory looks only at the log.
LEMMA InsertEventSame ==
    ASSUME NEW s, NEW t, HasFields(s), HasFields(t), SameStored(s, t), NEW e
    PROVE  /\ SameStored(insert_event_memory(s, e), insert_event_memory(t, e))
           /\ KeepsRecords(s, insert_event_memory(s, e))
           /\ KeepsRecords(t, insert_event_memory(t, e))
  <1>1. CASE e.sequence \in DOMAIN s.events /\ s.events[e.sequence] = e
    <2>1. insert_event_memory(s, e) = s
      BY <1>1, Zenon DEF insert_event_memory
    <2>2. t.events = s.events
      BY DEF SameStored
    <2>3. insert_event_memory(t, e) = t
      BY <1>1, <2>2, Zenon DEF insert_event_memory
    <2>4. QED BY <2>1, <2>3 DEF KeepsRecords
  <1>2. CASE ~(e.sequence \in DOMAIN s.events /\ s.events[e.sequence] = e)
    <2> DEFINE m == remove_events_memory(s, {e.sequence})
               n == remove_events_memory(t, {e.sequence})
               Ids(x) == IF IsApplication(e) THEN With(x.event_ids, Entry(e.event_id, e.sequence))
                                             ELSE x.event_ids
               Epochs(x) == IF IsCommit(e)
                            THEN With(x.commit_epochs, Entry(e.parent_epoch, e.sequence))
                            ELSE x.commit_epochs
    <2>1. SameStored(m, n) /\ KeepsRecords(s, m) /\ KeepsRecords(t, n)
      BY RemoveEventsSame
    <2>2. t.events = s.events
      BY DEF SameStored
    <2>3. insert_event_memory(s, e) =
            SetLog(m, With(m.events, Entry(e.sequence, e)), Ids(m), Epochs(m))
      BY <1>2, Zenon DEF insert_event_memory, SetLog
    <2>4. insert_event_memory(t, e) =
            SetLog(n, With(n.events, Entry(e.sequence, e)), Ids(n), Epochs(n))
      BY <1>2, <2>2, Zenon DEF insert_event_memory, SetLog
    <2>5. Ids(m) = Ids(n) /\ Epochs(m) = Epochs(n) /\ m.events = n.events
      BY <2>1 DEF SameStored
    <2> HIDE DEF m, n, Ids, Epochs
    <2>6. QED BY <2>1, <2>3, <2>4, <2>5, LogUpdate DEF SameStored, KeepsRecords
  <1>3. QED BY <1>1, <1>2

\* insert_welcome_memory looks only at the Welcomes.
LEMMA InsertWelcomeSame ==
    ASSUME NEW s, NEW t, HasFields(s), HasFields(t), SameStored(s, t), NEW w
    PROVE  /\ SameStored(insert_welcome_memory(s, w), insert_welcome_memory(t, w))
           /\ KeepsRecords(s, insert_welcome_memory(s, w))
           /\ KeepsRecords(t, insert_welcome_memory(t, w))
  <1>1. t.welcomes = s.welcomes
    BY DEF SameStored
  <1>2. CASE w.delivery_id \in DOMAIN s.welcomes /\ s.welcomes[w.delivery_id] = w
    <2>1. insert_welcome_memory(s, w) = s /\ insert_welcome_memory(t, w) = t
      BY <1>1, <1>2, Zenon DEF insert_welcome_memory
    <2>2. QED BY <2>1 DEF KeepsRecords
  <1>3. CASE ~(w.delivery_id \in DOMAIN s.welcomes /\ s.welcomes[w.delivery_id] = w)
    <2> DEFINE Counts(x) == With(x.welcome_target_counts,
                                 Entry(w.delivery_id, Cardinality(w.device_ids)))
    <2>1. insert_welcome_memory(s, w) =
            SetWelcomes(s, TargetsWith(s, w), Counts(s), With(s.welcomes, Entry(w.delivery_id, w)))
      BY <1>3, Zenon DEF insert_welcome_memory, SetWelcomes, TargetsWith
    <2>2. insert_welcome_memory(t, w) =
            SetWelcomes(t, TargetsWith(t, w), Counts(t), With(t.welcomes, Entry(w.delivery_id, w)))
      BY <1>1, <1>3, Zenon DEF insert_welcome_memory, SetWelcomes, TargetsWith
    <2>3. TargetsWith(s, w) = TargetsWith(t, w) /\ Counts(s) = Counts(t)
      BY DEF TargetsWith, SameStored
    <2> HIDE DEF Counts
    <2>4. QED BY <1>1, <2>1, <2>2, <2>3, WelcomeUpdate DEF SameStored, KeepsRecords
  <1>4. QED BY <1>2, <1>3

\* apply_delta looks at the cursors only to update them.
LEMMA ApplySame ==
    ASSUME NEW s, NEW t, HasFields(s), HasFields(t), SameStored(s, t), NEW d
    PROVE  /\ SameStored(apply_delta(s, d), apply_delta(t, d))
           /\ Published(s, d, Stored(s, d), apply_delta(s, d))
           /\ Published(t, d, Stored(t, d), apply_delta(t, d))
  <1> DEFINE Same(x, y) == SameStored(x, y) /\ KeepsRecords(s, x) /\ KeepsRecords(t, y)
             e == CHOOSE e \in d.events : TRUE
             w == CHOOSE w \in d.welcomes : TRUE
             Ins(x) == IF d.events = {} THEN x ELSE insert_event_memory(x, e)
  <1>1. Same(AfterDeletions(s, d), AfterDeletions(t, d))
    <2>1. Same(remove_events_memory(s, d.deleted_events), remove_events_memory(t, d.deleted_events))
      BY RemoveEventsSame
    <2>2. QED BY <2>1, RemoveTargetsSame DEF AfterDeletions, KeepsRecords
  <1>2. ASSUME NEW x, NEW y, Same(x, y) PROVE Same(Ins(x), Ins(y))
    BY <1>2, InsertEventSame DEF KeepsRecords
  <1>3. ASSUME NEW x, NEW y, Same(x, y)
        PROVE  Same(InsertAll(x, d.events, d.welcomes), InsertAll(y, d.events, d.welcomes))
    <2>1. InsertAll(x, d.events, d.welcomes) =
            IF d.welcomes = {} THEN Ins(x) ELSE insert_welcome_memory(Ins(x), w)
      BY Zenon DEF InsertAll
    <2>2. InsertAll(y, d.events, d.welcomes) =
            IF d.welcomes = {} THEN Ins(y) ELSE insert_welcome_memory(Ins(y), w)
      BY Zenon DEF InsertAll
    <2> HIDE DEF Ins, w, e
    <2>3. Same(Ins(x), Ins(y))
      BY <1>2, <1>3
    <2>4. QED BY <2>1, <2>2, <2>3, InsertWelcomeSame DEF KeepsRecords
  <1>4. Same(Stored(s, d), Stored(t, d))
    BY <1>1, <1>3, Zenon DEF Stored
  <1>5. Published(s, d, Stored(s, d), apply_delta(s, d))
          /\ Published(t, d, Stored(t, d), apply_delta(t, d))
    BY <1>4, ApplyFields DEF KeepsRecords
  <1>6. QED BY <1>4, <1>5 DEF Published, SameStored
=============================================================================
