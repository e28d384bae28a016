------------------------------ MODULE MlsStore ------------------------------
(***************************************************************************)
(* The in-memory state of the MLS delivery store                           *)
(* (crates/server/src/mls_store.rs, MemoryState) for one room, the deltas  *)
(* that every mutation is turned into (StateDelta), the planners that      *)
(* build them and apply_delta, which publishes them.  No variables: the    *)
(* modules that add the threads, the write-ahead log and the clients all   *)
(* use these operators.                                                    *)
(*                                                                         *)
(* A device stands for its MLS client id and its device id at once.  A     *)
(* commit is [committer, members, external]: who signed it, the leaves it  *)
(* results in and whether it is an external commit; two commits with the   *)
(* same fields are the same bytes.  A room with head_sequence 0 is a room  *)
(* that does not exist yet.                                                *)
(***************************************************************************)
EXTENDS Integers, FiniteSets

CONSTANTS Devices,      \* devices certified by some roster
          Accounts,     \* the accounts of the room's descriptor
          AccountOf,    \* the account that owns each device
          EventIds,     \* ids of application events
          Ciphertexts   \* application payloads

ASSUME DevicesAssumption == IsFiniteSet(Devices)
ASSUME AccountOfAssumption == AccountOf \in [Devices -> Accounts]

(***************************************************************************)
(* Types.                                                                  *)
(***************************************************************************)
RoomRecord == [epoch: Nat, members: SUBSET Devices, revocation_pending: BOOLEAN,
               head_sequence: Nat, oldest_available_sequence: Nat,
               required_devices: SUBSET Devices]

Commit == [committer: Devices, members: SUBSET Devices, external: BOOLEAN]

CommitEvent == [kind: {"commit"}, sequence: Nat, parent_epoch: Nat, epoch: Nat,
                commit: Commit]

ApplicationEvent == [kind: {"application"}, sequence: Nat, epoch: Nat,
                     event_id: EventIds, ciphertext: Ciphertexts]

MlsDeliveryEvent == CommitEvent \cup ApplicationEvent

\* rejoin_required_through is 0 for None: sequences start at 1.
DeviceCursor == [highest_contiguous_sequence: Nat, starting_sequence: Nat,
                 rejoin_required_through: Nat]

\* The devices on the current rosters, the sum of the rosters' revisions and
\* the next Welcome id.
GlobalRecord == [active: SUBSET Devices, revision: Nat, next_welcome_delivery_id: Nat \ {0}]

StoredWelcome == [delivery_id: Nat, sequence: Nat, device_ids: SUBSET Devices]

(***************************************************************************)
(* Functions whose domain changes, standing for the maps of the store.     *)
(***************************************************************************)
Empty == [x \in {} |-> x]

Without(f, K) == [x \in DOMAIN f \ K |-> f[x]]

With(f, g) == [x \in DOMAIN f \cup DOMAIN g |-> IF x \in DOMAIN g THEN g[x] ELSE f[x]]

Entry(x, v) == [y \in {x} |-> v]

\* The last record of a delta that replaces `old`, if it holds one.
Latest(old, updates) ==
    CHOOSE x \in (IF updates = {} THEN {old} ELSE updates) : TRUE

(***************************************************************************)
(* The store.                                                              *)
(***************************************************************************)
NoRoom == [epoch |-> 0, members |-> {}, revocation_pending |-> FALSE,
           head_sequence |-> 0, oldest_available_sequence |-> 1,
           required_devices |-> {}]

MemoryState(active) ==
    [global |-> [active |-> active, revision |-> 0, next_welcome_delivery_id |-> 1],
     room |-> NoRoom,
     events |-> Empty, event_ids |-> Empty, commit_epochs |-> Empty,
     device_cursors |-> Empty,
     welcomes |-> Empty, welcome_target_counts |-> Empty,
     device_welcomes |-> {}, welcome_cursors |-> Empty]

StateDelta == [global |-> {}, rooms |-> {}, events |-> {}, deleted_events |-> {},
               cursors |-> Empty, deleted_cursors |-> {},
               welcomes |-> {}, deleted_welcome_targets |-> {},
               welcome_cursors |-> Empty]

is_empty(d) == d = StateDelta

IsMap(f, K, V) ==
    /\ f = [x \in DOMAIN f |-> f[x]]
    /\ DOMAIN f \subseteq K
    /\ \A x \in DOMAIN f : f[x] \in V

HasFields(s) ==
    s = [global |-> s.global, room |-> s.room, events |-> s.events,
         event_ids |-> s.event_ids, commit_epochs |-> s.commit_epochs,
         device_cursors |-> s.device_cursors, welcomes |-> s.welcomes,
         welcome_target_counts |-> s.welcome_target_counts,
         device_welcomes |-> s.device_welcomes, welcome_cursors |-> s.welcome_cursors]

IsMemoryState(s) ==
    /\ HasFields(s)
    /\ s.global \in GlobalRecord
    /\ s.room \in RoomRecord
    /\ IsMap(s.events, Nat, MlsDeliveryEvent)
    /\ IsMap(s.event_ids, EventIds, Nat)
    /\ IsMap(s.commit_epochs, Nat, Nat)
    /\ IsMap(s.device_cursors, Devices, DeviceCursor)
    /\ IsMap(s.welcomes, Nat, StoredWelcome)
    /\ IsMap(s.welcome_target_counts, Nat, Nat)
    /\ s.device_welcomes \subseteq Devices \X Nat
    /\ IsMap(s.welcome_cursors, Devices, Nat)

\* A delta holds at most one room, one event and one Welcome.
AtMostOne(S, T) == S \subseteq T /\ \A x, y \in S : x = y

IsStateDelta(d) ==
    /\ d = [global |-> d.global, rooms |-> d.rooms, events |-> d.events,
            deleted_events |-> d.deleted_events, cursors |-> d.cursors,
            deleted_cursors |-> d.deleted_cursors, welcomes |-> d.welcomes,
            deleted_welcome_targets |-> d.deleted_welcome_targets,
            welcome_cursors |-> d.welcome_cursors]
    /\ AtMostOne(d.global, GlobalRecord)
    /\ AtMostOne(d.rooms, RoomRecord)
    /\ AtMostOne(d.events, MlsDeliveryEvent)
    /\ d.deleted_events \subseteq Nat
    /\ IsMap(d.cursors, Devices, DeviceCursor)
    /\ d.deleted_cursors \subseteq Devices
    /\ AtMostOne(d.welcomes, StoredWelcome)
    /\ d.deleted_welcome_targets \subseteq Devices \X Nat
    /\ IsMap(d.welcome_cursors, Devices, Nat)

IsApplication(e) == e.kind = "application"

IsCommit(e) == e.kind = "commit"

\* The index keys of the stored events with these sequences.
IdsOf(s, seqs) ==
    {s.events[q].event_id : q \in {p \in seqs \cap DOMAIN s.events : IsApplication(s.events[p])}}

EpochsOf(s, seqs) ==
    {s.events[q].parent_epoch : q \in {p \in seqs \cap DOMAIN s.events : IsCommit(s.events[p])}}

\* Mutant: the event is removed and its index entries are not.
RemoveEventsOnly(s, seqs) == [s EXCEPT !.events = Without(@, seqs)]

remove_events_memory(s, seqs) ==
    [s EXCEPT !.events = Without(@, seqs),
              !.event_ids = Without(@, IdsOf(s, seqs)),
              !.commit_epochs = Without(@, EpochsOf(s, seqs))]

insert_event_memory(s, e) ==
    LET r == remove_events_memory(s, {e.sequence})
    IN  IF e.sequence \in DOMAIN s.events /\ s.events[e.sequence] = e
        THEN s
        ELSE [r EXCEPT !.events = With(@, Entry(e.sequence, e)),
                       !.event_ids = IF IsApplication(e)
                                     THEN With(@, Entry(e.event_id, e.sequence)) ELSE @,
                       !.commit_epochs = IF IsCommit(e)
                                         THEN With(@, Entry(e.parent_epoch, e.sequence)) ELSE @]

\* Mutant: a target is removed and its Welcome's count is not.
RemoveWelcomeTargetsNoCount(s, targets) ==
    LET hit == targets \cap s.device_welcomes
    IN  [s EXCEPT !.device_welcomes = @ \ hit]

\* A device_welcomes target is a pair <<device, delivery_id>>.
remove_welcome_targets(s, targets) ==
    LET hit == targets \cap s.device_welcomes
        left == [i \in DOMAIN s.welcome_target_counts |->
                   s.welcome_target_counts[i] - Cardinality({t \in hit : t[2] = i})]
        gone == {i \in DOMAIN left : left[i] = 0}
    IN  [s EXCEPT !.device_welcomes = @ \ hit,
                  !.welcome_target_counts = Without(left, gone),
                  !.welcomes = Without(@, gone)]

insert_welcome_memory(s, w) ==
    IF w.delivery_id \in DOMAIN s.welcomes /\ s.welcomes[w.delivery_id] = w
    THEN s
    ELSE [s EXCEPT !.device_welcomes = {t \in @ : t[2] # w.delivery_id}
                                         \cup {<<d, w.delivery_id>> : d \in w.device_ids},
                   !.welcome_target_counts =
                        With(@, Entry(w.delivery_id, Cardinality(w.device_ids))),
                   !.welcomes = With(@, Entry(w.delivery_id, w))]

\* Deltas hold at most one event and one Welcome, so no order is lost.
InsertAll(s, events, welcomes) ==
    LET t == IF events = {} THEN s ELSE insert_event_memory(s, CHOOSE e \in events : TRUE)
    IN  IF welcomes = {} THEN t ELSE insert_welcome_memory(t, CHOOSE w \in welcomes : TRUE)

apply_delta(s, d) ==
    LET removed == remove_events_memory(s, d.deleted_events)
        cursors == Without(s.device_cursors, d.deleted_cursors)
        targets == remove_welcome_targets(removed, d.deleted_welcome_targets)
        stored  == InsertAll(targets, d.events, d.welcomes)
    IN  [stored EXCEPT !.room = Latest(@, d.rooms),
                       !.device_cursors = With(cursors, d.cursors),
                       !.welcome_cursors = With(@, d.welcome_cursors),
                       !.global = Latest(@, d.global)]

(***************************************************************************)
(* Queries.                                                                *)
(***************************************************************************)
requires_rejoin(s, d) ==
    d \in DOMAIN s.device_cursors /\ s.device_cursors[d].rejoin_required_through # 0

\* The stored commit at this parent epoch, if it is exactly this one.
find_commit(s, parent_epoch, c) ==
    parent_epoch \in DOMAIN s.commit_epochs
      /\ s.events[s.commit_epochs[parent_epoch]].commit = c

application_retry(s, id, epoch, ct) ==
    id \in DOMAIN s.event_ids
      /\ LET e == s.events[s.event_ids[id]] IN e.epoch = epoch /\ e.ciphertext = ct

welcome_head(s, d) ==
    LET ids == {t[2] : t \in {x \in s.device_welcomes : x[1] = d}}
                 \cup (IF d \in DOMAIN s.welcome_cursors THEN {s.welcome_cursors[d]} ELSE {0})
    IN  CHOOSE i \in ids : \A j \in ids : j <= i

(***************************************************************************)
(* Planners.  Each reads the state and returns the delta to commit; the    *)
(* guards are the early returns of the code.                               *)
(***************************************************************************)
\* Mutant: a new cursor starts two events back, below zero in a new room.
NewCursorTwoBack(sequence) == [highest_contiguous_sequence |-> sequence,
                               starting_sequence |-> sequence - 2,
                               rejoin_required_through |-> 0]

NewCursor(sequence) == [highest_contiguous_sequence |-> sequence,
                        starting_sequence |-> sequence,
                        rejoin_required_through |-> 0]

\* Err "new MLS room member unexpectedly already has a cursor".
ReconciliationPossible(s, required) ==
    (required \ s.room.required_devices) \cap DOMAIN s.device_cursors = {}

plan_cursor_reconciliation(s, room, d) ==
    LET previous == s.room.required_devices
    IN  [d EXCEPT !.deleted_cursors = previous \ room.required_devices,
                  !.cursors = [x \in room.required_devices \ previous |->
                                  NewCursor(room.head_sequence)]]

EventDelta(room, e) == [StateDelta EXCEPT !.rooms = {room}, !.events = {e}]

\* create_room and append_commit: the room record, the commit, the Welcome
\* for the added devices and the cursors of the new set of required devices.
plan_commit(s, room, e, targets) ==
    LET id == s.global.next_welcome_delivery_id
        d == plan_cursor_reconciliation(s, room, EventDelta(room, e))
        w == [delivery_id |-> id, sequence |-> e.sequence, device_ids |-> targets]
    IN  IF targets = {} THEN [d EXCEPT !.global = {s.global}]
        ELSE [d EXCEPT !.welcomes = {w},
                       !.global = {[s.global EXCEPT !.next_welcome_delivery_id = id + 1]}]

\* Mutant: the application takes the head's sequence instead of the next one.
AppendApplicationAtHead(s, id, epoch, ct) ==
    EventDelta(s.room, [kind |-> "application", sequence |-> s.room.head_sequence,
                        epoch |-> epoch, event_id |-> id, ciphertext |-> ct])

append_application(s, id, epoch, ct) ==
    LET q == s.room.head_sequence + 1
    IN  EventDelta([s.room EXCEPT !.head_sequence = q],
                   [kind |-> "application", sequence |-> q, epoch |-> epoch,
                    event_id |-> id, ciphertext |-> ct])

replace_global_and_rooms(s, global, rooms) ==
    LET d == [StateDelta EXCEPT !.global = {global}, !.rooms = rooms]
    IN  IF rooms = {} THEN d
        ELSE plan_cursor_reconciliation(s, Latest(s.room, rooms), d)

\* Mutant: an acknowledgement ahead of the head is not refused.
AckAdvancesAnywhere(s, d, sequence) ==
    /\ d \in DOMAIN s.device_cursors
    /\ sequence >= s.device_cursors[d].starting_sequence
    /\ sequence > s.device_cursors[d].highest_contiguous_sequence

\* acknowledge: the errors and the no-op are the negation of this guard.
AckAdvances(s, d, sequence) ==
    /\ sequence <= s.room.head_sequence
    /\ d \in DOMAIN s.device_cursors
    /\ sequence >= s.device_cursors[d].starting_sequence
    /\ sequence > s.device_cursors[d].highest_contiguous_sequence

CursorDelta(d, c) == [StateDelta EXCEPT !.cursors = Entry(d, c)]

\* Mutant: an acknowledgement moves the cursor to the head.
AcknowledgeToHead(s, d, sequence) ==
    CursorDelta(d,
        [s.device_cursors[d] EXCEPT !.highest_contiguous_sequence = s.room.head_sequence])

acknowledge(s, d, sequence) ==
    CursorDelta(d, [s.device_cursors[d] EXCEPT
        !.highest_contiguous_sequence = sequence,
        !.rejoin_required_through = IF sequence > @ THEN 0 ELSE @])

\* persist_acknowledgement re-commits the cursor it reads.
persist_acknowledgement(s, d) == CursorDelta(d, s.device_cursors[d])

WelcomeAckAdvances(s, d, id) ==
    /\ id > (IF d \in DOMAIN s.welcome_cursors THEN s.welcome_cursors[d] ELSE 0)
    /\ id <= welcome_head(s, d)

acknowledge_welcome(d, id) == [StateDelta EXCEPT !.welcome_cursors = Entry(d, id)]

\* plan_prune_room.  Stored times never decrease along the log, so the clock
\* and the retention period are abstracted to `cutoff`, the last sequence
\* stored before the retention window.
MinOver(S, default) == IF S = {} THEN default ELSE CHOOSE x \in S : \A y \in S : x <= y

\* Mutant: the cursors are not consulted.
SafeSequenceHead(s) == s.room.head_sequence

SafeSequence(s) ==
    MinOver({s.device_cursors[d].highest_contiguous_sequence : d \in s.room.required_devices},
            s.room.head_sequence)

Expiry(s, cutoff) == IF cutoff < s.room.oldest_available_sequence
                     THEN s.room.oldest_available_sequence - 1 ELSE cutoff

PruneThrough(s, cutoff) ==
    IF SafeSequence(s) > Expiry(s, cutoff) THEN SafeSequence(s) ELSE Expiry(s, cutoff)

PruneDue(s, cutoff) ==
    /\ s.room.oldest_available_sequence <= s.room.head_sequence
    /\ PruneThrough(s, cutoff) >= s.room.oldest_available_sequence

\* The watermark a cleanup sets because events expired unread, if it does.
ExpiredNow(s, cutoff) ==
    IF PruneDue(s, cutoff) /\ Expiry(s, cutoff) > SafeSequence(s) THEN Expiry(s, cutoff) ELSE 0

\* The last event of this batch.
PruneEnd(s, cutoff, batch_limit) ==
    LET oldest == s.room.oldest_available_sequence
    IN  IF PruneThrough(s, cutoff) < oldest + batch_limit
        THEN PruneThrough(s, cutoff) ELSE oldest + batch_limit - 1

\* The cursors of the required devices that have not read what expired.
RejoinMarks(s, expiry) ==
    [d \in {x \in s.room.required_devices :
              s.device_cursors[x].highest_contiguous_sequence < expiry} |->
        [s.device_cursors[d] EXCEPT !.rejoin_required_through = expiry]]

plan_prune_room(s, cutoff, batch_limit) ==
    LET end == PruneEnd(s, cutoff, batch_limit)
    IN  [StateDelta EXCEPT
           !.rooms = {[s.room EXCEPT !.oldest_available_sequence = end + 1]},
           !.deleted_events = s.room.oldest_available_sequence..end,
           !.cursors = RejoinMarks(s, Expiry(s, cutoff))]

\* plan_cleanup_welcomes: acknowledged targets and expired ones.
WelcomeTargetsDue(s, cutoff) ==
    {t \in s.device_welcomes :
        \/ t[1] \in DOMAIN s.welcome_cursors /\ s.welcome_cursors[t[1]] >= t[2]
        \/ s.welcomes[t[2]].sequence <= cutoff}

(***************************************************************************)
(* validate_memory: what the store must satisfy to be opened.              *)
(***************************************************************************)
LogContiguous(s) ==
    /\ s.room.oldest_available_sequence \in 1..(s.room.head_sequence + 1)
    /\ DOMAIN s.events = s.room.oldest_available_sequence..s.room.head_sequence
    /\ \A q \in DOMAIN s.events : s.events[q].sequence = q

IndexesExact(s) ==
    /\ DOMAIN s.event_ids = IdsOf(s, DOMAIN s.events)
    /\ DOMAIN s.commit_epochs = EpochsOf(s, DOMAIN s.events)
    /\ \A q \in DOMAIN s.events :
         IF IsApplication(s.events[q]) THEN s.event_ids[s.events[q].event_id] = q
                                       ELSE s.commit_epochs[s.events[q].parent_epoch] = q

\* Each event starts at the epoch the one before it leads to, and the last one
\* leads to the room's epoch.  (Not part of validate_memory.)
StartEpoch(e) == IF IsCommit(e) THEN e.parent_epoch ELSE e.epoch

EpochsChained(s) ==
    /\ \A q \in DOMAIN s.events :
         q + 1 \in DOMAIN s.events => StartEpoch(s.events[q + 1]) = s.events[q].epoch
    /\ \A q \in DOMAIN s.events :
         /\ q = s.room.head_sequence => s.events[q].epoch = s.room.epoch
         /\ IsCommit(s.events[q]) => s.events[q].epoch = s.events[q].parent_epoch + 1

CursorConsistent(c, head) ==
    /\ 1 <= c.starting_sequence
    /\ c.starting_sequence <= c.highest_contiguous_sequence
    /\ c.highest_contiguous_sequence <= head
    /\ \/ c.rejoin_required_through = 0
       \/ c.rejoin_required_through \in c.highest_contiguous_sequence..head

RequiredHaveCursors(s) == s.room.required_devices \subseteq DOMAIN s.device_cursors

CursorsRequired(s) == DOMAIN s.device_cursors \subseteq s.room.required_devices

CursorsConsistent(s) ==
    \A d \in DOMAIN s.device_cursors :
        CursorConsistent(s.device_cursors[d], s.room.head_sequence)

WelcomesStored(s) ==
    /\ \A i \in DOMAIN s.welcomes :
         LET w == s.welcomes[i]
         IN  /\ i \in 1..(s.global.next_welcome_delivery_id - 1)
             /\ w.sequence \in 1..s.room.head_sequence
             /\ w.device_ids # {}
             /\ w.sequence >= s.room.oldest_available_sequence =>
                    w.sequence \in DOMAIN s.events /\ IsCommit(s.events[w.sequence])
    /\ \A t \in s.device_welcomes :
         t[2] \in DOMAIN s.welcomes /\ t[1] \in s.welcomes[t[2]].device_ids
    /\ DOMAIN s.welcome_target_counts = DOMAIN s.welcomes
    /\ \A i \in DOMAIN s.welcomes :
         /\ s.welcome_target_counts[i] > 0
         /\ s.welcome_target_counts[i] = Cardinality({t \in s.device_welcomes : t[2] = i})

WelcomeIdValid(i, s) == i \in 1..(s.global.next_welcome_delivery_id - 1)

WelcomesConsistent(s) ==
    /\ WelcomesStored(s)
    /\ \A d \in DOMAIN s.welcome_cursors : WelcomeIdValid(s.welcome_cursors[d], s)

validate_memory(s) ==
    LogContiguous(s) /\ RequiredHaveCursors(s) /\ IndexesExact(s)
      /\ CursorsRequired(s) /\ CursorsConsistent(s) /\ WelcomesConsistent(s)
=============================================================================
