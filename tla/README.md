# Verification of chatt

chatt is a group-chat program with voice and video: a server
(`crates/server`), a terminal and web client (`src/`), and the crates they
share. Message content is end-to-end encrypted with MLS (RFC 9420): the server
stores ciphertexts and hands them out in one order per room, and the clients
hold the groups. Rooms that are not encrypted keep their history on the server.
This directory specifies the server's MLS delivery service, one client's MLS
session with it, the server's room history with the message ids, and the queues
by which the server's threads talk to the event loop. It shows which of their
promises they keep under the interleavings of the threads, lost connections and
crashes.

## The system and its parts

| Part | Source | Module |
|---|---|---|
| Delivery state, deltas, planners, validation | `crates/server/src/mls_store.rs` | `MlsStore` |
| Decisions on requests | `crates/server/src/mls_service.rs`, `crates/mls/src/policy.rs`, `crates/mls/src/server.rs` | `MlsService` |
| Durability worker and network loop | `crates/server/src/lib.rs` (`MlsWorker`, `handle_mls_control`) | `MlsDelivery` |
| Write-ahead log, checkpoint, snapshot thread, compaction, recovery | `crates/server/src/mls_store.rs` (`Persistence`, `SnapshotWriter`, `MlsStore::open`) | `MlsDurability` |
| Room history, message ids, log writer, state writer, history reader | `crates/server/src/room_store.rs`, `room_state.rs`, `history_reader.rs`, `lib.rs` (`send_chat`, `fetch_history`, ...) | `RoomStore` |
| Queues between worker threads and the event loop | `crates/server/src/event_queue.rs`, `mls_delivery.rs`, `lib.rs` (`Server::run`) | `EventQueue` |
| What message ids promise, without logs and writers | `crates/server/src/room_store.rs`, `room_state.rs` | `MessageIds` |
| MLS client: group, outbox, delivery cursor on disk | `crates/mls/src/persistent.rs` | `MlsClient` |
| MLS client: session actor, composed with the delivery service | `src/client_net/mls_actor.rs`, `crates/server/src/lib.rs` | `MlsSession` |
| Key packages, device links | `mls_service.rs`, `mls_store.rs` | not modelled |
| Sessions, direct-message rooms, users and names | `crates/server/src/lib.rs`, `room_store.rs`, `user_store.rs`, `username_registry.rs`, `identity_writer.rs` | not modelled |
| Voice relay, peer-to-peer agent | `crates/server/src/voice_relay.rs`, `crates/p2p` | not modelled |
| Client network thread, room history, received files, device pairing | `src/client_net.rs`, `room_history.rs`, `receive_store.rs`, `device_link.rs` | not modelled |
| Loss adaptation, audio, video | `src/client_net/`, `src/audio`, `src/video` | not modelled |
| Transport, encryption, byte formats | `crates/rpc`, `crates/local-rpc`, `crates/message-format` | not modelled: data formats |
| User interface, settings, web front end, tools | `src/app`, `src/tui`, `src/ui`, `web/`, `crates/darkhttp` | not modelled |
| Vendored libraries | `crates/mls-rs*`, `cpal`, `sonora`, `opus-codec`, `nnnoiseless`, ... | not modelled: third party |

`PROJECT.json` lists every part with what is modelled of it or the reason it is
not, and the hazards found while reading the modelled parts.

### How they interact

A client submits a commit or an application event. The network loop puts the
request into the worker's queue. The worker checks it against the room
(`MlsService`), computes a `StateDelta` (`MlsStore`), appends and syncs it to
the write-ahead log, applies it to the shared `MemoryState`, and answers.
Clients fetch the log of a room and acknowledge what they processed; the
network loop applies acknowledgements to the shared state **itself**, without
the worker and without the log, and asks the worker to log them later. A
periodic cleanup deletes events every required device has acknowledged or that
outlived the retention period; a required device that had not read an expired
event is marked and must rejoin the group with an external commit. When the log
is long the worker renames it (the sealed log) and starts a new one; a snapshot
thread writes a checkpoint of the state and removes the sealed log. Compaction,
which runs when no client is connected, does the same in the worker.

A client keeps, per room, its MLS group, a delivery cursor, an outbox and the
messages its user interface has not acknowledged. It processes the room's
events strictly in order, opens or applies each with the group, and moves the
cursor; its own messages are encrypted, submitted, and settled by the reply or
by the event that comes back, whichever is first. A commit of another device
makes ciphertexts stale: the client catches up and encrypts again. When a
peer's device is revoked the client submits a commit that removes its leaf.
When events it has not read have expired it fetches the public group state and
rejoins by an external commit. A connection loses whatever is in flight,
except a submission that the server's worker already has, which it executes
although nobody waits for the answer; the next session starts from the files.

A plain message gets the room's next id, enters the window of resident messages
and the log writer's queue, and is broadcast at once. The log writer appends
it, renames the log to a segment when it is long, and reports every write; only
from these reports does the event loop know what is on disk, and when no write
is pending it trims the window. A block of ids is reserved ahead of use by
a watermark that the state writer puts into the database in the background.
A client pages backwards from an id: the page comes from the window, or from
the disk through the history reader, or starts in the window and continues on
disk when the window was trimmed while its chunks were being sent. All these
threads push their results into event queues, set the queue's bit in one ready
word, and wake the loop only when the word was empty.

## Modules

**`MlsStore`** has no variables. It defines the records, `apply_delta`, the
planners (`plan_commit`, `append_application`, `acknowledge`,
`plan_prune_room`, ...) and the conjuncts of `validate_memory`, one operator
per function of the source and mostly under its name. Abstractions:

* one room: the store's rooms share nothing but the roster and the Welcome ids;
* a device stands for its MLS client id and its device id;
* a commit is its committer, the leaves it results in and whether it is
  external; a ciphertext is a model value;
* the clock and the retention period become `cutoff`, the last sequence stored
  before the retention window. Stored times never decrease along a log (the
  store clamps them), so every outcome of the comparison is some `cutoff`;
* maps are functions with a changing domain; a delta's `Option`s and
  one-element lists are sets with at most one element.

**`MlsService`** adds the decisions: `CreateRoomAccepted`, `MlsCommitOutcome`,
`MlsSubmitOutcome` (checks in the code's order), `put_roster`, `CleanupDelta`.
The MLS library is external: `apply_commit` and `filter_proposals` state what
the repository's own policy accepts. The ends of the `u64` sequence and
revision spaces are the constants `MaxSequence` and `MaxRevision`.

**`MlsDelivery`** is the state machine of the two threads. The worker's step
is split where the code releases the state's read lock: a request is planned
from the state (`SubmitCommit`, `SubmitApplication`, `PutRoster`, `Cleanup`,
`PersistAcknowledgement`, ...) and published later (`WorkerPublish`) or given
up when the append fails (`WorkerFail`). The network loop's acknowledgements
are split in the same way (`Acknowledge`, `LoopPublish`). Requests that are
refused change nothing and are not steps. `seen` (what a device reported or
started after) and `expired` (what retention expired) are history.

**`MlsDurability`** replaces the threads by the log: appending and publishing
are separate steps, sync is part of publishing, and `checkpoint_if_needed`,
which ends every request, is part of the action of the request. An
acknowledgement is planned and committed in two steps, as in `MlsDelivery`. The
snapshot thread is three steps (clone, rename the checkpoint, remove the sealed
log) and so is compaction. A log is its records, how many of them are synced,
and whether its header is there; `wal_bytes` is the accounting that a failed
append rolls back to, which can differ from the log itself. A power loss keeps
the synced records of each log and any prefix of the others; the death of the
process keeps all of them. The constant `Faults` says what can fail: the power,
the process, and the I/O of `append` (rolled back, or not, which poisons the
log), `seal` (renamed back, or not), `write_checkpoint` and the snapshot thread,
and `reset_wal` at each of its steps. `promised`, `limbo` and `unreset` are
history: the durable state that replies were sent for, the deltas appended
since, and whether a reset failed and none has succeeded after it.
Simplification: a file that is renamed, created or removed is so at once, and a
directory that cannot be synced counts only for the error it returns.

**`RoomStore`** is one durable room. A message is its id and a log is the
sequence of its ids, followed by a torn record or not. Files are numbered like
inodes, so a handle stays with its file when the file is renamed. `mirror` is
the loop's `Retention::Durable`, `worker` the log writer's own state: the code
keeps the same facts twice, and the module's subject is how they drift apart.
The actions are `SendChat` (with `SendDeferred` and `SendUnlogged` for a full
queue and a disabled log), the log writer's three steps between which a crash
can fall, the state writer's three, `drain_log_events`, `fetch_history`,
`process_history_deliveries`, the history reader's `execute`, and `Kill`,
`Shutdown` and `open_durable`. The constant `Faults` says what can fail.
`accepted`, `lost` and `published` are history. Simplifications: one fetch is
outstanding at a time; the limits on fetches refuse one at random; a session does
not disconnect during a fetch; rooms kept in memory only, edits, creation of
direct-message rooms, an unreadable log at start and power loss (for which the
code promises nothing) are left out.

**`EventQueue`** splits `push`, `signal` and `drain_up_to` into their atomic
steps: insert, set the bit, wake; clear the word, drain a batch, set the bit
again if events are left. `WakeMayFail` lets `Waker::wake` return an error,
which the code logs and ignores.

**`MessageIds`** is the abstract specification of message ids: an id is taken,
a watermark is raised, a restart counts on at or above the watermark.
`RoomStore` implements it (`ImplementsMessageIds`) with the mapping of equal
names: `next_id`, `durable` and `published`.

**`MlsClient`** has no variables. It is `PersistentClient`: each operation
takes the client's store and returns the sequence of stores its database
transactions produce, because the group and the application records are
written by separate transactions. `process_delivery` has the code's cases in
order, with its recovery (`Recover`) of an event processed before a crash that
hid the cursor. A ciphertext is its sender, epoch, ratchet generation and event
id. `CommitApplies` and `Opens` say what the MLS group accepts.

**`MlsSession`** composes `MlsClient` with `MlsService` over one connection,
two queues of requests and controls. A handler of the actor is an operator on a
record with the stores written, the session, the requests queued and the
sequences handed to the user interface; a step runs one handler to its end,
and `Crash` leaves any store that the next handler would have written on
the way. `Serve` answers the oldest request with the service's decision; a reply
precedes the push of the event it announces. `Drop` loses what is in flight and
`NoSession` is `reset_session_state`. The server reads no further request of a
connection while one is with the worker (`pending_mls`), and drops the frames it
has read when the connection ends, so at most one submission of a lost
connection is executed later: it waits in `orphans`, the submissions of the next
session queue behind it, and `ServeOrphan` stores it. Its reply cannot be
queued, and that error skips the push to every connection. A peer can lose its
connection in the same way (`Push`). The other devices and the cleanup are the
environment; the cleanup runs on the worker too, and `CleanupQueued` lets one
that was queued first run before an orphan. Simplifications: one room, which
exists and of which the device is a member; each request is one step of the
service (its threads are `MlsDelivery`'s subject); the server notices the end of
a connection before it reads from the next one; the server does not restart; the
other devices acknowledge together and a revoked device stays revoked.

The modules whose names start with `MC` give the constants values.

## Runs

| Run | Properties | Shows |
|---|---|---|
| `delivery_threads` | `TypeOK`, `StoredLogValid`, `EpochChain`, `CursorsValid`, `WelcomesValid`, `NothingUnseenDeleted`, `NoApplicationToRevokedLeaf`, `LogAppendOnly`, `Inv` | the log, its indexes and epochs, the cursors and the Welcomes are right under every interleaving; cleanup deletes an unseen event only when retention expired it; the inductive invariant of the proofs holds |
| `recovery_power` | `TypeOK`, `StoreReopens`, `RecoveredCursorsBehind`, `NothingUnseenDeleted`, `RepliesSurvive` | after a power loss at any step the store opens, with everything that was answered for |
| `recovery_faults` | `ReopensUnlessUnreset`, `RepliesSurvive` | process death and failing I/O in append, rotation, checkpoint and log reset: only a failed reset can leave a log that is refused at the next start, and a store that opens holds everything that was answered for |
| `room_paging` | `NothingStranded`, `PagesContiguous`, `StartTruthful`, `FetchesEnd` | no written message drops out of sight; pages have no holes, claim the start of history truthfully and are always ended by a terminal chunk |
| `room_faults` | `TypeOK`, `PagesContiguous`, `StartTruthful` | the same for what survives when files cannot be opened, renamed or written |
| `room_restart` | `LogAscending`, `ReservedIdsFresh`, `ImplementsMessageIds`, `ShutdownKeepsMessages` | ids over kills, database failures and restarts; the refinement of `MessageIds` |
| `event_queue` | `Inv`, `NoLostWakeup`, `EventsDrained` | no wakeup is lost, every event is drained |
| `session_crash` | `TypeOK`, `ServerNeverAhead`, `NeverFatal`, `NothingLost` | a drop, or a crash between any two transactions, makes no operation fail and loses no message; the server never counts an event as read that the client's files lack |
| `session_progress` | `GenerationOnce`, `ExactlyOnce`, `EveryMessageShown` | over a peer's commit and a drop or crash no message key is used twice, and every message the user sends is stored once and eventually shown |
| `session_rejoin` | `NeverFatal`, `ExactlyOnce`, `ShownUnlessRejoinLost` | when unread events expire, on a connection that holds: nothing fails, no message is stored twice, and the client rejoins and shows its message unless a rejoin loses the race for its epoch |
| `recovery_reused_id` | `StoreReopens` (violated) | finding 1 |
| `session_lost_outcome` | `PreOutcomeGroupSpared` (violated) | finding 2 |

### Bounds

Two accounts with three devices (two in `recovery_power` and
`recovery_reused_id`): one account must have two devices, so that one can be
removed from the roster while the account stays in the room. `MaxSequence` is
the exclusive end of the sequences: 3 in the delivery run allows the creation of
the room and one further event, which is enough to delete an event, mark a
device and append behind it; 4 in the recovery runs allows two. `MaxRevision` 1
allows one roster change. `BatchLimit` 1 makes cleanup stop in the middle. The
recovery runs bound the appended records (`MaxAppends` 2 or 3): one in the
sealed log, one in the active log, and one in flight. `Online` and `Inbox` say
which devices send requests, to keep the number of states small; the others are
still added, removed and pruned for. In the recovery runs one device is online
and no device that acknowledges is removed, which leaves out the race described
under `CursorsOnlyRequired` below: what they show of `StoreReopens` and
`ReopensUnlessUnreset` holds under that condition.
`CHECK_DEADLOCK FALSE` is set in the delivery run, where the bounded sequence
space is really exhausted, in `recovery_faults`, where a store that does not
open stops, and in the session runs, which end when all messages are shown;
`recovery_power` checks for deadlock, so that worker, snapshot thread and
compaction never wait for each other for ever.

The room runs use three or four messages, a log of at most two records, a
window of one or two and pages of one or two: enough for two segments and an
active log, a page that crosses from the window to the disk, and a window
trimmed in the middle of a page. Reservations are blocks of two ids, so that
they are renewed several times. The log writer's queue holds one or two
requests, so that it is full. The event-queue runs have three threads on two
queues and batches of one, so that drains stop early and two threads share a
queue. These runs check for deadlock.

The session runs have one client and one or two devices of a peer, one or two
messages of the client and at most one of the peer, batches of two events, and
at most one commit of a peer, one expiry and one drop or crash. They pair the
things that can go wrong: revocation with failures (`session_crash`, safety
only), stale epochs with failures (`session_progress`), expiry with stale epochs
(`session_rejoin`). What they show holds for these pairs. Expiry with failures,
revocation with expiry, and liveness under revocation with failures or after a
rejoin that lost a race do break the client: finding 2 and the observations on
the session. `MaxSequence` is
never reached in these runs and `CleanupQueued` is `FALSE`. In `session_rejoin` the peer's message is one the client
refuses, because a message that expired unread is rightly never shown.

### Fairness

The delivery and recovery modules have safety properties only and assume no
fairness. `MlsSession!FairSpec` is weakly fair to the client's loop (`Bind`,
which reconnects, and `Handle`), the server's loop (`Serve`), its worker
(`ServeOrphan`) and the user interface (`AcknowledgeUiDispatch`): each does nothing but serve its queue and
none waits for another for ever: a submission waits for the worker, which is
fair itself. The enabling conditions are written out. Users, peers,
cleanup, drops and crashes are not fair.
`RoomStore!FairSpec` is weakly fair to `execute`, a thread that does nothing
but serve its queue, and to `process_history_deliveries`, which every pass of
the loop runs; clients, writers and crashes are not fair.
`EventQueue!FairSpec` is weakly fair to the loop, once woken, and to a
thread's `Signal` and `Wake`, which follow its push without blocking; pushing
is not fair.

## Findings

1. **A reused event id** (`StoreReopens` with `ReuseIds`). Once an event was
   pruned, its id can be stored again. If the power then fails between the
   checkpoint's rename and the removal of the sealed log, the replay drops the
   index entry of the newer event and the store does not open. `recovery_power`
   and `recovery_faults` exclude the reuse of ids (`ReuseIds = FALSE`): what
   they show of `StoreReopens` and `ReopensUnlessUnreset` holds under that
   condition. How a client that is only doing its part comes to reuse an id is
   the observation on `CleanupQueued` below.
2. **A rejoin whose outcome is lost** (`PreOutcomeGroupSpared`). The actor
   defers events while a commit's outcome is outstanding, since "Applying a
   winning commit to the pre-outcome group can remove this client even when its
   external replacement was the winner". What it tests, `pending_mls_commits`,
   is cleared with the session, and the rejoin's group is in memory only. The
   client has processed the events that expire, but its acknowledgement has not
   reached the server, so the server asks it to rejoin. It submits the rejoin,
   the connection is lost, and the server accepts it, before or after the loss.
   The client's own cursor is past everything that expired
   (`cursor + 1 >= oldest`), so the next session starts no other rejoin: it
   processes the client's own external commit with the old group.
   `process_delivery` refuses it and the session ends with a fatal error
   (`NeverFatal` is violated under the same configuration), and so does every
   session after it until that commit expires. When events the
   client has not read are gone it starts another rejoin instead
   (`mls_actor.rs:1062`).

### Further observations

TLC finds these properties violated too. They state what a comment, a check or
a test of the code says, and have no run of their own. Each is reproduced by
putting the property into the configuration named, with the constants changed
as said.

Delivery and recovery:

* `CursorsOnlyRequired` (`MCMlsDelivery.cfg`). `MlsStore::acknowledge` reads a
  cursor, releases the lock and commits the cursor later. If the worker
  publishes a removal of the device in between, the cursor is put back, which
  `validate_memory` rejects ("persisted MLS cursor references a non-required
  device"): a store checkpointed like that does not open, and adding the device
  again fails. `CursorsValid` is the part that does hold. The store that does
  not open is `StoreReopens` under `MCMlsDurability_faults.cfg` with
  `Faults = {"power"}` and `Online = {a1, b1}`.
* `LaggingDevicesMarked` (`MCMlsDelivery.cfg` with `Online = {a2}`,
  `Inbox = {}`, `MaxSequence = 4`). The same race with cleanup erases the rejoin
  mark of a device whose next event was deleted.
* `PublishedSurvives` (`MCMlsDurability.cfg` with
  `Faults = {"power", "process"}`). `open` replays and publishes records a killed
  process had written and not synced, without syncing them; a later power loss
  takes them back.
* `StoreReopens` (`MCMlsDurability.cfg` with `Faults = {"power", "process"}` and
  `MaxAppends = 2`). The unsynced records of a killed process are sealed by the
  next rotation, still without a sync, and durable records follow in the new
  log; a power loss then cuts the sealed log short and the store does not open.
  `recovery_power` and `recovery_faults` show what holds for each kind of failure
  alone.
* `StoreReopens` (`MCMlsDurability_faults.cfg`). `reset_wal` fails after it has
  truncated the log: the header is not written, or the accounting still has the
  old length. Nothing is poisoned, so the next record is appended to a file
  without a header, or a failed append is "rolled back" by lengthening the file
  with zeros; the next start refuses the log. `ReopensUnlessUnreset` is the part
  that does hold.

Room history and queues:

* `IdsNeverReused` (`MCRoomStore_restart.cfg`). An id above the durable
  watermark is broadcast while both its reservation and its record are only
  queued; a process killed then gives the id to another message.
  `ReservedIdsFresh` is the part that does hold.
* `KillKeepsMessages` (`MCRoomStore_restart.cfg`). Records in the log writer's
  queue die with the process. `ShutdownKeepsMessages` is what does hold.
* `DisabledForever` (`MCRoomStore_faults.cfg` with `MaxMessages = 4`,
  `MaxId = 5`, `PageLimit = 1`). After a failed rename and then a failed write,
  the next append rotates the torn log away on the event loop and takes the room
  for open, while the log writer stays disabled.
* `TrimmedAreDurable` (`MCRoomStore_faults.cfg`, as an invariant). A failed open
  after a rotation loses the record, and the window is trimmed all the same.
* `WakerOnlyShortens` (`MCEventQueue.cfg` with `WakeMayFail = TRUE`). After a
  failed wake the ready word stays set, so no later signal wakes the loop, and
  the loop takes the word only on a wake.

Client session:

* `EveryMessageShown` (`MCMlsSession_progress.cfg` with `Devices <- DevicesAll`,
  `MaxRevision = 1`, `MaxPeerCommits = 0` and one message). The client stores a
  pending member update and the connection is lost before the server has it.
  Nothing submits or rejects it afterwards, and the outbox waits for it as long
  as no other device commits.
* `EveryMessageShown` (`MCMlsSession_rejoin.cfg`). A peer's commit takes the epoch
  of a rejoin. The client drops the rejoin and asks for the GroupInfo again, but
  the mark that made it rejoin (`mls_history_expired`) went with the first
  attempt, so the answer is ignored; and the events deferred behind the rejoin
  are not fetched again, although the comment on the deferral says "The outcome
  path advances or refetches from the authoritative cursor". The outbox waits
  until another event, message or connection makes the client notice.
* `StaleProvesNotStored`, and `ExactlyOnce` with `MaxPeerCommits = 0`
  (`MCMlsSession_outcome.cfg`). A message is stored, its reply is lost, its event
  expires and with it the index of its id; after a rejoin the resubmission is
  answered `StaleEpochNotStored`, and the message is encrypted again and stored
  twice.
* `NeverFatal` (`MCMlsSession_outcome.cfg` with `Devices <- DevicesAll`,
  `MaxRevision = 1`, `MaxFailures = 0`). A member update prepared between a
  `FetchGroupInfo` and its reply is replaced in `pending_mls_commits` by the
  rejoin; the update's outcome is then taken for the rejoin's.
* `ExactlyOnce` (`MCMlsSession_progress.cfg` with `CleanupQueued = TRUE`). A
  resubmission is with the worker when its connection is lost. The next session
  reads and acknowledges the event of the first submission, and a cleanup that
  was queued ahead of the resubmission prunes the event and its id: the message
  is stored a second time.
* `PeerMessagesShown` (`MCMlsSession_progress.cfg` with `EventIds = {m1, p1}`,
  `MyEvents = {m1}`, `PeerEvents = {p1}`, `MaxPeerCommits = 0`). A peer's message
  is stored while the peer's connection is lost. The reply cannot be queued and
  the push is skipped with it; the peer's resubmission is answered
  `AlreadyStored`, which pushes nothing. The other devices see the message with
  the next event or connection.

## Proofs

`MlsDeliveryProofs` proves, for any devices, accounts, ids, sequence space and
batch size, from the named assumptions of the modules only:

| Theorem | States |
|---|---|
| `DeliveryInvariant` | `Spec => []Inv` |
| `DeliveryTypes`, `StoredLogCorrect`, `EpochChainCorrect`, `CursorsCorrect`, `RetentionCorrect`, `WelcomesCorrect` | the six other invariants of `delivery_threads` |
| `AppendOnlyCorrect`, `RevocationCorrect` | the two action properties |

None of the invariants is inductive alone, because a thread publishes a delta
it planned on an older state. `Inv` therefore says, besides that the shared
state is `Sound`, that each planned delta is still right for the state it will
meet. For the worker (`WorkerReady`): applying its delta to the *present* state
gives a valid state and a permitted step of the log. For the network loop
(`LoopReady`): its delta only holds cursors, which are consistent with the
present head and not ahead of what the device has seen. The argument is then:

1. each planner establishes readiness (`CommitReady`, `ApplicationReady`,
   `RosterReady` in `MlsPlanProofs`; `PersistReady`, `CleanupReady`,
   `AcknowledgeReady`, ... in `MlsPublishProofs`);
2. publishing a ready delta keeps the state sound (`PublishSound`,
   `LoopPublishSound`);
3. what one thread publishes leaves the other's delta ready: the loop writes
   only cursors, which the worker's readiness does not depend on except through
   `CursorsReady` (`WorkerReadySame`), and the worker only moves head, epoch
   and Welcome ids forward (`LoopReadyGrows`).

`MlsStoreProofs` holds the lemmas about maps, `apply_delta` and the Welcome
counts; `MlsLogProofs` those about the log (appending and pruning keep it
gapless, indexed and chained). `Inv` is also checked by TLC.

`EventQueueProofs` proves, for any threads, queues and batch size and under the
assumption that waking does not fail:

| Theorem | States |
|---|---|
| `HandOffInvariant` | `Spec => []Inv` |
| `NoWakeupLost` | `Spec => []NoLostWakeup` |

`NoLostWakeup` is not inductive: that a waiting event has a wake on its way
depends on who is between which steps. `Inv` adds that a waiting event is
announced by its bit, by a thread that is about to set it or by the loop that has
still to drain its queue (`EventsAnnounced`), and that a non-empty ready word
has its wake pending, coming, or being served (`ReadyMeansWoken`).

`MessageIds` and `RoomIdsProofs` prove, for any block size, log size, window,
queue and set of faults:

| Theorem | States |
|---|---|
| `MessageIds!IdsFresh` | `Spec => []ReservedIdsFresh`, of the abstract specification |
| `RoomImplementsIds` | `RoomStore!Spec` implements `MessageIds!Spec` |
| `RoomReservedIdsFresh` | therefore `[]ReservedIdsFresh` of the room |

`ReservedIdsFresh` is inductive only with the fact that a reserved id lies below
both the counter and the watermark, so that a restart counts on above it
(`IInv`). The refinement is step by step: sending takes an id, the state writer
reserves, `open_durable` restarts, everything else leaves the three variables
alone. The two room theorems have the premise `[](LastLogged \in Nat)`: the last
id read back from the log is a number. It is a consequence of
`RoomStore!TypeOK`, which `room_faults` checks; proving it needs induction over
the concatenated segments.

Only model-checked: the rest of `RoomStore` (whose safety argument needs facts
about sequences of ids on disk), `MlsSession` (its handlers fold over batches
and the outbox), liveness, everything about crashes of the store
(`MlsDurability`, whose recovery folds `apply_delta` over the log: what the fold
computes needs induction over the log, which is out of the prover's reach) and
the absence of deadlock.

## Not modelled

Of the modelled parts:

* delivery service: key packages, device links and payload accounting; the byte
  format of the logs;
* client: creating and joining a room, Welcomes, commits that add devices,
  changes of the own account's roster, file uploads, history sharing,
  `MissingKeyPackage` and `TemporarilyBlocked` (with its delayed retry), the
  record kept beside a pending commit; more than one modelled client (the
  others are the environment); a restart of the server during a session;
* room history: rooms kept in memory only, edits, direct-message rooms, an
  unreadable log at start, power loss.

The rest of the program: most of its lines are vendored libraries (MLS, audio
and video codecs, signal processing), user interface, media pipelines, byte
formats and system calls, where there is data to transform rather than state
to interleave. What has such state and remains to be modelled are the
key-package pool, the registries of users, names and direct-message rooms, the
voice relay's routes, the peer-to-peer agent, and the client's received files
and room buffers. `PROJECT.json` says for each part why it is left out.
