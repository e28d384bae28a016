--------------------------- MODULE MlsDurability ---------------------------
(***************************************************************************)
(* Crash recovery of the MLS delivery store: the write-ahead log, the      *)
(* sealed log, the checkpoint, the snapshot thread and compaction          *)
(* (Persistence, SnapshotWriter, MlsStore::open and ::compact in           *)
(* crates/server/src/mls_store.rs).                                        *)
(*                                                                         *)
(* The worker appends a delta and then publishes it.  Acknowledgements of  *)
(* the network loop are planned on the state they read and reach memory in *)
(* a later step; the log gets them from the worker, unsynced.  A power     *)
(* loss keeps the synced prefix of each log and any part of the rest; when *)
(* only the process dies, the logs keep every record, synced or not.  A    *)
(* file that is renamed, created or removed counts as such at once: that a *)
(* directory could not be synced matters only for the error it returns.    *)
(***************************************************************************)
EXTENDS MlsService, SequencesExt, FiniteSetsExt

CONSTANTS Online,    \* the devices that send requests
          Founders,  \* the members the room is created with
          Faults,    \* what can go wrong: the power, the process, and the I/O of
                     \* append ("write"), seal ("rotate"), write_checkpoint and
                     \* the removal of the sealed log ("checkpoint"), reset_wal
                     \* ("reset")
          MaxAppends,  \* bound on the records appended in a behaviour
          ReuseIds   \* whether an event id may be submitted again after its
                     \* event was pruned (a client that never learnt the outcome)

ASSUME FoundersAssumption == Founders \subseteq Devices /\ Online \subseteq Devices
ASSUME FaultsAssumption ==
    /\ Faults \subseteq {"power", "process", "write", "rotate", "checkpoint", "reset"}
    /\ ReuseIds \in BOOLEAN
ASSUME MaxAppendsAssumption == MaxAppends \in Nat

VARIABLES phase,       \* "up", "down" or "failed" (the store did not open)
          mem,         \* MemoryState; while down, what it was at the crash
          worker,      \* [at, delta, durable]: what the worker is doing
          checkpoint,  \* the state in mls-state.bin
          wal,         \* mls-state.wal, a Log
          wal_bytes,   \* Persistence::wal_bytes, in records after the header
          sealed,      \* mls-state.wal.sealed: <<log>>, or <<>> if there is none
          poisoned,    \* Persistence::poisoned
          requested,   \* a command waits in the snapshot writer's channel
          snapshot,    \* [at, state]: what the snapshot thread is doing
          acking,      \* the acknowledgement the network loop has planned
          pending_acks,
          appends,     \* records appended so far
          seen, expired, stored_ids,  \* history, as in MlsDelivery
          promised,    \* history: the durable state that replies were sent for
          limbo,       \* history: the deltas appended since, without a reply
          unreset      \* history: reset_wal failed and has not succeeded since

log == <<appends, wal, wal_bytes, sealed>>
replies == <<promised, limbo>>
history == <<seen, expired, stored_ids, replies, unreset>>
snapshotter == <<requested, snapshot>>
acks == <<acking, pending_acks>>
vars == <<phase, mem, worker, checkpoint, log, poisoned, snapshotter, acks, history>>

Idle == [at |-> "idle", delta |-> StateDelta, durable |-> FALSE]

NoSnapshot == [at |-> "idle", state |-> MemoryState({})]

(***************************************************************************)
(* A log file: its records, how many of them are known to be on disk, and  *)
(* its form.  "log": the header comes first.  "headless": the header is    *)
(* not there, or not all of it (nor is the file, perhaps).  "garbled":     *)
(* there are bytes in it that are neither a header nor a record.           *)
(***************************************************************************)
NewLog == [form |-> "log", records |-> <<>>, synced |-> 0]

\* replay_wal takes a file shorter than a header for an empty log.
Replays(l) == l.form = "log" \/ (l.form = "headless" /\ l.records = <<>>)

Larger(m, n) == IF m > n THEN m ELSE n

\* A device that becomes required starts after the commit that added it.
SeenAt(s) ==
    [d \in Devices |-> IF d \in s.room.required_devices \ mem.room.required_devices
                       THEN Larger(seen[d], s.room.head_sequence) ELSE seen[d]]

\* A store with the room just created and checkpointed.
InitialMemory ==
    LET s == MemoryState(Devices)
        c == [committer |-> CHOOSE d \in Founders : TRUE, members |-> Founders,
              external |-> FALSE]
    IN  apply_delta(s, CommitDelta(s, {c.committer}, c))

\* The part of the state that a reply to a client promises: everything but the
\* advisory cursors.
Durable(s) == [s EXCEPT !.device_cursors = Empty, !.welcome_cursors = Empty]

Init ==
    /\ phase = "up"
    /\ mem = InitialMemory
    /\ checkpoint = InitialMemory
    /\ worker = Idle
    /\ wal = NewLog /\ wal_bytes = 0
    /\ sealed = <<>>
    /\ poisoned = FALSE
    /\ requested = FALSE
    /\ snapshot = NoSnapshot
    /\ acking = StateDelta
    /\ pending_acks = {}
    /\ appends = 0
    /\ seen = [d \in Devices |-> 1]
    /\ expired = 0
    /\ stored_ids = {}
    /\ promised = Durable(InitialMemory)
    /\ limbo = <<>>
    /\ unreset = FALSE

WorkerFree == phase = "up" /\ worker.at = "idle" /\ ~poisoned /\ appends < MaxAppends

\* Mutant: the accounting is not reset with the log.
SealKeepsBytes(l, n) ==
    /\ sealed' = <<l>>
    /\ wal' = NewLog /\ wal_bytes' = n
    /\ requested' = TRUE
    /\ UNCHANGED poisoned

(***************************************************************************)
(* seal: the log `l`, which the accounting puts at `n` records, becomes    *)
(* the sealed log and a new one is started; the directory is synced last,  *)
(* and the snapshot is requested if that succeeds.  If the new log cannot  *)
(* be made the old one is renamed back, which leaves everything as it was  *)
(* (checkpoint_if_needed has that alternative); if it cannot be renamed    *)
(* back either, the store is poisoned.                                     *)
(***************************************************************************)
seal(l, n) ==
    /\ sealed' = <<l>>
    /\ \/ /\ wal' = NewLog /\ wal_bytes' = 0
          /\ \/ requested' = TRUE
             \/ "rotate" \in Faults /\ UNCHANGED requested
          /\ UNCHANGED poisoned
       \/ /\ "rotate" \in Faults
          /\ wal' = [NewLog EXCEPT !.form = "headless"] /\ wal_bytes' = n
          /\ poisoned' = TRUE
          /\ UNCHANGED requested

\* checkpoint_if_needed runs after every request, which left the log `l` and
\* the accounting `n`.  The thresholds are on the bytes and the records of the
\* log: any log with a record may be due.
checkpoint_if_needed(l, n) ==
    \/ sealed = <<>> /\ n > 0 /\ ~poisoned /\ seal(l, n)
    \/ /\ wal' = l /\ wal_bytes' = n
       /\ requested' = (requested \/ sealed # <<>>)
       /\ UNCHANGED <<sealed, poisoned>>

(***************************************************************************)
(* append: the record is written; WorkerPublish syncs it, if it is durable,*)
(* and publishes it.  Or the write fails and so does rolling it back: the  *)
(* log is poisoned, and the record is in it or not.                        *)
(***************************************************************************)
\* Mutant: the durable record is not synced before it is published.
AppendUnsynced(d, durable) ==
    /\ wal' = [wal EXCEPT !.records = Append(@, d)]
    /\ wal_bytes' = wal_bytes + 1
    /\ worker' = [at |-> "appended", delta |-> d, durable |-> FALSE]
    /\ UNCHANGED <<poisoned, requested>>

append(d, durable) ==
    /\ wal' = [wal EXCEPT !.records = Append(@, d)]
    /\ wal_bytes' = wal_bytes + 1
    /\ worker' = [at |-> "appended", delta |-> d, durable |-> durable]
    /\ UNCHANGED <<poisoned, requested>>

\* Mutant: a record that could not be rolled back does not stop later ones.
AppendUnpoisoned(d) ==
    /\ "write" \in Faults
    /\ wal' \in {wal, [wal EXCEPT !.records = Append(@, d)]}
    /\ worker' = Idle
    /\ requested' = (requested \/ sealed # <<>>)
    /\ UNCHANGED <<wal_bytes, poisoned>>

AppendPoisons(d) ==
    /\ "write" \in Faults
    /\ wal' \in {wal, [wal EXCEPT !.records = Append(@, d)]}
    /\ poisoned' = TRUE
    /\ worker' = Idle
    /\ requested' = (requested \/ sealed # <<>>)
    /\ UNCHANGED wal_bytes

\* A failed append that can be rolled back: the file is cut to the length of
\* the accounting, which fills it with zeros where it was shorter.
RolledBack ==
    IF wal.form = "headless" \/ wal_bytes > Len(wal.records)
    THEN [wal EXCEPT !.form = "garbled"] ELSE wal

commit(d, durable) ==
    /\ append(d, durable) \/ AppendPoisons(d)
    /\ appends' = appends + 1
    /\ limbo' = IF durable THEN Append(limbo, d) ELSE limbo
    /\ UNCHANGED promised
    /\ UNCHANGED <<phase, mem, checkpoint, sealed, snapshot, acking, seen, unreset>>

\* A request that adds no record, because it is refused, the log is poisoned or
\* its write was rolled back, still ends with checkpoint_if_needed.
Refused ==
    /\ phase = "up" /\ worker.at = "idle"
    /\ \/ checkpoint_if_needed(wal, wal_bytes)
       \/ "write" \in Faults /\ ~poisoned /\ checkpoint_if_needed(RolledBack, wal_bytes)
    /\ UNCHANGED <<phase, mem, worker, checkpoint, appends, snapshot, acking, history>>

SubmitCommit(c) ==
    /\ WorkerFree
    /\ MlsCommitOutcome(mem, c, mem.room.epoch) = "Accepted"
    /\ commit(CommitDelta(mem, mem.room.members, c), TRUE)
    /\ UNCHANGED <<pending_acks, expired, stored_ids>>

SubmitApplication(d, id, ct) ==
    /\ WorkerFree
    /\ ReuseIds \/ id \notin stored_ids
    /\ MlsSubmitOutcome(mem, d, id, mem.room.epoch, ct) = "Stored"
    /\ commit(append_application(mem, id, mem.room.epoch, ct), TRUE)
    /\ stored_ids' = stored_ids \cup {id}
    /\ UNCHANGED <<pending_acks, expired>>

PutRoster(active) ==
    /\ WorkerFree
    /\ PutRosterValid(mem, active)
    /\ commit(put_roster(mem, active), TRUE)
    /\ UNCHANGED <<pending_acks, expired, stored_ids>>

Cleanup(cutoff, targets) ==
    /\ WorkerFree
    /\ WelcomeBatch(mem, cutoff, targets)
    /\ ~is_empty(CleanupDelta(mem, cutoff, targets))
    /\ commit(CleanupDelta(mem, cutoff, targets), TRUE)
    /\ expired' = Larger(expired, ExpiredNow(mem, cutoff))
    /\ UNCHANGED <<pending_acks, stored_ids>>

\* The acknowledgement stops being pending before it is known to be logged.
PersistAcknowledgement(d) ==
    /\ d \in pending_acks
    /\ pending_acks' = pending_acks \ {d}
    /\ \/ /\ WorkerFree
          /\ d \in DOMAIN mem.device_cursors
          /\ commit(persist_acknowledgement(mem, d), FALSE)
          /\ UNCHANGED <<expired, stored_ids>>
       \/ /\ d \notin DOMAIN mem.device_cursors \/ poisoned \/ "write" \in Faults
          /\ Refused

RejectRequest ==
    /\ Refused
    /\ UNCHANGED pending_acks

WorkerPublish ==
    /\ phase = "up" /\ worker.at = "appended"
    /\ mem' = apply_delta(mem, worker.delta)
    /\ worker' = Idle
    /\ seen' = SeenAt(mem')
    /\ promised' = Durable(mem')
    /\ limbo' = <<>>
    /\ LET l == IF worker.durable THEN [wal EXCEPT !.synced = Len(wal.records)] ELSE wal
       IN  checkpoint_if_needed(l, wal_bytes)
    /\ UNCHANGED <<phase, checkpoint, appends, snapshot, acks, expired, stored_ids, unreset>>

\* acknowledge plans under the read lock and commits under the write lock;
\* compaction holds the write lock.
Acknowledge(d, sequence) ==
    /\ phase = "up" /\ worker.at # "compacting" /\ acking = StateDelta
    /\ AckAdvances(mem, d, sequence)
    /\ acking' = acknowledge(mem, d, sequence)
    /\ seen' = [seen EXCEPT ![d] = Larger(@, sequence)]
    /\ UNCHANGED <<phase, mem, worker, checkpoint, log, poisoned, snapshotter, pending_acks,
                   expired, stored_ids, replies, unreset>>

AcknowledgeCommit ==
    /\ phase = "up" /\ worker.at # "compacting" /\ acking # StateDelta
    /\ mem' = apply_delta(mem, acking)
    /\ pending_acks' = pending_acks \cup DOMAIN acking.cursors
    /\ acking' = StateDelta
    /\ UNCHANGED <<phase, worker, checkpoint, log, poisoned, snapshotter, history>>

(***************************************************************************)
(* The snapshot thread: clone the state, replace the checkpoint, remove    *)
(* the sealed log; any I/O error gives up until the next request.          *)
(***************************************************************************)
SnapshotClone ==
    /\ phase = "up" /\ requested /\ snapshot.at = "idle"
    /\ worker.at # "compacting"
    /\ requested' = FALSE
    /\ snapshot' = IF sealed # <<>> THEN [at |-> "cloned", state |-> mem] ELSE NoSnapshot
    /\ UNCHANGED <<phase, mem, worker, checkpoint, log, poisoned, acks, history>>

\* Mutant: a checkpoint that was not renamed into place counts as written.
WriteCheckpointLost ==
    /\ phase = "up" /\ snapshot.at = "cloned"
    /\ snapshot' = [NoSnapshot EXCEPT !.at = "written"]
    /\ UNCHANGED <<phase, mem, worker, checkpoint, log, poisoned, requested, acks, history>>

write_checkpoint ==
    /\ phase = "up" /\ snapshot.at = "cloned"
    /\ checkpoint' = snapshot.state
    /\ snapshot' = [NoSnapshot EXCEPT !.at = "written"]
    /\ UNCHANGED <<phase, mem, worker, log, poisoned, requested, acks, history>>

RetireSealed ==
    /\ phase = "up" /\ snapshot.at = "written"
    /\ sealed' = <<>>
    /\ snapshot' = NoSnapshot
    /\ UNCHANGED <<phase, mem, worker, checkpoint, appends, wal, wal_bytes, poisoned, requested,
                   acks, history>>

SnapshotFail ==
    /\ "checkpoint" \in Faults
    /\ phase = "up" /\ snapshot.at # "idle"
    /\ snapshot' = NoSnapshot
    /\ UNCHANGED <<phase, mem, worker, checkpoint, log, poisoned, requested, acks, history>>

(***************************************************************************)
(* compact: flush the snapshot writer, then checkpoint the state and reset *)
(* the log while holding both locks.  It is also what cures a poisoned log.*)
(***************************************************************************)
CompactFlush ==
    /\ phase = "up" /\ worker.at = "idle"
    /\ worker' = [worker EXCEPT !.at = "flushing"]
    /\ requested' = TRUE
    /\ UNCHANGED <<phase, mem, checkpoint, log, poisoned, snapshot, acks, history>>

\* Mutant: compaction does not wait for the snapshot writer.
CompactUnflushed ==
    /\ phase = "up" /\ worker.at = "flushing"
    /\ worker' = [worker EXCEPT !.at = "compacting"]
    /\ checkpoint' = mem
    /\ UNCHANGED <<phase, mem, log, poisoned, snapshotter, acks, history>>

(***************************************************************************)
(* A failed flush leaves the sealed log in place and ends the request.  So *)
(* does a checkpoint that cannot be written, or whose directory cannot be  *)
(* synced once it is in place.                                             *)
(***************************************************************************)
CompactCheckpoint ==
    /\ phase = "up" /\ worker.at = "flushing"
    /\ ~requested /\ snapshot.at = "idle"
    /\ \/ /\ sealed # <<>>
          /\ worker' = [worker EXCEPT !.at = "idle"]
          /\ checkpoint_if_needed(wal, wal_bytes)
          /\ UNCHANGED checkpoint
       \/ /\ sealed = <<>>
          /\ worker' = [worker EXCEPT !.at = "compacting"]
          /\ checkpoint' = mem
          /\ UNCHANGED <<wal, wal_bytes, sealed, poisoned, requested>>
       \/ /\ sealed = <<>> /\ "checkpoint" \in Faults
          /\ worker' = [worker EXCEPT !.at = "idle"]
          /\ checkpoint' \in {checkpoint, mem}
          /\ checkpoint_if_needed(wal, wal_bytes)
    /\ UNCHANGED <<phase, mem, appends, snapshot, acks, history>>

\* reset_wal succeeds.  The sealed log that checkpoint then removes is already
\* gone, since the flush succeeded.
CompactReset ==
    /\ phase = "up" /\ worker.at = "compacting"
    /\ wal' = NewLog /\ wal_bytes' = 0
    /\ poisoned' = FALSE
    /\ sealed' = <<>>
    /\ worker' = Idle
    /\ promised' = Durable(mem)
    /\ limbo' = <<>>
    /\ unreset' = FALSE
    /\ UNCHANGED <<phase, mem, checkpoint, appends, snapshotter, acks, seen, expired, stored_ids>>

(***************************************************************************)
(* reset_wal fails: opening the file, writing its header after the file    *)
(* was truncated, syncing it, or opening it again for appending, which     *)
(* comes after the accounting.  The handle that appends is the old one, on *)
(* the same file, and `poisoned` stays as it was.                          *)
(***************************************************************************)
ResetFails ==
    /\ "reset" \in Faults
    /\ phase = "up" /\ worker.at = "compacting"
    /\ worker' = [worker EXCEPT !.at = "idle"]
    /\ \/ checkpoint_if_needed(wal, wal_bytes)
       \/ checkpoint_if_needed([NewLog EXCEPT !.form = "headless"], wal_bytes)
       \/ checkpoint_if_needed(NewLog, wal_bytes)
       \/ checkpoint_if_needed(NewLog, 0)
    /\ unreset' = TRUE
    /\ UNCHANGED <<phase, mem, checkpoint, appends, snapshot, acks, seen, expired, stored_ids,
                   replies>>

(***************************************************************************)
(* A crash, and MlsStore::open.                                            *)
(***************************************************************************)
Crash ==
    /\ phase = "up"
    /\ phase' = "down"
    /\ requested' = FALSE
    /\ snapshot' = NoSnapshot
    /\ acking' = StateDelta
    /\ pending_acks' = {}
    /\ worker' = Idle
    /\ wal_bytes' = 0 /\ poisoned' = FALSE
    /\ UNCHANGED <<mem, checkpoint, history>>

\* What a power loss may leave of a log.
Kept(l) ==
    {[l EXCEPT !.records = SubSeq(@, 1, k), !.synced = k] : k \in l.synced..Len(l.records)}

PowerLoss ==
    /\ "power" \in Faults
    /\ Crash
    /\ UNCHANGED appends
    /\ wal' \in Kept(wal)
    /\ sealed' \in {<<l>> : l \in UNION {Kept(sealed[i]) : i \in DOMAIN sealed}}
                  \cup (IF sealed = <<>> THEN {<<>>} ELSE {})

Kill ==
    /\ "process" \in Faults
    /\ Crash
    /\ UNCHANGED <<appends, wal, sealed>>

replay_wal(s, records) == FoldLeft(apply_delta, s, records)

Recovered ==
    LET old == IF sealed = <<>> THEN checkpoint ELSE replay_wal(checkpoint, sealed[1].records)
    IN  replay_wal(old, wal.records)

\* The lengths k such that what was recovered is what was promised and the
\* first k deltas in limbo.
Survivors ==
    {k \in 0..Len(limbo) :
        Durable(Recovered) = Durable(replay_wal(promised, SubSeq(limbo, 1, k)))}

\* Persistence::open writes the header that an empty file lacks.
Open ==
    /\ phase = "down"
    /\ IF /\ \A i \in DOMAIN sealed : Replays(sealed[i])
          /\ Replays(wal)
          /\ validate_memory(Recovered)
       THEN /\ phase' = "up" /\ mem' = Recovered
            /\ wal' = [wal EXCEPT !.form = "log"]
            /\ wal_bytes' = Len(wal.records)
            /\ requested' = (sealed # <<>>)
            /\ seen' = SeenAt(mem')
            /\ limbo' = IF Survivors = {} THEN limbo ELSE SubSeq(limbo, 1, Max(Survivors))
            /\ unreset' = FALSE
       ELSE /\ phase' = "failed"
            /\ UNCHANGED <<mem, wal, wal_bytes, requested, seen, limbo, unreset>>
    /\ UNCHANGED <<worker, poisoned, checkpoint, appends, sealed, snapshot, acks, expired,
                   stored_ids, promised>>

\* External commits write the same deltas as the others (MlsDelivery has both).
Commits == {c \in Commit : c.committer \in Online /\ ~c.external}

Next ==
    \/ \E c \in Commits : SubmitCommit(c)
    \/ \E d \in Online, id \in EventIds, ct \in Ciphertexts : SubmitApplication(d, id, ct)
    \/ \E active \in SUBSET Devices : PutRoster(active)
    \/ \E cutoff \in 0..mem.room.head_sequence, t \in SUBSET mem.device_welcomes :
         Cleanup(cutoff, t)
    \/ \E d \in Online : PersistAcknowledgement(d)
    \/ RejectRequest
    \/ WorkerPublish
    \/ \E d \in Online, q \in 1..mem.room.head_sequence : Acknowledge(d, q)
    \/ AcknowledgeCommit
    \/ SnapshotClone
    \/ write_checkpoint
    \/ RetireSealed
    \/ SnapshotFail
    \/ CompactFlush
    \/ CompactCheckpoint
    \/ CompactReset
    \/ ResetFails
    \/ PowerLoss
    \/ Kill
    \/ Open

Spec == Init /\ [][Next]_vars

(***************************************************************************)
(* Properties.                                                             *)
(***************************************************************************)
\* The accounting that append rolls back to and that rotation goes by is the
\* length of the log, as long as the log takes records and no reset has failed;
\* a log's synced prefix is part of it, and the worker and the snapshot thread
\* are at steps their code has.
TypeOK ==
    /\ phase \in {"up", "down", "failed"}
    /\ worker.at \in {"idle", "appended", "flushing", "compacting"}
    /\ \A l \in {wal} \cup Range(sealed) :
          l.form \in {"log", "headless", "garbled"} /\ l.synced \in 0..Len(l.records)
    /\ Len(sealed) <= 1
    /\ wal_bytes \in Nat
    /\ phase = "up" /\ ~poisoned /\ ~unreset => wal_bytes = Len(wal.records)
    /\ poisoned \in BOOLEAN /\ requested \in BOOLEAN
    /\ snapshot.at \in {"idle", "cloned", "written"}
    /\ pending_acks \subseteq Devices
    /\ mem.room \in RoomRecord /\ checkpoint.room \in RoomRecord

\* Whatever the crash left of the logs, MlsStore::open replays it into a state
\* that passes validate_memory: the server starts again.  It holds for a power
\* loss at any step of worker, snapshot thread and compaction, as long as no
\* acknowledging device is removed meanwhile (the race of Acknowledge with
\* WorkerPublish) and no pruned event's id is stored again.
StoreReopens == phase # "failed"

\* The store reopens after any failed append, rotation or checkpoint, alone or
\* one after the other; only a reset_wal that failed, until one succeeds, can
\* leave a log behind that MlsStore::open refuses.
ReopensUnlessUnreset == phase = "failed" => unreset

\* Recovery restores exactly what replies promised, followed by some of the
\* deltas whose append was under way or failed, in order: no accepted commit,
\* application, roster or cleanup is lost, and none comes back in part, whatever
\* I/O failed, provided that the store opens.
RepliesSurvive == [][phase = "down" /\ phase' = "up" => Survivors # {}]_vars

\* "The delivery worker validates a mutation, appends and syncs its compact state
\* delta, and only then publishes the delta": what was published before a crash
\* is there after it.
PublishedSurvives ==
    [][phase = "down" /\ phase' = "up" =>
          \/ Durable(mem') = Durable(mem)
          \/ \E i \in DOMAIN limbo : Durable(mem') = Durable(apply_delta(mem, limbo[i]))]_vars

\* Cursors may fall back after a crash, never ahead of what the device reported.
RecoveredCursorsBehind ==
    \A d \in DOMAIN mem.device_cursors :
        mem.device_cursors[d].highest_contiguous_sequence <= seen[d]

\* "a crash may replay events but cannot delete an event the client has not
\* seen": cleanup after recovery still goes by cursors the devices had reached.
NothingUnseenDeleted ==
    \A d \in mem.room.required_devices :
        \/ mem.room.oldest_available_sequence - 1 <= seen[d]
        \/ mem.room.oldest_available_sequence - 1 <= expired
=============================================================================
