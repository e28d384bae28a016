---------------------------- MODULE MlsDelivery ----------------------------
(***************************************************************************)
(* The two threads of the server that share the MLS delivery state: the    *)
(* durability worker (MlsWorker::process in crates/server/src/lib.rs),     *)
(* which owns every mutation but one, and the network loop, which applies  *)
(* acknowledgements itself (handle_mls_control through                     *)
(* MlsService::in_memory_view).  Both read the state under a read lock,    *)
(* release it, and publish their delta under a write lock later: each is   *)
(* two steps here, and the steps of the two threads interleave.            *)
(***************************************************************************)
EXTENDS MlsService

CONSTANTS Online,   \* the devices with a session: the ones that send requests
          Inbox     \* those of them that acknowledge Welcomes

ASSUME OnlineAssumption == Online \subseteq Devices /\ Inbox \subseteq Devices

VARIABLES mem,           \* the shared MemoryState
          worker,        \* the delta the worker has planned, not yet published
          loop,          \* the delta the network loop has planned
          pending_acks,  \* MlsWorker::pending_acknowledgements
          pending_welcome_acks,
          seen,          \* history: the last event each device reported or started after
          expired        \* history: the last event that retention expired

vars == <<mem, worker, loop, pending_acks, pending_welcome_acks, seen, expired>>

Idle == [busy |-> FALSE, delta |-> StateDelta]

Planned(d) == [busy |-> TRUE, delta |-> d]

Larger(m, n) == IF m > n THEN m ELSE n

Init ==
    /\ mem = MemoryState(Devices)
    /\ worker = Idle
    /\ loop = Idle
    /\ pending_acks = {}
    /\ pending_welcome_acks = {}
    /\ seen = [d \in Devices |-> 0]
    /\ expired = 0

(***************************************************************************)
(* The worker plans one request at a time.                                 *)
(***************************************************************************)
Plan(d) ==
    /\ worker' = Planned(d)
    /\ UNCHANGED <<mem, loop, pending_acks, pending_welcome_acks, seen>>

CreateRoom(c) ==
    /\ ~worker.busy
    /\ CreateRoomAccepted(mem, c)
    /\ Plan(CommitDelta(mem, {c.committer}, c))
    /\ UNCHANGED expired

SubmitCommit(c, expected_epoch) ==
    /\ ~worker.busy
    /\ mem.room.head_sequence > 0
    /\ MlsCommitOutcome(mem, c, expected_epoch) = "Accepted"
    /\ Plan(CommitDelta(mem, mem.room.members, c))
    /\ UNCHANGED expired

SubmitApplication(d, id, epoch, ct) ==
    /\ ~worker.busy
    /\ mem.room.head_sequence > 0
    /\ MlsSubmitOutcome(mem, d, id, epoch, ct) = "Stored"
    /\ Plan(append_application(mem, id, epoch, ct))
    /\ UNCHANGED expired

PutRoster(active) ==
    /\ ~worker.busy
    /\ PutRosterValid(mem, active)
    /\ Plan(put_roster(mem, active))
    /\ UNCHANGED expired

Cleanup(cutoff, targets) ==
    /\ ~worker.busy
    /\ WelcomeBatch(mem, cutoff, targets)
    /\ ~is_empty(CleanupDelta(mem, cutoff, targets))
    /\ Plan(CleanupDelta(mem, cutoff, targets))
    /\ expired' = Larger(expired, ExpiredNow(mem, cutoff))

\* The pending mark is removed before the cursor is read.
PersistAcknowledgement(d) ==
    /\ ~worker.busy
    /\ d \in pending_acks
    /\ pending_acks' = pending_acks \ {d}
    /\ worker' = IF d \in DOMAIN mem.device_cursors
                 THEN Planned(persist_acknowledgement(mem, d)) ELSE Idle
    /\ UNCHANGED <<mem, loop, pending_welcome_acks, seen, expired>>

PersistWelcomeAcknowledgement(d) ==
    /\ ~worker.busy
    /\ d \in pending_welcome_acks
    /\ pending_welcome_acks' = pending_welcome_acks \ {d}
    /\ worker' = Planned(acknowledge_welcome(d, mem.welcome_cursors[d]))
    /\ UNCHANGED <<mem, loop, pending_acks, seen, expired>>

\* commit: the append to the log succeeded and the delta is published.  A
\* device that becomes required starts after the commit that added it.
WorkerPublish ==
    /\ worker.busy
    /\ mem' = apply_delta(mem, worker.delta)
    /\ worker' = Idle
    /\ seen' = [d \in Devices |->
                  IF d \in mem'.room.required_devices \ mem.room.required_devices
                  THEN Larger(seen[d], mem'.room.head_sequence) ELSE seen[d]]
    /\ UNCHANGED <<loop, pending_acks, pending_welcome_acks, expired>>

\* commit: the append failed, the request is answered with an error.
WorkerFail ==
    /\ worker.busy
    /\ worker' = Idle
    /\ UNCHANGED <<mem, loop, pending_acks, pending_welcome_acks, seen, expired>>

(***************************************************************************)
(* The network loop handles AckMlsEvent and FetchMlsEvents, AckMlsWelcome  *)
(* and FetchMlsWelcome.  A client only reports what it has processed.      *)
(***************************************************************************)
Acknowledge(d, sequence) ==
    /\ ~loop.busy
    /\ AckAdvances(mem, d, sequence)
    /\ loop' = Planned(acknowledge(mem, d, sequence))
    /\ seen' = [seen EXCEPT ![d] = Larger(@, sequence)]
    /\ UNCHANGED <<mem, worker, pending_acks, pending_welcome_acks, expired>>

AcknowledgeWelcome(d, id) ==
    /\ ~loop.busy
    /\ WelcomeAckAdvances(mem, d, id)
    /\ loop' = Planned(acknowledge_welcome(d, id))
    /\ UNCHANGED <<mem, worker, pending_acks, pending_welcome_acks, seen, expired>>

LoopPublish ==
    /\ loop.busy
    /\ mem' = apply_delta(mem, loop.delta)
    /\ loop' = Idle
    /\ pending_acks' = pending_acks \cup DOMAIN loop.delta.cursors
    /\ pending_welcome_acks' = pending_welcome_acks \cup DOMAIN loop.delta.welcome_cursors
    /\ UNCHANGED <<worker, seen, expired>>

Sequences == 0..(MaxSequence - 1)

Worker ==
    \/ \E c \in {x \in Commit : x.committer \in Online} : CreateRoom(c)
    \/ \E c \in {x \in Commit : x.committer \in Online}, e \in Sequences : SubmitCommit(c, e)
    \/ \E d \in Online, id \in EventIds, e \in Sequences, ct \in Ciphertexts :
         SubmitApplication(d, id, e, ct)
    \/ \E active \in SUBSET Devices : PutRoster(active)
    \/ \E cutoff \in 0..mem.room.head_sequence, t \in SUBSET mem.device_welcomes :
         Cleanup(cutoff, t)
    \/ \E d \in Devices : PersistAcknowledgement(d)
    \/ \E d \in Devices : PersistWelcomeAcknowledgement(d)
    \/ WorkerPublish
    \/ WorkerFail

Loop ==
    \/ \E d \in Online, q \in Sequences : Acknowledge(d, q)
    \/ \E d \in Inbox, i \in 1..(mem.global.next_welcome_delivery_id - 1) :
         AcknowledgeWelcome(d, i)
    \/ LoopPublish

Next == Worker \/ Loop

Spec == Init /\ [][Next]_vars

(***************************************************************************)
(* Properties.                                                             *)
(***************************************************************************)

\* The shared state holds records of the right shape whatever the threads do.
TypeOK ==
    /\ IsMemoryState(mem)
    /\ worker = [busy |-> worker.busy, delta |-> worker.delta]
    /\ worker.busy \in BOOLEAN /\ IsStateDelta(worker.delta)
    /\ loop = [busy |-> loop.busy, delta |-> loop.delta]
    /\ loop.busy \in BOOLEAN /\ IsStateDelta(loop.delta)
    /\ pending_acks \subseteq Devices /\ pending_welcome_acks \subseteq Devices
    /\ seen \in [Devices -> Nat] /\ expired \in Nat

\* The retained log is gapless from the oldest available sequence to the head
\* and both indexes hold exactly its events, although cleanup, appends and
\* acknowledgements are planned on a state that has changed when they are
\* published (the log part of validate_memory).
StoredLogValid == LogContiguous(mem) /\ IndexesExact(mem)

\* Every retained event belongs to the epoch the events before it lead to, and
\* the last one leads to the room's epoch: what a client relies on when it
\* refuses an event whose epoch is not its group's (process_delivery).
EpochChain == EpochsChained(mem)

\* Every required device has a cursor, and every cursor lies between its start
\* and the head with its rejoin watermark at or above it, in spite of cursors
\* written back from a stale read (the cursor part of validate_memory).
CursorsValid == RequiredHaveCursors(mem) /\ CursorsConsistent(mem)

\* Cleanup deletes an event a required device has not processed only when
\* retention expired it: acknowledge's comment "a crash may replay events but
\* cannot delete an event the client has not seen".
NothingUnseenDeleted ==
    \A d \in mem.room.required_devices :
        \/ mem.room.oldest_available_sequence - 1 <= seen[d]
        \/ mem.room.oldest_available_sequence - 1 <= expired

\* Welcomes, their targets and the target counts agree (the Welcome part of
\* validate_memory).
WelcomesValid == WelcomesConsistent(mem)

\* No application is stored while the group has a leaf of a revoked device:
\* submit_application refuses while revocation_pending, which put_roster sets
\* and only a commit that leaves active leaves clears.
NoApplicationToRevokedLeaf ==
    [][\A q \in DOMAIN mem'.events \ DOMAIN mem.events :
          IsApplication(mem'.events[q]) => mem.room.members \subseteq mem.global.active]_vars

\* A stored event never changes or moves while it is retained, and the epoch,
\* the head and the oldest sequence never go back.
LogAppendOnly ==
    [][/\ \A q \in DOMAIN mem.events \cap DOMAIN mem'.events : mem'.events[q] = mem.events[q]
       /\ mem'.room.epoch >= mem.room.epoch
       /\ mem'.room.head_sequence >= mem.room.head_sequence
       /\ mem'.room.oldest_available_sequence >= mem.room.oldest_available_sequence]_vars

(***************************************************************************)
(* The inductive invariant.  Its parts speak of any state s, any history   *)
(* sn of the devices and any last expired event ex, so that they can be    *)
(* stated of the state the worker is about to publish.                     *)
(***************************************************************************)
LogValid(s) ==
    /\ LogContiguous(s) /\ IndexesExact(s) /\ EpochsChained(s)
    /\ \A q \in DOMAIN s.events :
         IsCommit(s.events[q]) => s.events[q].parent_epoch < s.room.epoch

MembersActive(s) == ~s.room.revocation_pending => s.room.members \subseteq s.global.active

DeletionSeen(s, D, sn, ex) ==
    \A d \in D : \/ s.room.oldest_available_sequence - 1 <= sn[d]
                 \/ s.room.oldest_available_sequence - 1 <= ex

CursorsSeen(s, sn) ==
    \A d \in DOMAIN s.device_cursors : s.device_cursors[d].highest_contiguous_sequence <= sn[d]

Sound(s, sn, ex) ==
    /\ IsMemoryState(s) /\ LogValid(s) /\ MembersActive(s) /\ WelcomesConsistent(s)
    /\ RequiredHaveCursors(s) /\ CursorsConsistent(s) /\ CursorsSeen(s, sn)
    /\ DeletionSeen(s, s.room.required_devices, sn, ex)

\* What a step from s to t may do to the log.
LogStep(s, t) ==
    /\ \A q \in DOMAIN s.events \cap DOMAIN t.events : t.events[q] = s.events[q]
    /\ \A q \in DOMAIN t.events \ DOMAIN s.events :
         IsApplication(t.events[q]) => s.room.members \subseteq s.global.active
    /\ t.room.epoch >= s.room.epoch
    /\ t.room.head_sequence >= s.room.head_sequence
    /\ t.room.oldest_available_sequence >= s.room.oldest_available_sequence
    /\ t.global.next_welcome_delivery_id >= s.global.next_welcome_delivery_id

\* The cursors and Welcome cursors of a delta planned by either thread, when it
\* is published over s with this head; joining devices start at the head.
CursorsReady(d, head, joining, sn) ==
    \A x \in DOMAIN d.cursors :
        /\ CursorConsistent(d.cursors[x], head)
        /\ d.cursors[x].highest_contiguous_sequence <= IF x \in joining THEN head ELSE sn[x]

WelcomeCursorsReady(d, s) ==
    \A x \in DOMAIN d.welcome_cursors : WelcomeIdValid(d.welcome_cursors[x], s)

\* The state the worker publishes is valid whatever the network loop publishes
\* in between, because the loop only changes cursors.
WorkerReady(s, d, sn, ex) ==
    LET t == apply_delta(s, d)
        joining == t.room.required_devices \ s.room.required_devices
    IN  /\ IsMemoryState(t) /\ LogValid(t) /\ MembersActive(t) /\ WelcomesStored(t)
        /\ LogStep(s, t)
        /\ RequiredHaveCursors(t)
        /\ CursorsReady(d, t.room.head_sequence, joining, sn)
        /\ DeletionSeen(t, t.room.required_devices \ joining, sn, ex)
        /\ WelcomeCursorsReady(d, s)

CursorsOnly(d) ==
    /\ d.global = {} /\ d.rooms = {} /\ d.events = {} /\ d.deleted_events = {}
    /\ d.deleted_cursors = {} /\ d.welcomes = {} /\ d.deleted_welcome_targets = {}

LoopReady(s, d, sn) ==
    /\ CursorsOnly(d)
    /\ CursorsReady(d, s.room.head_sequence, {}, sn)
    /\ WelcomeCursorsReady(d, s)

\* What every interleaving of the two threads keeps: the shared state is valid,
\* and each thread's planned delta is still right for the state it will meet.
Inv ==
    /\ TypeOK
    /\ Sound(mem, seen, expired)
    /\ pending_welcome_acks \subseteq DOMAIN mem.welcome_cursors
    /\ worker.busy => WorkerReady(mem, worker.delta, seen, expired)
    /\ loop.busy => LoopReady(mem, loop.delta, seen)

\* validate_memory: "persisted MLS cursor references a non-required device".
CursorsOnlyRequired == CursorsRequired(mem)

\* A required device whose next event was deleted is marked for rejoin, so that
\* it is told to rejoin instead of being sent a log with a hole in it
\* (plan_prune_room marks the lagging devices when it deletes).
LaggingDevicesMarked ==
    \A d \in mem.room.required_devices :
        seen[d] + 1 < mem.room.oldest_available_sequence => requires_rejoin(mem, d)
=============================================================================
