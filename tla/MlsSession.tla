----------------------------- MODULE MlsSession -----------------------------
(***************************************************************************)
(* One device's session with the delivery service                          *)
(* (src/client_net/mls_actor.rs and the MLS part of crates/server/src/     *)
(* lib.rs): the requests and the controls travel in order on one           *)
(* connection, the server answers requests in order and pushes new events  *)
(* and rosters, the connection drops, and the client process crashes       *)
(* between any two writes of a handler.  A submission the server's worker  *)
(* has when the connection is lost is executed later, during the next      *)
(* session.  The other devices of the room are the environment: they       *)
(* submit applications and commits to the same service, acknowledge, are   *)
(* revoked, and the server's cleanup runs.                                 *)
(*                                                                         *)
(* The room exists and the device is a member.  The service is the one of  *)
(* MlsService; each request is one step (MlsDelivery models its worker).   *)
(***************************************************************************)
EXTENDS MlsService, MlsClient

CONSTANTS MyEvents,        \* the events the user sends
          PeerEvents,      \* the events the other devices send
          BatchSize,       \* MAX_MLS_EVENT_BATCH
          MaxPeerCommits,  \* bound: commits of other devices
          MaxExpiries,     \* bound: cleanups that expire unread events
          MaxFailures,     \* bound: lost connections and client crashes
          CleanupQueued    \* a cleanup may be queued ahead of an orphaned submission

ASSUME EventsAssumption == MyEvents \cap PeerEvents = {} /\ EventIds = MyEvents \cup PeerEvents
ASSUME BatchSizeAssumption == BatchSize \in Nat \ {0}
ASSUME CleanupQueuedAssumption == CleanupQueued \in BOOLEAN

VARIABLES mem,        \* the service's state
          store,      \* the client's files
          session,    \* the actor's state for this connection
          emitted,    \* emitted_mls_sequences of this process
          shown,      \* history: dispatches the UI acknowledged
          to_server,  \* requests in flight
          to_client,  \* controls in flight
          orphans,    \* submissions of lost connections with the server's worker
          sent,       \* history: ciphertexts put on the wire
          stored,     \* history: the applications the service appended
          fatal,      \* history: an operation of a session failed
          used        \* how much of each bound is used

vars == <<mem, store, session, emitted, shown, to_server, to_client, orphans, sent, stored, fatal,
          used>>

Peers == Devices \ {Me}

\* reset_session_state, the unbound device included.
NoSession == [bound |-> FALSE, rosters |-> {}, commit |-> {}, rejoin |-> {},
              history_expired |-> FALSE, event_rosters |-> FALSE, stale_retries |-> FALSE]

(***************************************************************************)
(* Requests and controls.                                                  *)
(***************************************************************************)
FetchDeviceRoster == [type |-> "FetchDeviceRoster"]
FetchMlsEvents(after) == [type |-> "FetchMlsEvents", after_sequence |-> after]
FetchGroupInfo == [type |-> "FetchGroupInfo"]
AckMlsEvent(sequence) == [type |-> "AckMlsEvent", sequence |-> sequence]
SubmitMlsApplication(o) == [type |-> "SubmitMlsApplication", event_id |-> o.event_id,
                            ciphertext |-> CHOOSE ct \in o.ciphertext : TRUE]
SubmitCommitBundle(c, epoch) == [type |-> "SubmitCommitBundle", commit |-> c,
                                 expected_epoch |-> epoch]

DeviceRoster(s) == [type |-> "DeviceRoster", active |-> s.global.active]
GroupInfo(s) == [type |-> "GroupInfo", epoch |-> s.room.epoch, members |-> s.room.members]
MlsApplicationSubmitted(id, outcome, value) ==
    [type |-> "MlsApplicationSubmitted", event_id |-> id, outcome |-> outcome, value |-> value]
MlsCommitSubmitted(outcome, sequence) ==
    [type |-> "MlsCommitSubmitted", outcome |-> outcome, sequence |-> sequence]

\* events: the retained events after a sequence, at most a batch of them.
MlsEvents(s, after) ==
    LET first == IF after + 1 > s.room.oldest_available_sequence
                 THEN after + 1 ELSE s.room.oldest_available_sequence
        last == IF first + BatchSize - 1 < s.room.head_sequence
                THEN first + BatchSize - 1 ELSE s.room.head_sequence
    IN  [type |-> "MlsEvents",
         events |-> [i \in 1..(last - first + 1) |-> s.events[first + i - 1]],
         oldest |-> s.room.oldest_available_sequence, head |-> s.room.head_sequence]

(***************************************************************************)
(* A handler of the actor is an operator on r: the stores it has written   *)
(* (mid: the ones a crash may leave), the session, the queued requests,    *)
(* the sequences handed to the UI, and whether it returned an error.       *)
(***************************************************************************)
Start == [store |-> store, mid |-> {store}, session |-> session, out |-> <<>>,
          emit |-> {}, failed |-> FALSE]

Write(r, writes) ==
    IF writes = <<>> THEN r
    ELSE [r EXCEPT !.store = Last(writes), !.mid = @ \cup Range(writes)]

queue_control(r, request) == [r EXCEPT !.out = Append(@, request)]

Fetch(r) == queue_control(r, FetchMlsEvents(r.store.cursor))

Fail(r) == [r EXCEPT !.failed = TRUE]

emit_mls_chatt_event(r, sequences) == [r EXCEPT !.emit = @ \cup sequences]

restore_pending_ui_dispatches(r) == emit_mls_chatt_event(r, r.store.dispatches)

RostersReady(r) == r.session.rosters # {}

\* A room with a commit in flight or undecided encrypts nothing.
Sendable(r) == RostersReady(r) /\ r.session.commit = {} /\ r.store.group.pending = {}

EncryptAndSubmit(r, i) ==
    LET w == IF r.store.outbox[i].state = "PendingEncryption"
             THEN Write(r, encrypt_outgoing(r.store, i)) ELSE r
    IN  IF r.store.outbox[i].state = "Delivered" THEN r
        ELSE queue_control(w, SubmitMlsApplication(w.store.outbox[i]))

queue_pending_mls_outbox(r) ==
    IF Sendable(r)
    THEN FoldLeft(EncryptAndSubmit, r, [i \in DOMAIN r.store.outbox |-> i])
    ELSE r

queue_mls_maintenance(r) ==
    LET commits == UNION {prepare_revocation_commit(r.store, active) : active \in r.session.rosters}
    IN  IF r.session.commit # {} \/ commits = {} THEN r
        ELSE LET c == CHOOSE x \in commits : TRUE
             IN  queue_control([Write(r, StorePending(r.store, c)) EXCEPT
                                  !.session.commit = {"MemberUpdate"}],
                               SubmitCommitBundle(c, r.store.group.epoch))

send_mls_content(r, id) ==
    LET q == Write(r, queue_outgoing(r.store, id))
    IN  IF r.session.bound /\ Sendable(r) THEN EncryptAndSubmit(q, Len(q.store.outbox)) ELSE q

\* MlsDeviceBound: reconciliation asks for the rosters and the events.  Without
\* rosters maintenance and the outbox wait.
HandleMlsDeviceBound(r) ==
    LET bound == restore_pending_ui_dispatches([r EXCEPT !.session.bound = TRUE])
        reconciled == Fetch(queue_control(bound, FetchDeviceRoster))
    IN  queue_pending_mls_outbox(queue_mls_maintenance(reconciled))

HandleDeviceRoster(r, m) ==
    LET installed == [r EXCEPT !.session.rosters = {m.active}, !.session.event_rosters = FALSE]
        resumed == IF r.session.event_rosters THEN Fetch(installed) ELSE installed
    IN  restore_pending_ui_dispatches(queue_pending_mls_outbox(queue_mls_maintenance(resumed)))

(***************************************************************************)
(* MlsEvents.                                                              *)
(***************************************************************************)
RejoinFromGroupInfo(r) ==
    queue_control([r EXCEPT !.session.history_expired = TRUE], FetchGroupInfo)

\* a accumulates r, the opened sequences and whether a commit was processed.
ProcessEvent(a, e) ==
    LET p == process_delivery(a.r.store, e, UNION a.r.session.rosters)
    IN  IF a.r.failed THEN a
        ELSE IF p.kind = "Err" THEN [a EXCEPT !.r = Fail(@)]
        ELSE [r |-> Write(a.r, p.writes),
              opened |-> IF p.kind \in {"Application", "Outgoing"}
                         THEN a.opened \cup {e.sequence} ELSE a.opened,
              saw_commit |-> a.saw_commit \/ p.kind = "Commit"]

\* What follows a batch: acknowledge, show, resume what waited, fetch on.
AfterBatch(a, count, head) ==
    LET acked == IF count = 0 THEN a.r ELSE queue_control(a.r, AckMlsEvent(a.r.store.cursor))
        shownTo == emit_mls_chatt_event(acked, a.opened)
        resumed == IF a.saw_commit THEN queue_pending_mls_outbox(queue_mls_maintenance(shownTo))
                   ELSE shownTo
        caught_up == resumed.store.cursor >= head /\ resumed.session.stale_retries
        retried == IF caught_up
                   THEN queue_pending_mls_outbox([resumed EXCEPT !.session.stale_retries = FALSE])
                   ELSE resumed
    IN  IF count = BatchSize THEN Fetch(retried) ELSE retried

HandleMlsEvents(r, m) ==
    LET fresh == SelectSeq(m.events, LAMBDA e : e.sequence > r.store.cursor)
        batch == FoldLeft(ProcessEvent, [r |-> r, opened |-> {}, saw_commit |-> FALSE], fresh)
    IN  IF r.store.cursor + 1 < m.oldest THEN RejoinFromGroupInfo(r)
        ELSE IF r.session.commit # {} THEN r
        ELSE IF ~RostersReady(r)
             THEN queue_control([r EXCEPT !.session.event_rosters = TRUE], FetchDeviceRoster)
        ELSE IF fresh # <<>> /\ Head(fresh).sequence # r.store.cursor + 1 THEN Fetch(r)
        ELSE IF batch.r.failed THEN batch.r
        ELSE AfterBatch(batch, Len(fresh), m.head)

(***************************************************************************)
(* The outcomes of submissions.                                            *)
(***************************************************************************)
IndexOf(s, id) == CHOOSE i \in DOMAIN s.outbox : s.outbox[i].event_id = id

\* Mutant: the answered event is acknowledged instead of the cursor.
HandleStoredAcksEvent(r, i, sequence) ==
    LET p == mark_outgoing_delivered(r.store, i, sequence)
        w == Write(r, p.writes)
        acked == queue_control(w, AckMlsEvent(sequence))
    IN  IF p.kind = "Err" THEN Fail(r)
        ELSE IF AtOrderedHead(r.store, sequence) THEN emit_mls_chatt_event(acked, {sequence})
        ELSE IF w.store.cursor < sequence THEN Fetch(acked)
        ELSE acked

HandleStored(r, i, sequence) ==
    LET p == mark_outgoing_delivered(r.store, i, sequence)
        w == Write(r, p.writes)
        acked == queue_control(w, AckMlsEvent(w.store.cursor))
    IN  IF p.kind = "Err" THEN Fail(r)
        ELSE IF AtOrderedHead(r.store, sequence) THEN emit_mls_chatt_event(acked, {sequence})
        ELSE IF w.store.cursor < sequence THEN Fetch(acked)
        ELSE acked

\* Mutant: the stale entry is reset and nothing is fetched.
HandleStaleEpochNoFetch(r, i, current_epoch) ==
    LET w == Write(r, retry_stale_outgoing(r.store, i, current_epoch))
    IN  [w EXCEPT !.session.stale_retries = TRUE]

HandleStaleEpoch(r, i, current_epoch) ==
    LET w == Write(r, retry_stale_outgoing(r.store, i, current_epoch))
    IN  Fetch([w EXCEPT !.session.stale_retries = TRUE])

HandleMlsApplicationSubmitted(r, m) ==
    LET i == IndexOf(r.store, m.event_id)
    IN  CASE m.outcome \in {"Stored", "AlreadyStored"} -> HandleStored(r, i, m.value)
          [] m.outcome = "StaleEpochNotStored" -> HandleStaleEpoch(r, i, m.value)
          [] m.outcome = "RevocationPending" -> r
          [] m.outcome = "RejoinRequired" -> RejoinFromGroupInfo(r)

\* pending_mls_commits.remove
TakeCommit(r) == [r EXCEPT !.session.commit = {}]

\* The pending member update is rolled back.
RollBack(r) == Write(TakeCommit(r), reject_pending_commit(r.store))

\* Mutant: the rejected group is not removed.
RetryRejoinKeepsGroup(r) == queue_control(TakeCommit(r), FetchGroupInfo)

\* The pending external rejoin is forgotten and the GroupInfo asked for again.
RetryRejoin(r) == queue_control([TakeCommit(r) EXCEPT !.session.rejoin = {}], FetchGroupInfo)

AcceptRejoin(r, sequence) ==
    LET g == CHOOSE x \in r.session.rejoin : TRUE
        p == accept_external_rejoin(r.store, g, sequence)
        w == Write([TakeCommit(r) EXCEPT !.session.rejoin = {}], p.writes)
    IN  IF r.session.rejoin = {} \/ p.kind = "Err" THEN Fail(r)
        ELSE queue_pending_mls_outbox(queue_mls_maintenance(Fetch(w)))

HandleMlsCommitSubmitted(r, m) ==
    LET update == r.session.commit = {"MemberUpdate"}
        rejoin == r.session.commit = {"ExternalRejoin"}
    IN  CASE m.outcome \in {"Accepted", "AlreadyAccepted"} ->
               (IF update THEN Fetch(TakeCommit(r))
                ELSE IF rejoin THEN AcceptRejoin(r, m.sequence) ELSE r)
          [] m.outcome = "StaleEpoch" ->
               (IF update THEN Fetch(RollBack(r)) ELSE IF rejoin THEN RetryRejoin(r) ELSE r)
          [] m.outcome = "PolicyRejected" ->
               (IF update THEN queue_pending_mls_outbox(Fetch(RollBack(r)))
                ELSE IF rejoin THEN RetryRejoin(r) ELSE r)
          [] m.outcome = "RejoinRequired" ->
               RejoinFromGroupInfo(IF update THEN RollBack(r) ELSE TakeCommit(r))

\* prepare_external_rejoin refuses a second rejoin of the room.
HandleGroupInfo(r, m) ==
    LET c == external_commit(m.members)
    IN  IF r.session.commit = {"ExternalRejoin"} THEN r
        ELSE IF r.session.history_expired
             THEN IF r.session.rejoin # {} THEN Fail(r)
                  ELSE queue_control([r EXCEPT !.session.history_expired = FALSE,
                                               !.session.commit = {"ExternalRejoin"},
                                               !.session.rejoin = {Group(m.epoch + 1, c.members)}],
                                     SubmitCommitBundle(c, m.epoch))
        ELSE IF r.session.commit # {} THEN RollBack(r)
        ELSE r

handle_server_control(r, m) ==
    CASE m.type = "DeviceRoster" -> HandleDeviceRoster(r, m)
      [] m.type = "MlsEvents" -> HandleMlsEvents(r, m)
      [] m.type = "MlsApplicationSubmitted" -> HandleMlsApplicationSubmitted(r, m)
      [] m.type = "MlsCommitSubmitted" -> HandleMlsCommitSubmitted(r, m)
      [] m.type = "GroupInfo" -> HandleGroupInfo(r, m)

(***************************************************************************)
(* The client's steps.                                                     *)
(***************************************************************************)
Init ==
    LET created == [committer |-> Me, members |-> Devices, external |-> FALSE]
        empty == MemoryState(Devices)
    IN  /\ mem = apply_delta(empty, CommitDelta(empty, Devices, created))
        /\ store = PersistentClient(Group(1, Devices), 1)
        /\ session = NoSession
        /\ emitted = {} /\ shown = {} /\ sent = {} /\ stored = {} /\ fatal = FALSE
        /\ to_server = <<>> /\ to_client = <<>> /\ orphans = <<>>
        /\ used = [commits |-> 0, expiries |-> 0, failures |-> 0]

\* Submissions go to the durability worker; the network loop reads no further
\* request of the connection until the answer is drained (pending_mls).
Submission(q) == q.type \in {"SubmitMlsApplication", "SubmitCommitBundle"}

\* The connection is gone with everything in flight, except a submission that
\* the worker already has: it is executed all the same.
Disconnected ==
    /\ session' = NoSession
    /\ to_server' = <<>> /\ to_client' = <<>>
    /\ \/ UNCHANGED orphans
       \/ /\ to_server # <<>> /\ Submission(Head(to_server))
          /\ orphans' = Append(orphans, Head(to_server))

\* The handler ends.  An error is Output::Fatal: the session is over.
Finish(r, rest) ==
    /\ store' = r.store
    /\ fatal' = (fatal \/ r.failed)
    /\ IF r.failed THEN Disconnected /\ UNCHANGED <<emitted, sent>>
       ELSE /\ session' = r.session
            /\ to_client' = rest
            /\ to_server' = to_server \o r.out
            /\ UNCHANGED orphans
            /\ emitted' = emitted \cup r.emit
            /\ sent' = sent \cup {r.out[i].ciphertext :
                           i \in {j \in DOMAIN r.out : r.out[j].type = "SubmitMlsApplication"}}
    /\ UNCHANGED <<mem, shown, stored, used>>

Unsent == MyEvents \ {store.outbox[i].event_id : i \in DOMAIN store.outbox}

Bind == ~session.bound /\ Finish(HandleMlsDeviceBound(Start), to_client)

Handle == /\ to_client # <<>>
          /\ Finish(handle_server_control(Start, Head(to_client)), Tail(to_client))

SendContent(id) == id \in Unsent /\ Finish(send_mls_content(Start, id), to_client)

\* AckMlsUiDispatch: the UI has stored the message it was handed.
AcknowledgeUiDispatch(q) ==
    /\ q \in emitted \cap store.dispatches
    /\ store' = [store EXCEPT !.dispatches = @ \ {q}]
    /\ shown' = shown \cup {q}
    /\ UNCHANGED <<mem, session, emitted, to_server, to_client, orphans, sent, stored, fatal, used>>

\* The connection is lost.
Drop ==
    /\ session.bound /\ used.failures < MaxFailures
    /\ used' = [used EXCEPT !.failures = @ + 1]
    /\ Disconnected
    /\ UNCHANGED <<mem, store, emitted, shown, sent, stored, fatal>>

\* What a crash can leave on disk: the store, or one in the middle of a step.
StoresInFlight ==
    {store} \cup (IF to_client = <<>> THEN {}
                  ELSE handle_server_control(Start, Head(to_client)).mid)
            \cup UNION {send_mls_content(Start, id).mid : id \in Unsent}

Crash ==
    /\ used.failures < MaxFailures
    /\ used' = [used EXCEPT !.failures = @ + 1]
    /\ store' \in StoresInFlight
    /\ emitted' = {}
    /\ Disconnected
    /\ UNCHANGED <<mem, shown, sent, stored, fatal>>

(***************************************************************************)
(* The server's steps: handle_mls_control on the oldest request, and       *)
(* drain_mls_replies.  What a request does: the state it leaves, the reply *)
(* to its connection, the push to every connection, which comes after the  *)
(* reply, and the application it stores; or it fails.                      *)
(***************************************************************************)
Served(s, reply, push, new) ==
    [mem |-> s, reply |-> reply, push |-> push, stored |-> new, failed |-> FALSE]

Refuse == [Served(mem, <<>>, <<>>, {}) EXCEPT !.failed = TRUE]

Pushed(s) == << MlsEvents(s, s.room.head_sequence - 1) >>

Acked(sequence) ==
    IF AckAdvances(mem, Me, sequence) THEN apply_delta(mem, acknowledge(mem, Me, sequence)) ELSE mem

ServeFetch(q) ==
    CASE q.type = "FetchDeviceRoster" -> Served(mem, << DeviceRoster(mem) >>, <<>>, {})
      [] q.type = "FetchGroupInfo" -> Served(mem, << GroupInfo(mem) >>, <<>>, {})
      [] q.type = "FetchMlsEvents" ->
           LET s == Acked(q.after_sequence)
           IN  Served(s, << MlsEvents(s, q.after_sequence) >>, <<>>, {})
      [] q.type = "AckMlsEvent" -> Served(Acked(q.sequence), <<>>, <<>>, {})

ServeApplication(q) ==
    LET ct == q.ciphertext
        outcome == MlsSubmitOutcome(mem, Me, q.event_id, ct.epoch, ct)
        s == apply_delta(mem, append_application(mem, q.event_id, ct.epoch, ct))
        value == CASE outcome = "Stored" -> s.room.head_sequence
                   [] outcome = "AlreadyStored" -> mem.event_ids[q.event_id]
                   [] OTHER -> mem.room.epoch
        reply == << MlsApplicationSubmitted(q.event_id, outcome, value) >>
    IN  IF outcome = "Err" THEN Refuse
        ELSE IF outcome = "Stored"
             THEN Served(s, reply, Pushed(s), {[event_id |-> q.event_id, sequence |-> value]})
        ELSE Served(mem, reply, <<>>, {})

ServeCommit(q) ==
    LET outcome == MlsCommitOutcome(mem, q.commit, q.expected_epoch)
        s == apply_delta(mem, CommitDelta(mem, mem.room.members, q.commit))
        value == CASE outcome = "Accepted" -> s.room.head_sequence
                   [] outcome = "AlreadyAccepted" -> mem.commit_epochs[q.expected_epoch]
                   [] OTHER -> 0
        reply == << MlsCommitSubmitted(outcome, value) >>
    IN  IF outcome = "Err" THEN Refuse
        ELSE IF outcome = "Accepted" THEN Served(s, reply, Pushed(s), {})
        ELSE Served(mem, reply, <<>>, {})

handle_mls_control(q) ==
    CASE q.type = "SubmitMlsApplication" -> ServeApplication(q)
      [] q.type = "SubmitCommitBundle" -> ServeCommit(q)
      [] OTHER -> ServeFetch(q)

\* A submission waits behind those of lost connections; the other requests are
\* served by the network loop.  A request that failed disconnects the client,
\* which loses what it sent after.
Serve ==
    /\ to_server # <<>>
    /\ Submission(Head(to_server)) => orphans = <<>>
    /\ LET v == handle_mls_control(Head(to_server))
       IN  /\ mem' = v.mem
           /\ stored' = stored \cup v.stored
           /\ fatal' = (fatal \/ v.failed)
           /\ to_server' = IF v.failed THEN <<>> ELSE Tail(to_server)
           /\ to_client' = IF v.failed THEN <<>> ELSE to_client \o v.reply \o v.push
           /\ session' = IF v.failed THEN NoSession ELSE session
    /\ UNCHANGED <<store, emitted, shown, orphans, sent, used>>

\* The worker executes the submission of a lost connection.  Its answer cannot be
\* queued, and that error takes the push to every other connection with it.
ServeOrphan ==
    /\ orphans # <<>>
    /\ LET v == handle_mls_control(Head(orphans))
       IN  mem' = v.mem /\ stored' = stored \cup v.stored
    /\ orphans' = Tail(orphans)
    /\ UNCHANGED <<store, session, emitted, shown, to_server, to_client, sent, fatal, used>>

(***************************************************************************)
(* The other devices and the server's cleanup.                             *)
(***************************************************************************)
Others(s) ==
    /\ mem' = s
    /\ UNCHANGED <<store, session, emitted, shown, to_server, orphans, sent, fatal>>

\* What a peer's submission pushes to this device, if it is connected.  Nothing
\* is pushed when the peer's connection is lost before the answer is queued.
Push(controls, charged) ==
    \/ /\ to_client' = IF session.bound THEN to_client \o controls ELSE to_client
       /\ used' = charged
    \/ /\ session.bound /\ used.failures < MaxFailures
       /\ used' = [charged EXCEPT !.failures = @ + 1]
       /\ UNCHANGED to_client

PeerApplication(d, id) ==
    LET ct == [by |-> d, epoch |-> mem.room.epoch, generation |-> 0, event_id |-> id]
        s == apply_delta(mem, append_application(mem, id, ct.epoch, ct))
    IN  /\ d \in mem.room.members
        /\ \A x \in stored : x.event_id # id
        /\ MlsSubmitOutcome(mem, d, id, ct.epoch, ct) = "Stored"
        /\ Others(s)
        /\ Push(Pushed(s), used)
        /\ stored' = stored \cup {[event_id |-> id, sequence |-> s.room.head_sequence]}

PeerCommit(c) ==
    LET s == apply_delta(mem, CommitDelta(mem, mem.room.members, c))
    IN  /\ used.commits < MaxPeerCommits
        /\ MlsCommitOutcome(mem, c, mem.room.epoch) = "Accepted"
        /\ Others(s)
        /\ Push(Pushed(s), [used EXCEPT !.commits = @ + 1])
        /\ UNCHANGED stored

PeerCommits ==
    {[committer |-> d, members |-> mem.room.members \cup {d}, external |-> TRUE] : d \in Peers}
      \cup {[committer |-> d, external |-> FALSE,
             members |-> mem.room.members \ Removals(mem.room.members, mem.global.active)] :
               d \in {p \in Peers : Removals(mem.room.members, mem.global.active) # {}}}

\* The other devices acknowledge the head.  Cleanup reads only the least
\* cursor, so they do so together.
PeersAcknowledge ==
    LET head == mem.room.head_sequence
        lagging == {d \in Peers : AckAdvances(mem, d, head)}
        delta == [StateDelta EXCEPT !.cursors =
                    [d \in lagging |-> acknowledge(mem, d, head).cursors[d]]]
    IN  /\ lagging # {}
        /\ Others(apply_delta(mem, delta))
        /\ UNCHANGED <<to_client, stored, used>>

\* A peer's account publishes a roster without one of its devices.
RevokePeer(d) ==
    LET active == mem.global.active \ {d}
        s == apply_delta(mem, put_roster(mem, active))
    IN  /\ d \in mem.global.active
        /\ PutRosterValid(mem, active)
        /\ Others(s)
        /\ Push(<< DeviceRoster(s) >>, used)
        /\ UNCHANGED stored

\* Acknowledged events are pruned (cutoff 0), or expire up to a sequence.  The
\* worker cleans up too, behind an orphan unless the cleanup was queued first.
Cleanup(cutoff) ==
    /\ ~CleanupQueued => orphans = <<>>
    /\ PruneDue(mem, cutoff)
    /\ ExpiredNow(mem, cutoff) = 0 \/ used.expiries < MaxExpiries
    /\ used' = [used EXCEPT !.expiries = IF ExpiredNow(mem, cutoff) = 0 THEN @ ELSE @ + 1]
    /\ Others(apply_delta(mem, CleanupDelta(mem, cutoff, {})))
    /\ UNCHANGED <<to_client, stored>>

Next ==
    \/ Bind
    \/ Handle
    \/ \E id \in MyEvents : SendContent(id)
    \/ \E q \in emitted : AcknowledgeUiDispatch(q)
    \/ Drop
    \/ Crash
    \/ Serve
    \/ ServeOrphan
    \/ \E d \in Peers, id \in PeerEvents : PeerApplication(d, id)
    \/ \E c \in PeerCommits : PeerCommit(c)
    \/ PeersAcknowledge
    \/ \E d \in Peers : RevokePeer(d)
    \/ \E cutoff \in 0..mem.room.head_sequence : Cleanup(cutoff)

Spec == Init /\ [][Next]_vars

\* Weak fairness of the client's and the server's loops and of the UI, with
\* the enabling condition of each step written out.
FairSpec ==
    /\ Spec
    /\ []<>session.bound \/ []<><<Bind>>_vars
    /\ []<>(to_client = <<>>) \/ []<><<Handle>>_vars
    /\ []<>(to_server = <<>>) \/ []<><<Serve>>_vars
    /\ []<>(orphans = <<>>) \/ []<><<ServeOrphan>>_vars
    /\ []<>(emitted \cap store.dispatches = {})
         \/ []<><<\E q \in emitted : AcknowledgeUiDispatch(q)>>_vars

(***************************************************************************)
(* Properties.                                                             *)
(***************************************************************************)
\* Every variable has its shape, and the service's state is well formed.
TypeOK ==
    /\ IsClientStore(store)
    /\ session.bound \in BOOLEAN /\ Cardinality(session.rosters) <= 1
    /\ session.commit \subseteq {"MemberUpdate", "ExternalRejoin"}
    /\ Cardinality(session.commit) <= 1 /\ Cardinality(session.rejoin) <= 1
    /\ ~session.bound => session = NoSession /\ to_server = <<>> /\ to_client = <<>>
    /\ DOMAIN mem.events = mem.room.oldest_available_sequence..mem.room.head_sequence

\* A message key is used once: no two ciphertexts this device ever puts on the
\* wire share epoch and generation, whatever crash hides a write of
\* encrypt_outgoing and whatever answer makes the outbox encrypt again.
GenerationOnce ==
    \A x, y \in sent : x.epoch = y.epoch /\ x.generation = y.generation => x = y

\* The service never believes the device has read an event that is not in the
\* device's files: acknowledgements and the cursor a fetch carries are read
\* after the write, so cleanup cannot prune what a crash makes unread again.
ServerNeverAhead ==
    Me \in DOMAIN mem.device_cursors =>
        mem.device_cursors[Me].highest_contiguous_sequence <= store.cursor

\* No operation of a session ever fails: every event the service delivers can
\* be processed in order, every answer matches the outbox, and the server
\* refuses no request, over all drops, crashes and concurrent commits.
NeverFatal == ~fatal

\* An event the user sends once enters the room's order once, although its
\* ciphertext is submitted again after a drop, when the server may still have the
\* first submission to execute, and made again after a commit.
ExactlyOnce == \A x, y \in stored : x.event_id = y.event_id => x = y

\* Every application behind the delivery cursor is waiting for the UI or was
\* acknowledged by it: a crash between the writes of process_delivery or
\* mark_outgoing_delivered loses no message.
NothingLost ==
    \A x \in stored : x.sequence <= store.cursor /\ x.event_id \notin Malformed
                        => x.sequence \in store.dispatches \cup shown

OwnExternalCommit(e) == IsCommit(e) /\ e.commit.external /\ e.commit.committer = Me

\* "Applying a winning commit to the pre-outcome group can remove this client
\* even when its external replacement was the winner" (mls_actor.rs:1074): the
\* events the actor processes next, with no outcome outstanding and none of them
\* expired for it, never hold the device's own winning rejoin.
PreOutcomeGroupSpared ==
    to_client # <<>> /\ Head(to_client).type = "MlsEvents"
      /\ store.cursor + 1 >= Head(to_client).oldest
      /\ session.commit = {} /\ RostersReady(Start)
    => \A e \in Range(Head(to_client).events) : OwnExternalCommit(e) => e.sequence <= store.cursor

\* StaleEpochNotStored "proves a ciphertext from an epoch older than
\* `current_epoch` was not appended by the delivery service"
\* (persistent.rs:913): no such answer names an event the service stored.
StaleProvesNotStored ==
    \A m \in Range(to_client) :
        m.type = "MlsApplicationSubmitted" /\ m.outcome = "StaleEpochNotStored"
          => \A x \in stored : x.event_id # m.event_id

Queued(id) == \E i \in DOMAIN store.outbox : store.outbox[i].event_id = id

Shown(id) == \E x \in stored : x.event_id = id /\ x.sequence \in shown

\* Every well-formed message the user sends is eventually shown by this client,
\* over drops, crashes, stale epochs, and a submission that the server executes
\* after its connection is gone and pushes to nobody.
EveryMessageShown == \A id \in MyEvents \ Malformed : Queued(id) ~> Shown(id)

\* The same for the messages of other devices, once they are in the room.
PeerMessagesShown ==
    \A id \in PeerEvents \ Malformed : (\E x \in stored : x.event_id = id) ~> Shown(id)

\* The answer is under way that another commit took the epoch of the rejoin.
RejoinLost ==
    /\ session.commit = {"ExternalRejoin"}
    /\ \E m \in Range(to_client) : /\ m.type = "MlsCommitSubmitted"
                                  /\ m.outcome \in {"StaleEpoch", "PolicyRejected"}

\* A message queued by a client whose unread events expired is eventually shown:
\* the client rejoins by an external commit and encrypts again, whatever events
\* and commits reach the room meanwhile, unless a rejoin loses the race for its
\* epoch: then the actor asks for a GroupInfo that it ignores (mls_actor.rs:1361,
\* :1529).
ShownUnlessRejoinLost ==
    <>RejoinLost \/ \A id \in MyEvents \ Malformed : Queued(id) ~> Shown(id)
=============================================================================
