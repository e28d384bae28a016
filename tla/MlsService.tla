----------------------------- MODULE MlsService -----------------------------
(***************************************************************************)
(* The decisions of the MLS delivery service                               *)
(* (crates/server/src/mls_service.rs): for each request, when it is        *)
(* accepted and the delta it hands to the store.  The worker's room cache  *)
(* (MlsService::rooms) always equals the store's room record, because only *)
(* the worker writes rooms and refreshes the cache after every write, so   *)
(* both are s.room here.  MLS cryptography is outside src/; what the       *)
(* public-group validator accepts is taken from the policy the repository  *)
(* installs in it (crates/mls/src/policy.rs).                              *)
(***************************************************************************)
EXTENDS MlsStore

CONSTANTS MaxSequence,  \* the exclusive end of the sequence space (u64::MAX)
          MaxRevision,  \* the last roster revision (u64::MAX)
          BatchLimit    \* events or Welcome targets deleted per cleanup

ASSUME MaxSequenceAssumption == MaxSequence \in Nat
ASSUME MaxRevisionAssumption == MaxRevision \in Nat
ASSUME BatchLimitAssumption == BatchLimit \in Nat \ {0}

device_is_active(s, d) == d \in s.global.active

\* validate_room_accounts: every account of the descriptor keeps a leaf.
validate_room_accounts(members) == {AccountOf[m] : m \in members} = Accounts

\* filter_proposals: only leaves of inactive devices may be removed.
filter_proposals(s, members, c) ==
    /\ (c.members \ members) \subseteq s.global.active
    /\ (members \ c.members) \cap s.global.active = {}

\* PublicGroupValidator::apply_commit on a group with these members: an
\* external commit adds or replaces its own leaf only.
apply_commit(s, members, c) ==
    /\ c.committer \in s.global.active
    /\ filter_proposals(s, members, c)
    /\ IF c.external THEN c.members = members \cup {c.committer}
                     ELSE c.committer \in members \cap c.members

\* validate_welcome_targets: the Welcome is for the added leaves, except the
\* committer of an external commit, which joins by itself.
WelcomeTargets(members, c) == (c.members \ members) \ {c.committer}

SequenceAvailable(s) == s.room.head_sequence + 1 < MaxSequence

CommitEventOf(s, c) == [kind |-> "commit", sequence |-> s.room.head_sequence + 1,
                        parent_epoch |-> s.room.epoch, epoch |-> s.room.epoch + 1,
                        commit |-> c]

CommitRoom(s, c) ==
    [epoch |-> s.room.epoch + 1, members |-> c.members,
     revocation_pending |-> ~(c.members \subseteq s.global.active),
     head_sequence |-> s.room.head_sequence + 1,
     oldest_available_sequence |-> s.room.oldest_available_sequence,
     required_devices |-> c.members \cap s.global.active]

CommitDelta(s, members, c) ==
    plan_commit(s, CommitRoom(s, c), CommitEventOf(s, c), WelcomeTargets(members, c))

\* create_room: the parent group holds only the authenticated creator.
CreateRoomAccepted(s, c) ==
    /\ s.room.head_sequence = 0
    /\ SequenceAvailable(s)
    /\ ~c.external
    /\ apply_commit(s, {c.committer}, c)
    /\ validate_room_accounts(c.members)

\* submit_commit_for_device, with the checks in the order of the code.
MlsCommitOutcome(s, c, expected_epoch) ==
    IF ~device_is_active(s, c.committer) THEN "PolicyRejected"
    ELSE IF expected_epoch # s.room.epoch
         THEN IF find_commit(s, expected_epoch, c) THEN "AlreadyAccepted" ELSE "StaleEpoch"
    ELSE IF ~apply_commit(s, s.room.members, c) THEN "PolicyRejected"
    ELSE IF ~c.external /\ requires_rejoin(s, c.committer) THEN "RejoinRequired"
    ELSE IF ~validate_room_accounts(c.members) THEN "PolicyRejected"
    ELSE IF /\ SequenceAvailable(s)
            /\ ReconciliationPossible(s, CommitRoom(s, c).required_devices)
         THEN "Accepted" ELSE "Err"

\* Mutant: the epoch of the ciphertext is not compared with the room's.
SubmitAnyEpoch(s, d, id, epoch, ct) ==
    IF ~device_is_active(s, d) THEN "RevocationPending"
    ELSE IF id \in DOMAIN s.event_ids
         THEN IF application_retry(s, id, epoch, ct) THEN "AlreadyStored" ELSE "Err"
    ELSE IF requires_rejoin(s, d) THEN "RejoinRequired"
    ELSE IF s.room.revocation_pending THEN "RevocationPending"
    ELSE IF SequenceAvailable(s) THEN "Stored" ELSE "Err"

\* submit_application_for_device_with_event, in the order of the code.
MlsSubmitOutcome(s, d, id, epoch, ct) ==
    IF ~device_is_active(s, d) THEN "RevocationPending"
    ELSE IF id \in DOMAIN s.event_ids
         THEN IF application_retry(s, id, epoch, ct) THEN "AlreadyStored" ELSE "Err"
    ELSE IF requires_rejoin(s, d) THEN "RejoinRequired"
    ELSE IF s.room.revocation_pending THEN "RevocationPending"
    ELSE IF epoch # s.room.epoch THEN "StaleEpochNotStored"
    ELSE IF SequenceAvailable(s) THEN "Stored" ELSE "Err"

\* put_roster with the checkpoint it replaces: one account's devices change,
\* no account is left without a device, and the revision does not overflow.
PutRosterValid(s, active) ==
    /\ s.global.revision < MaxRevision
    /\ \E a \in Accounts :
         /\ \A d \in Devices : AccountOf[d] # a => (d \in active <=> d \in s.global.active)
         /\ \E d \in active : AccountOf[d] = a

\* Mutant: a removal shrinks required_devices without setting revocation_pending.
PutRosterNotPending(s, active) ==
    LET removed == s.global.active \ active
        global == [s.global EXCEPT !.active = active, !.revision = @ + 1]
        room == [s.room EXCEPT !.required_devices = @ \ removed]
    IN  replace_global_and_rooms(s, global,
            IF removed \cap s.room.members = {} THEN {} ELSE {room})

put_roster(s, active) ==
    LET removed == s.global.active \ active
        global == [s.global EXCEPT !.active = active, !.revision = @ + 1]
        room == [s.room EXCEPT !.revocation_pending = TRUE,
                               !.required_devices = @ \ removed]
    IN  replace_global_and_rooms(s, global,
            IF removed \cap s.room.members = {} THEN {} ELSE {room})

\* cleanup: one batch of events, if any is due, and one of Welcome targets.
CleanupDelta(s, cutoff, targets) ==
    IF PruneDue(s, cutoff)
    THEN [plan_prune_room(s, cutoff, BatchLimit) EXCEPT !.deleted_welcome_targets = targets]
    ELSE [StateDelta EXCEPT !.deleted_welcome_targets = targets]

WelcomeBatch(s, cutoff, targets) ==
    LET due == WelcomeTargetsDue(s, cutoff)
    IN  /\ targets \subseteq due
        /\ Cardinality(targets) = IF Cardinality(due) < BatchLimit
                                  THEN Cardinality(due) ELSE BatchLimit
=============================================================================
