----------------------------- MODULE MlsClient -----------------------------
(***************************************************************************)
(* What one installation keeps on disk for an encrypted room it has joined *)
(* (PersistentClient in crates/mls/src/persistent.rs): the MLS group, the  *)
(* delivery cursor, the delivery marker, the outbox, the opened incoming   *)
(* events and the dispatches the UI has not acknowledged.  The group and   *)
(* the application records live in separate tables and are written by      *)
(* separate transactions, so an operation is the sequence of stores its    *)
(* transactions produce: a crash leaves any of them.                       *)
(*                                                                         *)
(* A ciphertext is [by, epoch, generation, event_id]: the sender's key for *)
(* a message is fixed by its epoch and its ratchet generation.  Optional   *)
(* values are sets with at most one element.                               *)
(***************************************************************************)
EXTENDS MlsStore, Sequences, SequencesExt

CONSTANTS Me,         \* the device
          Malformed   \* the events whose payload validate_event refuses

ASSUME MeAssumption == Me \in Devices /\ Malformed \subseteq EventIds

(***************************************************************************)
(* The MLS group (crates/mls-rs/src/group).                                *)
(***************************************************************************)
Group(epoch, members) == [epoch |-> epoch, members |-> members, pending |-> {},
                          generation |-> 0, opened |-> {}]

encrypt_application_message(g, id) ==
    [by |-> Me, epoch |-> g.epoch, generation |-> g.generation, event_id |-> id]

\* A commit is applied when it is the pending one or another member's at this
\* epoch, and removes no leaf of a device in the installed rosters.  The
\* group's own commit is unknown to it once the pending one is cleared, and an
\* external commit of this device removes the group's leaf and leaves its
\* epoch as it is: process_delivery refuses both.
CommitApplies(g, e, active) ==
    /\ e.parent_epoch = g.epoch
    /\ \/ e.commit \in g.pending
       \/ /\ e.commit.committer # Me
          /\ (g.members \ e.commit.members) \cap active = {}

\* The secret tree opens a ciphertext of another member once.
Opens(g, ct) == ct.epoch = g.epoch /\ ct.by # Me /\ ct \notin g.opened

(***************************************************************************)
(* The records.                                                            *)
(***************************************************************************)
OutboxEntry(id) == [event_id |-> id, state |-> "PendingEncryption", ciphertext |-> {},
                    sequence |-> 0, dispatch_queued |-> FALSE]

PersistentClient(group, cursor) ==
    [group |-> group, cursor |-> cursor, marker |-> {}, outbox |-> <<>>,
     incoming |-> Empty, dispatches |-> {}]

IsClientStore(s) ==
    /\ s.group.epoch \in Nat /\ s.group.generation \in Nat /\ s.cursor \in Nat
    /\ Cardinality(s.group.pending) <= 1 /\ Cardinality(s.marker) <= 1
    /\ \A i \in DOMAIN s.outbox :
         CASE s.outbox[i].state = "PendingEncryption" -> s.outbox[i].ciphertext = {}
           [] s.outbox[i].state = "PendingDelivery" -> Cardinality(s.outbox[i].ciphertext) = 1
           [] s.outbox[i].state = "Delivered" -> s.outbox[i].sequence > 0
    /\ DOMAIN s.incoming \subseteq EventIds
    /\ s.dispatches \subseteq 1..s.cursor

\* The outcome of an operation: the stores its transactions write, in order.
Outcome(kind, writes) == [kind |-> kind, writes |-> writes]

Err == Outcome("Err", <<>>)

set_cursor(s, sequence) == [s EXCEPT !.cursor = sequence]

set_cursor_with_dispatch(s, sequence) ==
    [s EXCEPT !.cursor = sequence, !.dispatches = @ \cup {sequence}]

(***************************************************************************)
(* The outbox.                                                             *)
(***************************************************************************)
\* The event id is fresh (random_event_id), so it is never refused.
queue_outgoing(s, id) == << [s EXCEPT !.outbox = Append(@, OutboxEntry(id))] >>

\* Mutant: the entry is stored before the ratchet is.
EncryptEntryFirst(s, i) ==
    LET ct == encrypt_application_message(s.group, s.outbox[i].event_id)
        stored == [s EXCEPT !.outbox[i].state = "PendingDelivery", !.outbox[i].ciphertext = {ct}]
    IN  << stored, [stored EXCEPT !.group.generation = @ + 1] >>

\* For a PendingEncryption entry of a group without a pending commit.
encrypt_outgoing(s, i) ==
    LET ct == encrypt_application_message(s.group, s.outbox[i].event_id)
        ratcheted == [s EXCEPT !.group.generation = @ + 1]
    IN  << ratcheted, [ratcheted EXCEPT !.outbox[i].state = "PendingDelivery",
                                        !.outbox[i].ciphertext = {ct}] >>

MarkRefused(s, i, sequence) ==
    LET o == s.outbox[i]
    IN  \/ o.state = "PendingEncryption"
        \/ o.state = "Delivered" /\ o.sequence # sequence
        \/ o.dispatch_queued /\ s.cursor < sequence
        \/ ~o.dispatch_queued /\ s.cursor >= sequence

AtOrderedHead(s, sequence) == s.cursor + 1 = sequence

\* Mutant: the dispatch is queued although the cursor is behind the event.
MarkDispatchesAhead(s, i, sequence) ==
    LET head == AtOrderedHead(s, sequence)
        marked == [s EXCEPT !.outbox[i].state = "Delivered",
                            !.outbox[i].sequence = sequence,
                            !.outbox[i].dispatch_queued = @ \/ head,
                            !.dispatches = @ \cup {sequence}]
    IN  IF MarkRefused(s, i, sequence) THEN Err
        ELSE Outcome("Outgoing", << IF head THEN set_cursor(marked, sequence) ELSE marked >>)

mark_outgoing_delivered(s, i, sequence) ==
    LET head == AtOrderedHead(s, sequence)
        marked == [s EXCEPT !.outbox[i].state = "Delivered",
                            !.outbox[i].sequence = sequence,
                            !.outbox[i].dispatch_queued = @ \/ head]
    IN  IF MarkRefused(s, i, sequence) THEN Err
        ELSE Outcome("Outgoing",
               << IF head THEN set_cursor_with_dispatch(marked, sequence) ELSE marked >>)

\* Mutant: a delayed response resets a ciphertext made for the epoch it names.
RetryAnyEpoch(s, i, current_epoch) ==
    IF s.outbox[i].state = "PendingDelivery"
    THEN << [s EXCEPT !.outbox[i].state = "PendingEncryption", !.outbox[i].ciphertext = {}] >>
    ELSE <<>>

retry_stale_outgoing(s, i, current_epoch) ==
    IF s.outbox[i].state = "PendingDelivery"
         /\ \A ct \in s.outbox[i].ciphertext : ct.epoch < current_epoch
    THEN << [s EXCEPT !.outbox[i].state = "PendingEncryption", !.outbox[i].ciphertext = {}] >>
    ELSE <<>>

(***************************************************************************)
(* process_delivery: one event of the ordered stream.                      *)
(***************************************************************************)
\* The outbox entries this application is the delivery of.
OwnDelivery(s, e) ==
    {i \in DOMAIN s.outbox :
        /\ s.outbox[i].event_id = e.event_id
        /\ s.outbox[i].ciphertext = {e.ciphertext}
        /\ \/ s.outbox[i].state = "PendingDelivery"
           \/ s.outbox[i].state = "Delivered" /\ s.outbox[i].sequence = e.sequence}

\* The MLS group refuses the message: it was processed before a crash that hid
\* the cursor, or it is an application nobody can open.
Recover(s, e) ==
    IF e \in s.marker /\ IsCommit(e) /\ s.group.epoch = e.epoch
    THEN Outcome("Commit", << set_cursor(s, e.sequence) >>)
    ELSE IF IsCommit(e) THEN Err
    ELSE IF e \notin s.marker THEN Outcome("RejectedApplication", << set_cursor(s, e.sequence) >>)
    ELSE IF e.event_id \notin DOMAIN s.incoming
         THEN Outcome("AlreadyProcessed", << set_cursor(s, e.sequence) >>)
    ELSE IF s.incoming[e.event_id] # e.sequence THEN Err
    ELSE Outcome("Application", << set_cursor_with_dispatch(s, e.sequence) >>)

\* Mutant: the marker is stored after the group.
ApplyCommitMarkerLast(s, e) ==
    LET grouped == [s EXCEPT !.group = Group(e.epoch, e.commit.members)]
        marked == [grouped EXCEPT !.marker = {e}]
    IN  << grouped, marked, set_cursor(marked, e.sequence) >>

ApplyCommit(s, e) ==
    LET marked == [s EXCEPT !.marker = {e}]
        grouped == [marked EXCEPT !.group = Group(e.epoch, e.commit.members)]
    IN  << marked, grouped, set_cursor(grouped, e.sequence) >>

\* Mutant: the cursor and the UI dispatch are two transactions.
OpenApplicationTwoWrites(s, e) ==
    LET cached == IF e.event_id \in Malformed THEN s
                  ELSE [s EXCEPT !.incoming = With(@, Entry(e.event_id, e.sequence))]
        marked == [cached EXCEPT !.marker = {e}]
        opened == [marked EXCEPT !.group.opened = @ \cup {e.ciphertext}]
    IN  << cached, marked, opened, set_cursor(opened, e.sequence),
           IF e.event_id \in Malformed THEN set_cursor(opened, e.sequence)
           ELSE set_cursor_with_dispatch(opened, e.sequence) >>

OpenApplication(s, e) ==
    LET cached == IF e.event_id \in Malformed THEN s
                  ELSE [s EXCEPT !.incoming = With(@, Entry(e.event_id, e.sequence))]
        marked == [cached EXCEPT !.marker = {e}]
        opened == [marked EXCEPT !.group.opened = @ \cup {e.ciphertext}]
    IN  << cached, marked, opened,
           IF e.event_id \in Malformed THEN set_cursor(opened, e.sequence)
           ELSE set_cursor_with_dispatch(opened, e.sequence) >>

process_delivery(s, e, active) ==
    IF e.sequence <= s.cursor THEN Outcome("AlreadyProcessed", <<>>)
    ELSE IF e.sequence # s.cursor + 1 THEN Err
    ELSE IF IsCommit(e)
         THEN IF CommitApplies(s.group, e, active) THEN Outcome("Commit", ApplyCommit(s, e))
              ELSE Recover(s, e)
    ELSE IF e.epoch # s.group.epoch THEN Err
    ELSE IF OwnDelivery(s, e) # {}
         THEN mark_outgoing_delivered(s, CHOOSE i \in OwnDelivery(s, e) : TRUE, e.sequence)
    ELSE IF Opens(s.group, e.ciphertext)
         THEN Outcome(IF e.event_id \in Malformed THEN "RejectedApplication" ELSE "Application",
                      OpenApplication(s, e))
    ELSE Recover(s, e)

(***************************************************************************)
(* Commits of this device.                                                 *)
(***************************************************************************)
\* Leaves of inactive devices, except the last leaf of an account.
Removals(members, active) ==
    LET leaves(a) == {d \in members : AccountOf[d] = a}
        kept(a) == CHOOSE d \in leaves(a) : leaves(a) \cap active # {} => d \in active
    IN  {d \in members \ active : d # kept(AccountOf[d])}

\* The commit to submit, if any.
prepare_revocation_commit(s, active) ==
    LET removals == Removals(s.group.members, active)
    IN  IF s.group.pending # {} \/ removals = {} THEN {}
        ELSE {[committer |-> Me, members |-> s.group.members \ removals, external |-> FALSE]}

StorePending(s, c) == << [s EXCEPT !.group.pending = {c}] >>

reject_pending_commit(s) == << [s EXCEPT !.group.pending = {}] >>

external_commit(members) ==
    [committer |-> Me, members |-> members \cup {Me}, external |-> TRUE]

accept_external_rejoin(s, g, sequence) ==
    LET joined == [s EXCEPT !.group = g]
    IN  IF sequence <= s.cursor THEN Err
        ELSE Outcome("Rejoined", << joined, set_cursor(joined, sequence) >>)
=============================================================================
