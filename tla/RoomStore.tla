----------------------------- MODULE RoomStore -----------------------------
(***************************************************************************)
(* The history of one durable chat room (crates/server/src/room_store.rs,  *)
(* room_state.rs, history_reader.rs and their callers in lib.rs): the      *)
(* event loop accepts messages and serves pages, the log writer appends    *)
(* and rotates the room's log, the state writer makes message-id           *)
(* reservations durable and the history reader reads old pages from disk.  *)
(*                                                                         *)
(* A message is its id.  Log sizes are counted in records, None is 0, and  *)
(* a fetch without a bound is one before MaxId + 1.  A file is the ids of  *)
(* its records and whether a torn record follows them; files are numbered  *)
(* like inodes, and a handle keeps its file when the file is renamed.      *)
(***************************************************************************)
EXTENDS Integers, Sequences, SequencesExt, FiniteSetsExt

CONSTANTS MaxId,        \* bound on the ids of a behaviour
          MaxMessages,  \* bound on the messages of a behaviour
          Reserve,      \* MESSAGE_ID_RESERVE
          MaxActive,    \* max_active_log_bytes
          MaxResident,  \* max_resident_messages
          Capacity,     \* LOG_WRITE_QUEUE_CAPACITY
          PageLimit,    \* messages per fetched page
          Faults        \* what can fail: the process, opening or cloning a
                        \* file, writing a record, renaming a log, the database

ASSUME BoundsAssumption ==
    {MaxId, MaxMessages, Reserve, MaxActive, MaxResident, Capacity, PageLimit}
        \subseteq Nat \ {0}
ASSUME FaultsAssumption == Faults \subseteq {"kill", "open", "write", "rename", "state"}

VARIABLES phase,      \* "up", "killed" or "stopped"
          next_id, watermark,          \* the loop's ids and its reservation
          queued, writing, durable,    \* reservations submitted, being written, on disk
          closed,     \* StateWriteSubmission: the writer failed
          resident,   \* the resident history, oldest first
          mirror,     \* the loop's picture of the log: Retention::Durable
          pending,    \* pending_log_writes
          requests, events,  \* to and from the log writer
          worker,     \* the log writer and what it is doing
          files, active, names,  \* the directory: the log and the segments
          fetch,      \* the page being served
          accepted,   \* history: the messages broadcast and not lost to a crash
          lost,       \* history: those whose record was not written
          published   \* history: every id handed out with a message

ids == <<next_id, watermark>>
state_writer == <<queued, writing, durable, closed>>
channel == <<requests, events>>
disk == <<files, active, names>>
past == <<accepted, lost, published>>
vars == <<phase, ids, state_writer, resident, mirror, pending, channel, worker, disk,
          fetch, past>>

None == 0

Larger(m, n) == IF m > n THEN m ELSE n

Ok(fault) == IF fault \in Faults THEN BOOLEAN ELSE {TRUE}

NewFile == [ids |-> <<>>, torn |-> FALSE]

Named(f, x, v) == [y \in DOMAIN f \cup {x} |-> IF y = x THEN v ELSE f[y]]

trim_to_limit(s) == SubSeq(s, Larger(1, Len(s) - MaxResident + 1), Len(s))

Newest(S, n) == {i \in S : Cardinality({j \in S : j > i}) < n}

Init ==
    /\ phase = "up"
    /\ next_id = 1 /\ watermark = 0
    /\ queued = 0 /\ writing = 0 /\ durable = 0 /\ closed = FALSE
    /\ resident = <<>>
    /\ pending = 0
    /\ requests = <<>> /\ events = <<>>
    /\ names = [x \in {} |-> 0]
    /\ \E opened \in BOOLEAN :   \* a configured room, or a direct-message room
         LET file == IF opened THEN "open" ELSE "reopen"
             inode == IF opened THEN 1 ELSE None
         IN  /\ files = IF opened THEN <<NewFile>> ELSE <<>>
             /\ active = inode
             /\ mirror = [file |-> file, inode |-> inode, bytes |-> 0, first |-> None,
                          segments |-> <<>>]
             /\ worker = [at |-> "idle", file |-> file, inode |-> inode, needs |-> ~opened,
                          bytes |-> 0, first |-> None, update |-> "keep", rotated |-> None]
    /\ fetch = [at |-> "idle"]
    /\ accepted = {} /\ lost = {} /\ published = <<>>

(***************************************************************************)
(* Message ids.                                                            *)
(***************************************************************************)
next_multiple_of(n, k) == ((n + k - 1) \div k) * k

allocate_message_id ==
    LET w == next_multiple_of(next_id + 1 + Reserve, Reserve)
    IN  /\ next_id <= MaxId /\ Len(published) < MaxMessages
        /\ next_id' = next_id + 1
        /\ IF next_id + Reserve \div 2 >= watermark
           THEN /\ watermark' = w
                /\ queued' = IF closed THEN queued ELSE Larger(queued, w)
           ELSE UNCHANGED <<watermark, queued>>
        /\ UNCHANGED <<writing, durable, closed>>

StateReceive ==
    /\ phase = "up" /\ ~closed /\ writing = 0 /\ queued # 0
    /\ writing' = queued
    /\ queued' = 0
    /\ UNCHANGED <<phase, ids, durable, closed, resident, mirror, pending, channel, worker,
                   disk, fetch, past>>

persist ==
    /\ phase = "up" /\ writing # 0
    /\ durable' = Larger(durable, writing)
    /\ writing' = 0
    /\ UNCHANGED <<phase, ids, queued, closed, resident, mirror, pending, channel, worker,
                   disk, fetch, past>>

terminate ==
    /\ "state" \in Faults
    /\ phase = "up" /\ writing # 0
    /\ closed' = TRUE
    /\ queued' = 0 /\ writing' = 0
    /\ UNCHANGED <<phase, ids, durable, resident, mirror, pending, channel, worker, disk,
                   fetch, past>>

(***************************************************************************)
(* Sending a message: allocate_message_id, try_append and the broadcast.   *)
(***************************************************************************)
Broadcast ==
    /\ accepted' = accepted \cup {next_id}
    /\ published' = Append(published, [id |-> next_id, reserved |-> next_id < durable])

SendChat ==
    /\ phase = "up"
    /\ allocate_message_id
    /\ mirror.file # "disabled"
    /\ Len(requests) < Capacity
    /\ resident' = Append(resident, next_id)
    /\ requests' = Append(requests, next_id)
    /\ pending' = pending + 1
    /\ Broadcast
    /\ UNCHANGED <<phase, mirror, events, worker, disk, fetch, lost>>

\* The writer's queue is full: the message is refused, its id is not reused.
SendDeferred ==
    /\ phase = "up"
    /\ allocate_message_id
    /\ mirror.file # "disabled"
    /\ Len(requests) = Capacity
    /\ UNCHANGED <<phase, resident, mirror, pending, channel, worker, disk, fetch, past>>

\* rotate_log on the event loop.
rotate_log ==
    \/ /\ "rename" \in Faults \/ active = None
       /\ UNCHANGED <<mirror, disk>>
    \/ /\ active # None
       /\ names' = Named(names, mirror.first, active)
       /\ \E opened \in Ok("open") :
            LET inode == IF opened THEN Len(files) + 1 ELSE None
            IN  /\ files' = IF opened THEN Append(files, NewFile) ELSE files
                /\ active' = inode
                /\ mirror' = [file |-> IF opened THEN "open" ELSE "reopen", inode |-> inode,
                              bytes |-> 0, first |-> None,
                              segments |-> Append(mirror.segments, mirror.first)]

\* The log is disabled: try_append skips the writer.
SendUnlogged ==
    /\ phase = "up"
    /\ allocate_message_id
    /\ mirror.file = "disabled"
    /\ IF mirror.bytes > MaxActive /\ mirror.first # None
       THEN rotate_log ELSE UNCHANGED <<mirror, disk>>
    /\ resident' = trim_to_limit(Append(resident, next_id))
    /\ Broadcast
    /\ lost' = lost \cup {next_id}
    /\ UNCHANGED <<phase, pending, channel, worker, fetch>>

(***************************************************************************)
(* room_log_worker: write the record, rotate the log, report to the loop.  *)
(***************************************************************************)
WorkerAppend ==
    /\ phase = "up" /\ worker.at = "idle" /\ requests # <<>>
    /\ requests' = Tail(requests)
    /\ \E opened, cloned \in Ok("open"),
          wrote \in IF "write" \in Faults THEN {"ok", "oversized", "torn", "failed"} ELSE {"ok"} :
         LET id == Head(requests)
             opens == worker.file = "reopen" /\ opened
             create == opens /\ active = None
             inode == IF opens THEN (IF create THEN Len(files) + 1 ELSE active) ELSE worker.inode
             open == opens \/ worker.file = "open"
             needs == opens \/ worker.needs
             all == IF create THEN Append(files, NewFile) ELSE files
             broken == open /\ wrote \in {"torn", "failed"}
             written == open /\ wrote = "ok"
         IN  /\ active' = IF create THEN inode ELSE active
             /\ files' = IF written THEN [all EXCEPT ![inode].ids = Append(@, id)]
                         ELSE IF open /\ wrote = "torn" THEN [all EXCEPT ![inode].torn = TRUE]
                         ELSE all
             /\ worker' = [at |-> "written",
                           file |-> IF broken THEN "disabled" ELSE IF open THEN "open"
                                    ELSE worker.file,
                           inode |-> inode,
                           needs |-> needs /\ ~(open /\ cloned),
                           bytes |-> IF written THEN worker.bytes + 1 ELSE worker.bytes,
                           first |-> IF written /\ worker.bytes = 0 THEN id ELSE worker.first,
                           update |-> IF broken THEN "disabled"
                                      ELSE IF ~(needs /\ open) THEN "keep"
                                      ELSE IF cloned THEN "open" ELSE "reopen",
                           rotated |-> None]
             /\ lost' = IF written THEN lost ELSE lost \cup {id}
    /\ UNCHANGED <<phase, ids, state_writer, resident, mirror, pending, events, names, fetch,
                   accepted, published>>

RoomLogEvent(w) == [bytes |-> w.bytes, first |-> w.first, rotated |-> w.rotated,
                    file |-> w.update, inode |-> w.inode]

Report(w) ==
    /\ worker' = [w EXCEPT !.at = "idle", !.update = "keep", !.rotated = None]
    /\ events' = Append(events, RoomLogEvent(w))

RotationDue == worker.bytes > MaxActive /\ worker.first # None /\ worker.file = "open"

WorkerRotate ==
    /\ phase = "up" /\ worker.at = "written"
    /\ \/ /\ ~RotationDue \/ "rename" \in Faults
          /\ Report(worker)
          /\ UNCHANGED disk
       \/ /\ RotationDue
          /\ names' = Named(names, worker.first, active)
          /\ active' = None
          /\ worker' = [worker EXCEPT !.at = "renamed", !.rotated = worker.first,
                                      !.bytes = 0, !.first = None]
          /\ UNCHANGED <<files, events>>
    /\ UNCHANGED <<phase, ids, state_writer, resident, mirror, pending, requests, fetch, past>>

WorkerReopen ==
    /\ phase = "up" /\ worker.at = "renamed"
    /\ \E opened, cloned \in Ok("open") :
         IF opened
         THEN /\ files' = Append(files, NewFile)
              /\ active' = Len(files) + 1
              /\ Report([worker EXCEPT !.inode = Len(files) + 1, !.needs = ~cloned,
                                       !.update = IF cloned THEN "open" ELSE "reopen"])
         ELSE /\ Report([worker EXCEPT !.file = "reopen", !.inode = None, !.needs = TRUE,
                                       !.update = "reopen"])
              /\ UNCHANGED <<files, active>>
    /\ UNCHANGED <<phase, ids, state_writer, resident, mirror, pending, requests, names, fetch,
                   past>>

\* Mutant: a completed write is not taken off the count.
PendingKept == pending

PendingLeft == pending - 1

\* Mutant: the window is trimmed while records are still on their way to the log.
AlwaysTrim == TRUE

TrimDue == PendingLeft = 0

\* The loop's picture of the log after an event; a disabled log stays as it is.
Observed(e) ==
    IF mirror.file = "disabled" THEN mirror
    ELSE [file |-> IF e.file = "keep" THEN mirror.file ELSE e.file,
          inode |-> IF e.file = "open" THEN e.inode ELSE mirror.inode,
          bytes |-> e.bytes, first |-> e.first,
          segments |-> IF e.rotated = None THEN mirror.segments
                       ELSE Append(mirror.segments, e.rotated)]

\* drain_log_events, one event at a time: its batches may end anywhere.
drain_log_events ==
    /\ phase = "up" /\ events # <<>>
    /\ events' = Tail(events)
    /\ pending' = PendingLeft
    /\ mirror' = Observed(Head(events))
    /\ resident' = IF TrimDue THEN trim_to_limit(resident) ELSE resident
    /\ UNCHANGED <<phase, ids, state_writer, requests, worker, disk, fetch, past>>

(***************************************************************************)
(* Serving a page.  One fetch is outstanding at a time, a resident page    *)
(* goes out one message per chunk, newest first, and got is what the       *)
(* client has received of it.                                              *)
(***************************************************************************)
oldest_durable_id == IF mirror.segments # <<>> THEN mirror.segments[1] ELSE mirror.first

has_unresident_history ==
    /\ oldest_durable_id # None
    /\ resident = <<>> \/ oldest_durable_id < resident[1]

\* disk_fetch_request returns a request only if something older is on disk.
OlderOnDisk(before) == oldest_durable_id # None /\ oldest_durable_id < before

\* Mutant: the active log is left out.
DiskRequestSkipsActive(before) ==
    LET older == SelectSeq(Reverse(mirror.segments), LAMBDA f : f < before)
    IN  [i \in 1..Len(older) |-> [segment |-> older[i]]]

\* Mutant: the newest record of the active log is left out.
DiskRequestShort(before) ==
    LET older == SelectSeq(Reverse(mirror.segments), LAMBDA f : f < before)
        paths == [i \in 1..Len(older) |-> [segment |-> older[i]]]
    IN  IF mirror.first = None \/ mirror.first >= before THEN paths
        ELSE IF mirror.file = "open"
        THEN <<[inode |-> mirror.inode, valid |-> mirror.bytes - 1]>> \o paths
        ELSE <<>>

\* The sources of the request, newest first: none when the active log is needed
\* and cannot be read.
disk_fetch_request(before) ==
    LET older == SelectSeq(Reverse(mirror.segments), LAMBDA f : f < before)
        paths == [i \in 1..Len(older) |-> [segment |-> older[i]]]
    IN  IF mirror.first = None \/ mirror.first >= before THEN paths
        ELSE IF mirror.file = "open"
        THEN <<[inode |-> mirror.inode, valid |-> mirror.bytes]>> \o paths
        ELSE <<>>

\* Mutant: the request is dropped without a terminal chunk.
DropFetch(f) == [f EXCEPT !.at = "idle"]

send_empty_history_chunk(f) == [f EXCEPT !.at = "done"]

\* A fetch that needs the disk: queued, refused, or without anything to read.
EnqueueDiskFetch(f, before, limit) ==
    \/ /\ OlderOnDisk(before)
       /\ fetch' = [f EXCEPT !.at = "disk", !.bound = before, !.limit = limit,
                             !.sources = disk_fetch_request(before),
                             !.oldest = oldest_durable_id]
    \/ fetch' = send_empty_history_chunk(f)

history_fetch_plan_before(before) ==
    Newest({i \in Range(resident) : i < before}, PageLimit)

\* Mutant: the disk is not considered.
PlanAtStartResident(page) == page = {} \/ resident[1] \in page

\* Nothing resident is older, and nothing on disk; an empty plan is delivered
\* only when disk_fetch_request has nothing either.
PlanAtStart(page) == page = {} \/ (resident[1] \in page /\ ~has_unresident_history)

fetch_history(before) ==
    /\ phase = "up" /\ fetch.at \in {"idle", "done"}
    /\ LET page == history_fetch_plan_before(before)
           f == [at |-> "resident", before |-> before, bound |-> before, limit |-> PageLimit,
                 plan |-> Reverse(SetToSortSeq(page, <)), sources |-> <<>>, oldest |-> None,
                 got |-> {}, at_start |-> PlanAtStart(page),
                 head |-> Max(accepted \cup {0})]
       IN  \/ fetch' = send_empty_history_chunk([f EXCEPT !.plan = <<>>, !.at_start = FALSE])
           \/ /\ page # {} \/ ~OlderOnDisk(before)
              /\ fetch' = f
           \/ /\ page = {} /\ OlderOnDisk(before)
              /\ EnqueueDiskFetch([f EXCEPT !.at_start = FALSE], before, PageLimit)
    /\ UNCHANGED <<phase, ids, state_writer, resident, mirror, pending, channel, worker, disk,
                   past>>

\* process_history_deliveries for a resident page: send its next chunk, or
\* read what was trimmed in the meantime (resume_after) from disk.
process_history_deliveries ==
    /\ phase = "up" /\ fetch.at = "resident"
    /\ IF fetch.plan = <<>>
       THEN fetch' = [fetch EXCEPT !.at = "done"]
       ELSE IF Head(fetch.plan) \in Range(resident)
       THEN fetch' = [fetch EXCEPT !.got = @ \cup {Head(fetch.plan)}, !.plan = Tail(@),
                                   !.at = IF Len(fetch.plan) = 1 THEN "done" ELSE "resident"]
       ELSE EnqueueDiskFetch([fetch EXCEPT !.at_start = FALSE, !.plan = <<>>],
                             IF fetch.got = {} THEN fetch.before ELSE Min(fetch.got),
                             Len(fetch.plan))
    /\ UNCHANGED <<phase, ids, state_writer, resident, mirror, pending, channel, worker, disk,
                   past>>

\* scan_records_before: the records of a source below the bound, or Corrupt.
Corrupt == {None}

scan_records_before(source, before) ==
    IF "valid" \in DOMAIN source
    THEN {i \in Range(SubSeq(files[source.inode].ids, 1, source.valid)) : i < before}
    ELSE LET file == files[names[source.segment]]
         IN  IF file.torn /\ \A i \in Range(file.ids) : i < before
             THEN Corrupt ELSE {i \in Range(file.ids) : i < before}

select_records(sources, before, limit) ==
    LET Step(page, source) ==
            LET run == scan_records_before(source, before)
            IN  IF page.over \/ Cardinality(page.ids) >= limit THEN page
                ELSE IF run = Corrupt THEN [page EXCEPT !.over = TRUE]
                ELSE [page EXCEPT !.ids = @ \cup run]
    IN  Newest(FoldLeft(Step, [ids |-> {}, over |-> FALSE], sources).ids, limit)

\* The history reader's thread, and the delivery of the page it encoded.
execute ==
    /\ phase = "up" /\ fetch.at = "disk"
    /\ LET page == select_records(fetch.sources, fetch.bound, fetch.limit)
       IN  fetch' = [fetch EXCEPT !.got = @ \cup page, !.at = "done", !.sources = <<>>,
                                  !.at_start = page # {} /\ Min(page) = fetch.oldest]
    /\ UNCHANGED <<phase, ids, state_writer, resident, mirror, pending, channel, worker, disk,
                   past>>

(***************************************************************************)
(* The end of the process, and the next start.                             *)
(***************************************************************************)
\* The process dies; a record may be half written.
Kill ==
    /\ "kill" \in Faults
    /\ phase = "up"
    /\ phase' = "killed"
    /\ \/ UNCHANGED files
       \/ /\ worker.at = "idle" /\ requests # <<>> /\ worker.file = "open"
          /\ files' = [files EXCEPT ![worker.inode].torn = TRUE]
    /\ UNCHANGED <<ids, state_writer, resident, mirror, pending, channel, worker, active, names,
                   fetch, past>>

\* Mutant: the log writer is not joined when the store is dropped.
ShutdownAbandonsWriter ==
    /\ phase = "up"
    /\ closed \/ (queued = 0 /\ writing = 0)
    /\ phase' = "stopped"
    /\ UNCHANGED <<ids, state_writer, resident, mirror, pending, channel, worker, disk, fetch,
                   past>>

\* The server returns, of its own accord or because the state writer failed:
\* both writers finish what they were given.
Shutdown ==
    /\ phase = "up"
    /\ requests = <<>> /\ worker.at = "idle"
    /\ closed \/ (queued = 0 /\ writing = 0)
    /\ phase' = "stopped"
    /\ UNCHANGED <<ids, state_writer, resident, mirror, pending, channel, worker, disk, fetch,
                   past>>

\* Mutant: a reservation does not raise the next id.
NextIdFromLog(last) == last + 1

\* Mutant: the last logged id is given out again.
NextIdAtLast(last) == Larger(Larger(1, durable), last)

RecoveredNextId(last) == Larger(Larger(1, durable), last + 1)

list_segments == SetToSortSeq(DOMAIN names, <)

LoggedIds == FlattenSeq([i \in 1..Len(list_segments) |-> files[names[list_segments[i]]].ids])
                \o (IF active = None THEN <<>> ELSE files[active].ids)

LastLogged == IF LoggedIds = <<>> THEN 0 ELSE Last(LoggedIds)

\* try_open and enable_async_log_writes: a torn tail is cut off, and a log
\* that cannot be repaired or opened is disabled.
open_durable ==
    /\ phase # "up"
    /\ phase' = "up"
    /\ \E repaired, opens \in Ok("open") :
         LET usable == opens /\ (repaired \/ active = None \/ ~files[active].torn)
             create == usable /\ active = None
             inode == IF create THEN Len(files) + 1 ELSE IF usable THEN active ELSE None
             log == IF active = None THEN <<>> ELSE files[active].ids
             first == IF log = <<>> THEN None ELSE log[1]
             opened == IF usable THEN "open" ELSE "disabled"
         IN  /\ files' = IF create THEN Append(files, NewFile)
                         ELSE IF active # None /\ repaired
                         THEN [files EXCEPT ![active].torn = FALSE] ELSE files
             /\ active' = IF create THEN inode ELSE active
             /\ mirror' = [file |-> opened, inode |-> inode, bytes |-> Len(log),
                           first |-> first, segments |-> list_segments]
             /\ worker' = [at |-> "idle", file |-> IF usable THEN "open" ELSE "reopen",
                           inode |-> inode, needs |-> ~usable,
                           bytes |-> IF usable THEN Len(log) ELSE 0,
                           first |-> IF usable THEN first ELSE None,
                           update |-> "keep", rotated |-> None]
    /\ resident' = trim_to_limit(LoggedIds)
    /\ next_id' = RecoveredNextId(LastLogged)
    /\ watermark' = durable
    /\ queued' = 0 /\ writing' = 0 /\ closed' = FALSE
    /\ pending' = 0 /\ requests' = <<>> /\ events' = <<>>
    /\ fetch' = [at |-> "idle"]
    /\ accepted' = Range(LoggedIds) /\ lost' = {}
    /\ UNCHANGED <<durable, names, published>>

\* The ids clients have seen: they page from one of them, or from the end.
Seen == {published[i].id : i \in 1..Len(published)}

Loop == \/ SendChat \/ SendDeferred \/ SendUnlogged
        \/ drain_log_events
        \/ \E before \in Seen \cup {MaxId + 1} : fetch_history(before)
        \/ process_history_deliveries

Writers == WorkerAppend \/ WorkerRotate \/ WorkerReopen \/ StateReceive \/ persist \/ terminate

Next == Loop \/ Writers \/ execute \/ Kill \/ Shutdown \/ open_durable

Spec == Init /\ [][Next]_vars

\* The reader's thread runs, and the loop does not sleep while a delivery is
\* under way (set_background_work).
FairSpec == Spec /\ WF_vars(execute) /\ WF_vars(process_history_deliveries)

(***************************************************************************)
(* Properties.                                                             *)
(***************************************************************************)
Id == 1..MaxId

\* The shapes of the state.
TypeOK ==
    /\ phase \in {"up", "killed", "stopped"}
    /\ next_id \in Nat /\ watermark \in Nat
    /\ queued \in Nat /\ writing \in Nat /\ durable \in Nat /\ closed \in BOOLEAN
    /\ resident \in Seq(Id) /\ requests \in Seq(Id)
    /\ mirror.file \in {"open", "reopen", "disabled"} /\ mirror.segments \in Seq(Id)
    /\ pending = IF phase = "up" THEN Len(requests) + Len(events)
                      + (IF worker.at = "idle" THEN 0 ELSE 1) ELSE pending
    /\ worker.at \in {"idle", "written", "renamed"}
    /\ \A i \in 1..Len(files) : files[i].ids \in Seq(Id) /\ files[i].torn \in BOOLEAN
    /\ active \in 0..Len(files) /\ \A f \in DOMAIN names : names[f] \in 1..Len(files)
    /\ fetch.at \in {"idle", "resident", "disk", "done"}
    /\ accepted \subseteq Id /\ lost \subseteq Id
    /\ LastLogged \in Nat

\* What the loop can read back through its picture of the log.
Readable ==
    UNION {Range(files[names[f]].ids) : f \in Range(mirror.segments)}
        \cup (IF mirror.inode = None THEN {}
              ELSE Range(SubSeq(files[mirror.inode].ids, 1, mirror.bytes)))

\* A message that was broadcast and whose record was written is always resident
\* or in the part of the log the loop knows of: the window is trimmed
\* (drain_log_events) only when the loop has caught up with the log writer.
NothingStranded ==
    phase = "up" /\ mirror.file = "open" => accepted \ lost \subseteq Range(resident) \cup Readable

\* The messages that survive in memory or on disk.
Surviving == accepted \cap (Range(resident) \cup Range(LoggedIds))

\* A served page has no hole: it holds every surviving message between its oldest one
\* and the bound of the request, whatever was trimmed, rotated or written
\* while it was served.  The client's cursor would skip a hole forever
\* (select_records, disk_fetch_request).
PagesContiguous ==
    fetch.at = "done" /\ fetch.got # {} =>
        \A i \in Surviving :
            (Min(fetch.got) < i /\ i < fetch.before /\ i <= fetch.head) => i \in fetch.got

\* A page that claims the start of history leaves nothing older behind: "the
\* true start only when nothing older than `before` survives anywhere"
\* (history_fetch_plan_before).
StartTruthful ==
    fetch.at = "done" /\ fetch.at_start =>
        ~\E i \in Surviving :
            i <= fetch.head /\ i < (IF fetch.got = {} THEN fetch.before ELSE Min(fetch.got))

\* Along the segments and the active log ids strictly ascend, across rotations
\* and restarts: scan_records_before stops at the first id past its bound.
LogAscending ==
    \A i, j \in 1..Len(LoggedIds) : i < j => LoggedIds[i] < LoggedIds[j]

\* An id given to a message while a larger reservation was on disk is never
\* given to another message, whatever is lost in a crash.
ReservedIdsFresh ==
    \A i, j \in 1..Len(published) :
        i < j /\ published[i].reserved => published[j].id # published[i].id

Ids == INSTANCE MessageIds WITH next_id <- next_id, durable <- durable, published <- published

\* The room's ids behave as MessageIds says, whatever its writers, its log and
\* a crash do: every step counts up, raises the watermark on disk, or starts
\* again at or above it (allocate_message_id, persist, open_durable).
ImplementsMessageIds == Ids!Spec

\* An orderly end of the process loses no message whose write did not fail:
\* dropping the store joins the log writer.
ShutdownKeepsMessages == [][phase = "stopped" /\ phase' = "up" => accepted \ lost \subseteq accepted']_vars

\* Every fetch is answered by a terminal chunk while the server runs: "the
\* client has no fetch timeout" (send_empty_history_chunk).
FetchesEnd == (fetch.at \in {"resident", "disk"}) ~> (fetch.at = "done" \/ phase # "up")

\* room_store.rs, module doc: "per-room message-id watermarks (so ids are
\* never reused)".
IdsNeverReused ==
    \A i, j \in 1..Len(published) : i # j => published[i].id # published[j].id

\* room_store.rs, module doc: "durable rooms survive a process crash".
KillKeepsMessages == [][phase = "killed" /\ phase' = "up" => accepted \ lost \subseteq accepted']_vars

\* ActiveLog::Disabled: "the room keeps only resident history for the rest of
\* the process".
DisabledForever ==
    [][phase = "up" /\ phase' = "up" /\ mirror.file = "disabled" => mirror'.file = "disabled"]_vars

\* resume_after: "A trim only happens once the messages are durable, so the
\* remainder is on disk".
TrimmedAreDurable ==
    phase = "up" /\ mirror.file # "disabled" =>
        accepted \subseteq Range(resident) \cup Range(LoggedIds)
=============================================================================
