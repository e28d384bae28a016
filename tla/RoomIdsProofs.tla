--------------------------- MODULE RoomIdsProofs ---------------------------
(***************************************************************************)
(* RoomStore implements MessageIds for every value of its constants: each  *)
(* step of the event loop, of the writers and of a restart is a step of    *)
(* MessageIds or leaves the ids alone.  The ids read back from the log are *)
(* assumed to be naturals.                                                 *)
(***************************************************************************)
EXTENDS RoomStore, TLAPS

\* The counters of the room are naturals.
IdsType == next_id \in Nat /\ durable \in Nat /\ queued \in Nat /\ writing \in Nat

\* allocate_message_id submits a natural watermark.
LEMMA AllocateKeepsType ==
    ASSUME IdsType, allocate_message_id
    PROVE  IdsType' /\ next_id' = next_id + 1 /\ durable' = durable
<1>1. Reserve \in Nat \ {0}
  BY BoundsAssumption
<1>2. next_multiple_of(next_id + 1 + Reserve, Reserve) \in Nat
  BY <1>1 DEF next_multiple_of, IdsType
<1> QED
  BY <1>2 DEF allocate_message_id, IdsType, Larger

\* Sending a message takes an id, and broadcasts it or not.
LEMMA SendTakes ==
    ASSUME IdsType, SendChat \/ SendDeferred \/ SendUnlogged
    PROVE  IdsType' /\ Ids!Take
<1>1. allocate_message_id
  BY DEF SendChat, SendDeferred, SendUnlogged
<1>2. Broadcast \/ UNCHANGED published
  BY DEF SendChat, SendDeferred, SendUnlogged, past
<1> QED
  BY <1>1, <1>2, AllocateKeepsType DEF Broadcast, Ids!Take

\* A restart counts on at or above the watermark on disk (register_room).
LEMMA OpenRestarts ==
    ASSUME IdsType, LastLogged \in Nat, open_durable
    PROVE  IdsType' /\ Ids!Restart
<1>1. /\ next_id' = RecoveredNextId(LastLogged)
      /\ queued' = 0 /\ writing' = 0 /\ UNCHANGED <<durable, published>>
  BY DEF open_durable
<1> QED
  BY <1>1 DEF RecoveredNextId, Larger, IdsType, Ids!Restart

\* Every other step leaves the ids and the history alone, or makes a
\* submitted watermark durable.
LEMMA WritersReserve ==
    ASSUME IdsType, StateReceive \/ persist \/ terminate
    PROVE  IdsType' /\ (Ids!RaiseWatermark \/ UNCHANGED Ids!idVars)
  BY DEF StateReceive, persist, terminate, IdsType, Larger, ids, past, Ids!RaiseWatermark, Ids!idVars

\* The log writer, the history reader, the deliveries and the end of the
\* process do not touch the ids.
LEMMA OthersKeep ==
    ASSUME IdsType,
           \/ drain_log_events \/ (\E before \in Seen \cup {MaxId + 1} : fetch_history(before))
           \/ process_history_deliveries \/ WorkerAppend \/ WorkerRotate \/ WorkerReopen
           \/ execute \/ Kill \/ Shutdown \/ UNCHANGED vars
    PROVE  IdsType' /\ UNCHANGED Ids!idVars
<1>1. UNCHANGED <<next_id, queued, writing, durable, published>>
  BY DEF drain_log_events, fetch_history, process_history_deliveries, WorkerAppend, WorkerRotate,
         WorkerReopen, execute, Kill, Shutdown, vars, ids, state_writer, past
<1> QED
  BY <1>1 DEF IdsType, Ids!idVars

\* The room's ids behave as MessageIds says (allocate_message_id, persist,
\* open_durable), if what the log holds are ids.
THEOREM RoomImplementsIds == Spec /\ [](LastLogged \in Nat) => ImplementsMessageIds
<1>1. Init => IdsType /\ Ids!Init
  BY DEF Init, IdsType, Ids!Init
<1>2. ASSUME IdsType, LastLogged \in Nat, [Next]_vars
      PROVE  IdsType' /\ [Ids!Next]_(Ids!idVars)
  BY <1>2, SendTakes, OpenRestarts, WritersReserve, OthersKeep
     DEF Next, Loop, Writers, Ids!Next
<1> QED
  BY <1>1, <1>2, PTL DEF Spec, ImplementsMessageIds, Ids!Spec

\* No id a message got under a reservation is given to another message, over
\* any number of crashes and restarts.
THEOREM RoomReservedIdsFresh == Spec /\ [](LastLogged \in Nat) => []ReservedIdsFresh
<1>1. ImplementsMessageIds => []Ids!ReservedIdsFresh
  BY Ids!IdsFresh DEF ImplementsMessageIds
<1>2. Ids!ReservedIdsFresh <=> ReservedIdsFresh
  BY DEF Ids!ReservedIdsFresh, ReservedIdsFresh
<1> QED
  BY <1>1, <1>2, RoomImplementsIds, PTL
=============================================================================
