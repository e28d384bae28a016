----------------------------- MODULE MessageIds -----------------------------
(***************************************************************************)
(* What message ids promise (crates/server/src/room_store.rs), without     *)
(* logs, writers and files: ids are counted up, a watermark on disk        *)
(* reserves the ids below it, and a restart counts on from the watermark   *)
(* or from somewhere above it.  RoomStore implements this specification.   *)
(***************************************************************************)
EXTENDS Naturals, Sequences, TLAPS

VARIABLES next_id,   \* the id of the next message
          durable,   \* the watermark on disk
          published  \* history: the messages broadcast

idVars == <<next_id, durable, published>>

Init == next_id = 1 /\ durable = 0 /\ published = <<>>

\* An id is taken; its message is broadcast, or was refused.
Take ==
    /\ next_id' = next_id + 1
    /\ \/ published' = Append(published, [id |-> next_id, reserved |-> next_id < durable])
       \/ UNCHANGED published
    /\ UNCHANGED durable

RaiseWatermark ==
    /\ durable' \in Nat /\ durable' >= durable
    /\ UNCHANGED <<next_id, published>>

Restart ==
    /\ next_id' \in Nat /\ next_id' >= durable /\ next_id' >= 1
    /\ UNCHANGED <<durable, published>>

Next == Take \/ RaiseWatermark \/ Restart

Spec == Init /\ [][Next]_idVars

\* An id broadcast while a larger watermark was on disk is never broadcast
\* with another message.
ReservedIdsFresh ==
    \A i, j \in 1..Len(published) :
        i < j /\ published[i].reserved => published[j].id # published[i].id

(***************************************************************************)
(* The proof.  An id broadcast under a reservation lies below the counter  *)
(* and below the watermark, so a restart counts on above it.               *)
(***************************************************************************)
Broadcast == [id: Nat, reserved: BOOLEAN]

IInv ==
    /\ next_id \in Nat /\ durable \in Nat
    /\ published \in Seq(Broadcast)
    /\ \A i \in 1..Len(published) :
         published[i].reserved => published[i].id < next_id /\ published[i].id < durable
    /\ ReservedIdsFresh

\* The broadcast messages have ids.
LEMMA IdsAreNaturals == IInv => \A i \in 1..Len(published) : published[i].id \in Nat
<1> SUFFICES ASSUME IInv, NEW i \in 1..Len(published) PROVE published[i].id \in Nat
  OBVIOUS
<1>1. published[i] \in Broadcast
  BY DEF IInv
<1> QED
  BY <1>1, Zenon DEF Broadcast

\* Raising the watermark, and counting on from above the counter or above the
\* watermark (persist, open_durable), keep the invariant.
LEMMA RaisingKeepsInv ==
    ASSUME IInv, UNCHANGED published, next_id' \in Nat, durable' \in Nat,
           durable' >= durable, next_id' >= next_id \/ next_id' >= durable
    PROVE  IInv'
<1>1. ASSUME NEW i \in 1..Len(published), published[i].reserved
      PROVE  published[i].id < next_id' /\ published[i].id < durable'
  <2>1. published[i].id < next_id /\ published[i].id < durable
    BY <1>1, Zenon DEF IInv
  <2>2. next_id \in Nat /\ durable \in Nat /\ published[i].id \in Nat
    BY IdsAreNaturals DEF IInv
  <2> QED
    BY <2>1, <2>2, SMT
<1>2. published' \in Seq(Broadcast) /\ ReservedIdsFresh'
  BY Zenon DEF IInv, ReservedIdsFresh
<1> QED
  BY <1>1, <1>2, Zenon DEF IInv

\* Taking an id (allocate_message_id) keeps the invariant: the new id is the
\* counter, and every reserved one is below it.
LEMMA TakeKeepsInv == IInv /\ Take => IInv'
<1> SUFFICES ASSUME IInv, Take PROVE IInv'
  OBVIOUS
<1>0. /\ next_id \in Nat /\ durable \in Nat /\ published \in Seq(Broadcast)
      /\ next_id' = next_id + 1 /\ durable' = durable
  BY DEF IInv, Take
<1>1. \A i \in 1..Len(published) : published[i].id \in Nat
  BY IdsAreNaturals
<1>2. \A i \in 1..Len(published) : published[i].reserved
          => published[i].id < next_id /\ published[i].id < durable
  BY DEF IInv
<1>3. \A i \in 1..Len(published) : published[i].reserved
          => published[i].id < next_id' /\ published[i].id < durable'
  BY <1>0, <1>1, <1>2, SMT
<1>4. CASE UNCHANGED published
  BY <1>0, <1>4, RaisingKeepsInv
<1>5. CASE published' = Append(published, [id |-> next_id, reserved |-> next_id < durable])
  <2> DEFINE n == Len(published)
  <2>1. n \in Nat /\ [id |-> next_id, reserved |-> next_id < durable] \in Broadcast
    BY <1>0 DEF Broadcast
  <2>2. /\ published' \in Seq(Broadcast) /\ Len(published') = n + 1
        /\ \A i \in 1..n : published'[i] = published[i]
        /\ published'[n + 1] = [id |-> next_id, reserved |-> next_id < durable]
    BY <1>0, <1>5, <2>1
  <2>3. published'[n + 1].id = next_id /\ (published'[n + 1].reserved => next_id < durable)
    <3>1. ASSUME NEW r, NEW b, r = [id |-> next_id, reserved |-> b]
          PROVE  r.id = next_id /\ r.reserved = b
      BY <3>1, Zenon
    <3> QED
      BY <2>2, <3>1, Zenon
  <2> HIDE DEF n
  <2>4. 1..Len(published') = 1..n \cup {n + 1}
    BY <2>1, <2>2
  <2>5. ASSUME NEW i \in 1..Len(published'), published'[i].reserved
        PROVE  published'[i].id < next_id' /\ published'[i].id < durable'
    <3>1. CASE i \in 1..n
      BY <1>3, <2>2, <2>5, <3>1, Zenon DEF n
    <3>2. CASE i = n + 1
      <4>1. published'[i].id = next_id /\ next_id < durable
        BY <2>3, <2>5, <3>2, Zenon
      <4> QED
        BY <1>0, <4>1
    <3> QED
      BY <2>4, <3>1, <3>2
  <2>6. ASSUME NEW i \in 1..Len(published'), NEW j \in 1..Len(published'),
               i < j, published'[i].reserved
        PROVE  published'[j].id # published'[i].id
    <3>1. i \in 1..n
      BY <2>1, <2>4, <2>6, SMT
    <3>2. published[i].reserved /\ published'[i].id = published[i].id
      BY <2>2, <2>6, <3>1, Zenon
    <3>3. CASE j \in 1..n
      BY <2>2, <2>6, <3>1, <3>2, <3>3, Zenon DEF IInv, ReservedIdsFresh, n
    <3>4. CASE j = n + 1
      <4>1. published[i].id < next_id /\ published[i].id \in Nat
        BY <1>1, <1>2, <3>1, <3>2, Zenon DEF n
      <4>2. published'[j].id = next_id
        BY <2>3, <3>4, Zenon
      <4> QED
        BY <1>0, <3>2, <4>1, <4>2, SMT
    <3> QED
      BY <2>4, <3>3, <3>4
  <2>7. ReservedIdsFresh'
    BY <2>6, Zenon DEF ReservedIdsFresh
  <2>8. next_id' \in Nat /\ durable' \in Nat
    BY <1>0
  <2> QED
    BY <2>2, <2>5, <2>7, <2>8, Zenon DEF IInv
<1> QED
  BY <1>4, <1>5 DEF Take

\* The promise of the watermarks: no id broadcast under a reservation is
\* broadcast again, over any number of restarts.
THEOREM IdsFresh == Spec => []ReservedIdsFresh
<1>1. Init => IInv
  BY DEF Init, IInv, ReservedIdsFresh
<1>2. IInv /\ [Next]_idVars => IInv'
  <2> SUFFICES ASSUME IInv, [Next]_idVars PROVE IInv'
    OBVIOUS
  <2>1. CASE Take
    BY <2>1, TakeKeepsInv
  <2>2. CASE RaiseWatermark
    BY <2>2, RaisingKeepsInv DEF IInv, RaiseWatermark
  <2>3. CASE Restart
    BY <2>3, RaisingKeepsInv DEF IInv, Restart
  <2>4. CASE UNCHANGED idVars
    BY <2>4 DEF IInv, idVars, ReservedIdsFresh
  <2> QED
    BY <2>1, <2>2, <2>3, <2>4 DEF Next
<1>3. IInv => ReservedIdsFresh
  BY DEF IInv
<1> QED
  BY <1>1, <1>2, <1>3, PTL DEF Spec
=============================================================================
