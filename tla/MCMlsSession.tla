---------------------------- MODULE MCMlsSession ----------------------------
(***************************************************************************)
(* Alice's device is the client; bob has two devices, or one.              *)
(***************************************************************************)
EXTENDS MlsSession

CONSTANTS alice, bob, me, b1, b2, m1, m2, p1

DevicesAll == {me, b1, b2}
DevicesPair == {me, b1}
AccountsAll == {alice, bob}
AccountOfAll == [d \in Devices |-> IF d = me THEN alice ELSE bob]
CiphertextsAll == [by: Devices, epoch: Nat, generation: Nat, event_id: EventIds]
=============================================================================
