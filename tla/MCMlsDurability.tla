-------------------------- MODULE MCMlsDurability --------------------------
(***************************************************************************)
(* MlsDurability for TLC: a room of two accounts; alice has a second       *)
(* device where the set of devices is not MCPair.                          *)
(***************************************************************************)
EXTENDS MlsDurability

CONSTANTS a1, a2, b1, alice, bob

MCDevices == {a1, a2, b1}
MCPair == {a1, b1}
MCAccounts == {alice, bob}
MCAccountOf == [d \in Devices |-> IF d = b1 THEN bob ELSE alice]
=============================================================================
