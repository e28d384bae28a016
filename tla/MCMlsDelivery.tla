--------------------------- MODULE MCMlsDelivery ---------------------------
(***************************************************************************)
(* MlsDelivery for TLC: an account with two devices and one with one.      *)
(***************************************************************************)
EXTENDS MlsDelivery, TLC

CONSTANTS a1, a2, b1, alice, bob

MCDevices == {a1, a2, b1}
MCAccounts == {alice, bob}
MCAccountOf == (a1 :> alice) @@ (a2 :> alice) @@ (b1 :> bob)
=============================================================================
