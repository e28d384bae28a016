---------------------------- MODULE MCRoomStore ----------------------------
(***************************************************************************)
(* Small instances of RoomStore for TLC.                                   *)
(***************************************************************************)
EXTENDS RoomStore
=============================================================================
