---------------------------- MODULE MCRoomSession ----------------------------
(* One room; its persons and slots are few and play distinct parts, so that *)
(* no symmetry is declared.                                                 *)
EXTENDS RoomSession
=============================================================================
