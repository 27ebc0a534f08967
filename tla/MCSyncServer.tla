---------------------------- MODULE MCSyncServer ----------------------------
(* SyncServer with two sessions of different rights for one room that has   *)
(* place for one of them.                                                   *)
EXTENDS SyncServer

CONSTANTS s1, s2, public, private, star

MCSessions == {s1, s2}
OneSession == {s1}
MCGranted == [s \in Sessions |-> IF s = s1 THEN {private} ELSE {}]
RoomBounds == <<2>>
LongRoomBounds == <<3>>
=============================================================================
