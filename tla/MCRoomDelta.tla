---------------------------- MODULE MCRoomDelta ----------------------------
(* RoomDelta on a small instance: two rooms, fragments that share a        *)
(* container or a key, transactions long enough to write one fragment      *)
(* twice, and one reader, whose copies are independent of any other        *)
(* reader's, that sees one of the containers.                              *)
EXTENDS RoomDelta, TLC

CONSTANTS reader, public, shared, secret

MCGranted == [r \in {reader} |-> {shared}]

\* The first room is long-lived; the second shows that rooms are independent.
RoomBounds == <<3, 1>>

Symmetry == Permutations(Keys)
=============================================================================
