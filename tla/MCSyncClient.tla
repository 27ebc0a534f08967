---- MODULE MCSyncClient ----
(* SyncClient with three sockets, the most that a hasty program can have to  *)
(* do with at a time here, and two attempts to reconnect.                    *)
EXTENDS SyncClient

CONSTANTS s1, s2, s3

MCSockets == {s1, s2, s3}
====
