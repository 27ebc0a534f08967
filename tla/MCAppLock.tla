----------------------------- MODULE MCAppLock -----------------------------
(* AppLock with two command connections and two sessions: the least at     *)
(* which connections compete with each other and sessions with both.       *)
EXTENDS AppLock

CONSTANTS c1, c2, s1, s2

MCConnections == {c1, c2}
MCSessions == {s1, s2}
=============================================================================
