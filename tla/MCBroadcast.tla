---------------------------- MODULE MCBroadcast -----------------------------
(* TLC instances: two VMSs, of which one may draw two sessions.            *)
EXTENDS Broadcast

CONSTANTS a, b, a1, a2, b1

MCClient == [s \in Session |-> IF s = b1 THEN b ELSE a]

(* A session each, or a second attempt of one VMS; both.                   *)
MCAttempts == {{a1, b1}, {a1, a2}}
MCRetry == {{a1, a2, b1}}
MCAll == {"outage", "blip", "slow", "restart"}
MCRestart == {"restart"}
MCNone == {}
=============================================================================
