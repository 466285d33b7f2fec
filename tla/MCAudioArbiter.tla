--------------------------- MODULE MCAudioArbiter ---------------------------
(* TLC instances of the speaker arbiter.                                   *)
EXTENDS AudioArbiter

(* An orderly behaviour, and one with everything that can go wrong.        *)
MCMishaps == {{"start"}, Mishap}
MCExpiry == {{"start", "expiry"}}
MCOrderly == {{"start"}}
=============================================================================
