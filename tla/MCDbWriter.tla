----------------------------- MODULE MCDbWriter -----------------------------
(* TLC instances of the recording path: scenarios of one command.          *)
EXTENDS DbWriter

MCBlank    == [type |-> "sensor", id |-> 0, own |-> 0, key |-> NoKey]
OneCommand == <<"water_pump">>
=============================================================================
