\* Orderly behaviours, and keepalives missed at any time.
CONSTANTS
  Session = {s1, s2}
  NoSession = none
  Mishaps <- MCMishaps
  MaxCommands = 4
SPECIFICATION FairSpec
INVARIANTS PauseMeansBroadcast OrderlyReceiver NoStaleClaim
PROPERTIES NoForeignStop OrderlyReady SessionsEnd SirenSounds IsSpeaker
CHECK_DEADLOCK FALSE
