-------------------------------- MODULE MCEcho --------------------------------
EXTENDS Echo

MCByte == 0..7
MCStream == <<1, 2, 3, 4, 5, 6, 7>>
==============================================================================
