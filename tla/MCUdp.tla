------------------------------- MODULE MCUdp --------------------------------
EXTENDS RelDat
=============================================================================
