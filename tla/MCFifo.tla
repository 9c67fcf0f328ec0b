------------------------------- MODULE MCFifo -------------------------------
EXTENDS RelDatFifo
=============================================================================
