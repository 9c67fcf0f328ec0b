------------------------------- MODULE MCCrp --------------------------------
EXTENDS CrpTransfer
=============================================================================
