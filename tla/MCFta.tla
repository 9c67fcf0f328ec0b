------------------------------- MODULE MCFta --------------------------------
EXTENDS FtaSession
=============================================================================
