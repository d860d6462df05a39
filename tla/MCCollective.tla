---------------------------- MODULE MCCollective ----------------------------
EXTENDS CollectiveInv
=============================================================================
