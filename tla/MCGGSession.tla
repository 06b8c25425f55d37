---------------------------- MODULE MCGGSession ----------------------------
EXTENDS GGSession, Integers
MCNoFd == -1
=============================================================================
