---------------------------- MODULE MCClientLife ----------------------------
EXTENDS ClientLife

CONSTANTS connected
=============================================================================
