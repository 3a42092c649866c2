------------------------------ MODULE MCDrain ------------------------------
EXTENDS Drain
============================================================================
