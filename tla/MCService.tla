----------------------------- MODULE MCService -----------------------------
EXTENDS HevService

MCFds == {1, 2}
MCWorkers == {"w1", "w2"}
============================================================================
