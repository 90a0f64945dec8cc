------------------------------- MODULE MCFifoArb -------------------------------
EXTENDS FifoArb
================================================================================
