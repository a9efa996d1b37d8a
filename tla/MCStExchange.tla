------------------------------ MODULE MCStExchange ------------------------------
EXTENDS StExchange, TLC
Workers == Permutations(Worker)
=============================================================================
