------------------------------ MODULE MCWanHal ------------------------------
EXTENDS WanHal

MCFields == {0, 2}
=============================================================================
