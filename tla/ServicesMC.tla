----------------------------- MODULE ServicesMC -----------------------------
EXTENDS Services, TLC
=============================================================================
