--------------------------- MODULE MC_ProviderChain ---------------------------
EXTENDS ProviderChain, TLC

CONSTANTS p1, p2, n1, n2

MCNames == [p \in Providers |-> IF p = p1 THEN n1 ELSE n2]
=============================================================================
