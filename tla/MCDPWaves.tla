----------------------------- MODULE MCDPWaves -----------------------------
EXTENDS DPWaves

\* The first request needs a second forward pass.
MCPasses == [r \in Request |-> IF r = 1 THEN 2 ELSE 1]
=============================================================================
