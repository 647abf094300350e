----------------------------- MODULE MCMcpInit -----------------------------
\* Small instances of McpInit: the clients there are.
EXTENDS McpInit, TLC

TwoClients == <<"cursor", "continue">>
Symmetry == Permutations(Inits) \cup Permutations(Servers)
=============================================================================
