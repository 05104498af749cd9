----------------------------- MODULE MCTLSProxy -----------------------------
EXTENDS TLSProxy
=============================================================================
