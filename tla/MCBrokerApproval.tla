-------------------------- MODULE MCBrokerApproval --------------------------
EXTENDS BrokerApprovalHistory, TLC

Symmetric == Permutations(Procs)
=============================================================================
