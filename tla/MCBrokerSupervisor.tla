-------------------------- MODULE MCBrokerSupervisor --------------------------
(* BrokerSupervisor with finitely many interchangeable threads and sessions.  *)
EXTENDS BrokerSupervisor, TLC

Symmetry == Permutations(Threads) \union Permutations(Sessions)
=============================================================================
