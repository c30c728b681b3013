-------------------------- MODULE MCBrokerLifecycle --------------------------
(* BrokerLifecycle with finitely many interchangeable processes and clients. *)
EXTENDS BrokerLifecycle, TLC

Symmetry == Permutations(Brokers) \union Permutations(Clients) \union Permutations(Workers)
=============================================================================
