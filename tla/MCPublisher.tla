---------------------------- MODULE MCPublisher ----------------------------
(* Constants of the publisher's runs that a configuration cannot write down. *)
EXTENDS PublisherSpec, TLC

NoCommands == {}
Symmetry   == Permutations(Addrs)
=============================================================================
