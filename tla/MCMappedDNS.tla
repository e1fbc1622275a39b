---------------------------- MODULE MCMappedDNS ----------------------------
(* HevMappedDNS and HevDNSMessage for TLC: the names are interchangeable.  *)
EXTENDS HevDNSMessage, TLC

NameSymmetry == Permutations(Names)
============================================================================
