------------------------------ MODULE MCTunnel ------------------------------
(* Instances of the tunnel for TLC.  Sessions are interchangeable.         *)
EXTENDS HevSocks5Tunnel, TLC

SessionSymmetry == Permutations(Sessions)
============================================================================
