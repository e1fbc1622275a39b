---------------------------- MODULE MCSessionUDP ---------------------------
EXTENDS HevSocks5SessionUDP

(* Every handshake for a TCP session; one of each kind for the relays.     *)
MCConfigs ==
    [type : {"TCP"}, pipeline : BOOLEAN, creds : {"none", "good", "bad"},
     auth : BOOLEAN]
    \cup {[type |-> "UDP_IN_TCP", pipeline |-> TRUE, creds |-> "good",
           auth |-> TRUE],
          [type |-> "UDP_IN_UDP", pipeline |-> FALSE, creds |-> "none",
           auth |-> FALSE]}
============================================================================
