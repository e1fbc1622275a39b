---------------------------- MODULE MCSessionTCP ----------------------------
EXTENDS HevSocks5SessionTCP
============================================================================
