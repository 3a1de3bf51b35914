--------------------------- MODULE MCProxySession ---------------------------
(* Three client connections, three serial bytes, one failing accept().     *)
EXTENDS ProxySession, TLC

CONSTANTS c1, c2, c3
=============================================================================
