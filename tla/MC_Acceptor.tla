---------------------------- MODULE MC_Acceptor ----------------------------
(* Model-checking instance of Acceptor: two clients, so that one client's *)
(* failure can take down another's connection.                            *)
EXTENDS AcceptorFrame, TLC

CONSTANTS k1, k2
=============================================================================
