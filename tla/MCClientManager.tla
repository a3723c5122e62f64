-------------------------- MODULE MCClientManager --------------------------
(* A small registry for TLC: few ids, so that it fills up, wraps and has to *)
(* probe; two sockets, so that an overwritten entry can be told apart.      *)
EXTENDS ClientManager
=============================================================================
