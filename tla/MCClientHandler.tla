-------------------------- MODULE MCClientHandler --------------------------
(* A small pool of handlers for TLC: no symmetry, as liveness is checked. *)
EXTENDS ClientHandler
=============================================================================
