---------------------------- MODULE MCServerLife ----------------------------
(* Two lives of the server and few descriptors for TLC. *)
EXTENDS ServerLife
=============================================================================
