-------------------------- MODULE MCHandlerShutdown --------------------------
(* A small pool of handlers for TLC, which are deleted at any moment. *)
EXTENDS HandlerShutdown
=============================================================================
