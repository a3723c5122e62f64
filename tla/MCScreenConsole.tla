--------------------------- MODULE MCScreenConsole ---------------------------
(* A few messages for TLC. *)
EXTENDS ScreenConsole
=============================================================================
